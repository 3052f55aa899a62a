------------------------------ MODULE Checkout ------------------------------
(***************************************************************************)
(* One customer's cart and dialogues: adding goods, changing the cart and  *)
(* ordering, in the shop's dialogue (handlers/client.py) and in the AI     *)
(* consultant's (handlers/ai.py).                                          *)
(*                                                                         *)
(* aiogram runs a handler for each update as soon as it arrives. A handler *)
(* is chosen by the FSM state read then; it reads the FSM data and the     *)
(* database, commits, and only later writes the next state to Redis, so    *)
(* two updates of one customer interleave, and the bot may die in between. *)
(* Buttons stay on the screen and can be pressed in any state.             *)
(***************************************************************************)
EXTENDS Integers, Sequences, FiniteSets

CONSTANTS
  Products, Sizes,
  NoProduct, NoSize,  \* a field of the FSM data that is not set
  Runs,               \* handler runs of the customer that may be under way
  MaxRows,            \* bound: ids of cart_items, given out in ascending order
  InitShelf,          \* product_stock at the start: <<product, size>> -> quantity
  InitCart,           \* the customer's cart at the start
  Bonus,              \* settings.ai_client_bonus_quota
  MaxQty,             \* the largest quantity the customer types
  MaxUpdates,         \* bound: messages and buttons of the customer
  MaxOutside,         \* bound: trades of others, deletions of products
  MaxCrashes          \* bound: deaths of the bot process

Rows == 1..MaxRows
Keys == Products \X Sizes
NoRow == [key |-> <<NoProduct, NoSize>>, qty |-> 0]
RowValue == [key : Keys, qty : Nat] \cup {NoRow}

\* The rows of the cart at the start are the first, and each is in stock.
ASSUME FieldsAssumption == NoProduct \notin Products /\ NoSize \notin Sizes
ASSUME RowsAssumption == MaxRows \in Nat
ASSUME ShelfAssumption == InitShelf \in [Keys -> Nat]
ASSUME CartAssumption ==
  /\ InitCart \in [Rows -> RowValue]
  /\ \E n \in 0..MaxRows : {i \in Rows : InitCart[i] # NoRow} = 1..n
  /\ \A i \in Rows : InitCart[i] # NoRow =>
       InitCart[i].qty >= 1 /\ InitCart[i].qty <= InitShelf[InitCart[i].key]
ASSUME BonusAssumption == Bonus \in Nat

VARIABLES
  shelf,      \* committed product_stock.quantity, 0 where there is no row
  peak,       \* history: the largest quantity each key has had
  gone,       \* products deleted from the catalogue
  cart,       \* committed cart_items of the customer
  nextRow,    \* the id the next new row gets
  fsm,        \* FSM state in Redis: the dialogue and its stage
  data,       \* FSM data in Redis, the fields of each dialogue
  quota,      \* users.ai_quota above its start
  orders,     \* number of the customer's orders
  wish,       \* history: what was put into the cart, less taken out and sold
  run,        \* the handler runs
  overlapped, \* history: two runs of the customer have been under way at once
  updates, outside, crashes  \* counters of the bounds

shop == <<shelf, peak, gone>>
db == <<cart, nextRow, quota, orders, wish>>
redis == <<fsm, data>>
bounds == <<overlapped, updates, outside, crashes>>
vars == <<shop, db, redis, run, bounds>>

-----------------------------------------------------------------------------
(***************************************************************************)
(* Types.                                                                  *)
(***************************************************************************)

Dialogues == {"shop", "ai"}
\* No dialogue under way is "idle": no FSM state, or AIStates.chatting.
Stages == {"idle", "size", "quantity", "name", "phone"}
State == [in : Dialogues, at : Stages]
Fields == [product : Products \cup {NoProduct}, size : Sizes \cup {NoSize}, named : BOOLEAN]
NoFields == [product |-> NoProduct, size |-> NoSize, named |-> FALSE]

\* update_data of one field, set_state, and the set_data({}) of state.clear().
RedisWrite ==
  [set : {"state"}, to : State] \cup [set : {"product"}, to : Products]
  \cup [set : {"size"}, to : Sizes] \cup [set : {"named", "wipe"}]

RunRecord ==
  [pc : {"idle", "read", "line", "step", "order", "redis"},
   kind : {"none", "size", "quantity", "phone", "step"},
   in : Dialogues, size : Sizes \cup {NoSize}, qty : Int, row : Rows \cup {0},
   key : Keys \cup {NoRow.key}, lines : [Rows -> RowValue], named : BOOLEAN,
   quota : Nat, todo : Seq(RedisWrite)]

TypeOK ==
  /\ shelf \in [Keys -> Nat] /\ peak \in [Keys -> Nat] /\ gone \subseteq Products
  /\ cart \in [Rows -> RowValue] /\ nextRow \in 1..MaxRows + 1
  /\ fsm \in State /\ data \in [Dialogues -> Fields]
  /\ quota \in Nat /\ orders \in Nat /\ wish \in [Keys -> Int]
  /\ run \in [Runs -> RunRecord]

NoRun ==
  [pc |-> "idle", kind |-> "none", in |-> "shop", size |-> NoSize, qty |-> 0, row |-> 0,
   key |-> NoRow.key, lines |-> [i \in Rows |-> NoRow], named |-> FALSE, quota |-> 0,
   todo |-> <<>>]

Live == {i \in Rows : cart[i] # NoRow}
Holding(lines, k) == {i \in Rows : lines[i].key = k}

\* The pieces of key k in the rows of a cart, each known by its row and its
\* number there.
Pieces(lines, k) == Cardinality(UNION {{i} \X (1..lines[i].qty) : i \in Holding(lines, k)})

Init ==
  /\ shelf = InitShelf /\ peak = InitShelf /\ gone = {}
  /\ cart = InitCart
  /\ nextRow = Cardinality({i \in Rows : InitCart[i] # NoRow}) + 1
  /\ fsm = [in |-> "shop", at |-> "idle"]
  /\ data = [d \in Dialogues |-> NoFields]
  /\ quota = 0 /\ orders = 0
  /\ wish = [k \in Keys |-> Pieces(InitCart, k)]
  /\ run = [r \in Runs |-> NoRun]
  /\ overlapped = FALSE /\ updates = 0 /\ outside = 0 /\ crashes = 0

-----------------------------------------------------------------------------
(***************************************************************************)
(* Handler runs.                                                           *)
(***************************************************************************)

Goto(d, stage) == [set |-> "state", to |-> [in |-> d, at |-> stage]]
Put(field, v) == [set |-> field, to |-> v]

\* state.clear() in the shop: first the state, then the data. The AI dialogue
\* goes back to chatting and keeps the data.
Leave(d) ==
  IF d = "shop" THEN <<Goto("shop", "idle"), [set |-> "wipe"]>> ELSE <<Goto("ai", "idle")>>

Become(r, L) == run' = [run EXCEPT ![r] = L]

\* The handler goes on to its writes to Redis; with none of them it is over.
Finish(L, writes) ==
  IF writes = <<>> THEN NoRun ELSE [NoRun EXCEPT !.pc = "redis", !.in = L.in, !.todo = writes]

\* An update of the customer arrives and a handler starts.
Start(r, L) ==
  /\ run[r].pc = "idle"
  /\ updates < MaxUpdates
  /\ updates' = updates + 1
  /\ overlapped' = (overlapped \/ \E q \in Runs : run[q].pc # "idle")
  /\ Become(r, L)
  /\ UNCHANGED <<shop, db, redis, outside, crashes>>

\* A text goes to the handler of the stage whose FSM state it finds.
Text(r, stage, L) == fsm.at = stage /\ Start(r, [L EXCEPT !.in = fsm.in])

Press(r, d, writes) == Start(r, Finish([NoRun EXCEPT !.in = d], writes))

\* Mutant: a size that was chosen before is kept for the next product.
PressAdd_KeepsSize(r) ==
  \E p \in Products :
    Press(r, "shop", <<Put("product", p),
                       Goto("shop", IF data["shop"].size = NoSize THEN "size" ELSE "quantity")>>)

\* The "add to cart" button of a product card.
PressAdd(r) ==
  \E p \in Products : Press(r, "shop", <<Put("product", p), Goto("shop", "size")>>)

\* In the AI dialogue the button looks whether the product is there in any size.
AiPressAdd(r) ==
  \E p \in Products \ gone :
    /\ \E s \in Sizes : shelf[<<p, s>>] > 0
    /\ Press(r, "ai", <<Put("product", p), Goto("ai", "size")>>)

TypeSize(r) ==
  \E s \in Sizes : Text(r, "size", [NoRun EXCEPT !.pc = "read", !.kind = "size", !.size = s])

TypeQuantity(r) ==
  \E q \in 1..MaxQty :
    Text(r, "quantity", [NoRun EXCEPT !.pc = "read", !.kind = "quantity", !.qty = q])

\* "Back" in the shop: only the questions for the size and the quantity know it,
\* whatever is typed instead of a name or a phone number is taken for it.
TypeBack(r) ==
  /\ fsm.in = "shop" /\ fsm.at \in {"size", "quantity"}
  /\ Press(r, "shop", Leave("shop"))

\* "Exit" in the AI dialogue, at every stage.
AiTypeExit(r) == fsm.in = "ai" /\ fsm.at # "idle" /\ Press(r, "ai", Leave("ai"))

PressCheckout(r) == Press(r, "shop", <<Goto("shop", "name")>>)

\* The AI dialogue starts no checkout of an empty cart.
AiPressCheckout(r) == Live # {} /\ Press(r, "ai", <<Goto("ai", "name")>>)

TypeName(r) ==
  fsm.at = "name" /\ Press(r, fsm.in, <<[set |-> "named"], Goto(fsm.in, "phone")>>)

TypePhone(r) == Text(r, "phone", [NoRun EXCEPT !.pc = "read", !.kind = "phone"])

\* The buttons -1 and +1 of a cart row.
PressStep(r) ==
  \E i \in 1..nextRow - 1, q \in {-1, 1} :
    Start(r, [NoRun EXCEPT !.pc = "read", !.kind = "step", !.row = i, !.qty = q])

-----------------------------------------------------------------------------
(***************************************************************************)
(* What the handlers read.                                                 *)
(***************************************************************************)

Reads(r, kind) ==
  /\ run[r].pc = "read" /\ run[r].kind = kind
  /\ UNCHANGED <<shop, db, redis, bounds>>

\* A size that the product, as the FSM data names it now, has in stock.
Sized(L, d) ==
  LET p == data[d].product
  IN IF p \in gone \cup {NoProduct} THEN Finish(L, Leave(d))
     ELSE IF shelf[<<p, L.size>>] = 0 THEN NoRun
     ELSE Finish(L, <<Put("size", L.size), Goto(d, "quantity")>>)

ReadSize(r) == Reads(r, "size") /\ run[r].in = "shop" /\ Become(r, Sized(run[r], "shop"))
AiReadSize(r) == Reads(r, "size") /\ run[r].in = "ai" /\ Become(r, Sized(run[r], "ai"))

\* The stock against what one row of the cart holds and the customer adds. Two
\* rows of one key make the SELECT of add_to_cart raise.
Counted(L, d) ==
  LET k == <<data[d].product, data[d].size>>
  IN IF k \notin Keys \/ data[d].product \in gone \/ shelf[k] = 0 THEN Finish(L, Leave(d))
     ELSE IF Cardinality(Holding(cart, k)) > 1 \/ Pieces(cart, k) + L.qty > shelf[k] THEN NoRun
     ELSE [L EXCEPT !.pc = "line", !.key = k, !.lines = cart]

ReadQuantity(r) ==
  Reads(r, "quantity") /\ run[r].in = "shop" /\ Become(r, Counted(run[r], "shop"))
AiReadQuantity(r) ==
  Reads(r, "quantity") /\ run[r].in = "ai" /\ Become(r, Counted(run[r], "ai"))

\* An empty cart ends the dialogue. The user row is read with the cart: its
\* quota is written back later.
Listed(L, d) ==
  IF Live = {} THEN Finish(L, Leave(d))
  ELSE [L EXCEPT !.pc = "order", !.lines = cart, !.quota = quota, !.named = data[d].named]

ReadPhone(r) == Reads(r, "phone") /\ run[r].in = "shop" /\ Become(r, Listed(run[r], "shop"))

\* The AI dialogue asks again for a name it does not find.
AiReadPhone(r) ==
  /\ Reads(r, "phone") /\ run[r].in = "ai"
  /\ Become(r, IF data["ai"].named THEN Listed(run[r], "ai")
               ELSE Finish(run[r], <<Goto("ai", "name")>>))

\* change_cart_item_quantity: not below one piece, not above the stock.
ReadStep(r) ==
  /\ Reads(r, "step")
  /\ LET i == run[r].row
         q == cart[i].qty + run[r].qty
     IN Become(r, IF cart[i] = NoRow THEN NoRun
                  ELSE IF q < 1 \/ q > shelf[cart[i].key] THEN NoRun
                  ELSE [run[r] EXCEPT !.pc = "step", !.lines = cart])

-----------------------------------------------------------------------------
(***************************************************************************)
(* What they commit.                                                       *)
(***************************************************************************)

Wish(k, n) == wish' = [wish EXCEPT ![k] = @ + n]

\* Mutant: the row is increased in SQL, by what was checked against an old row.
CommitLine_Increments(r) ==
  /\ run[r].pc = "line"
  /\ \E i \in Holding(cart, run[r].key) : cart' = [cart EXCEPT ![i].qty = @ + run[r].qty]
  /\ Wish(run[r].key, run[r].qty)
  /\ Become(r, Finish(run[r], Leave(run[r].in)))
  /\ UNCHANGED <<shop, redis, bounds, nextRow, quota, orders>>

\* add_to_cart: the row it found gets an absolute value; otherwise a new row,
\* though another run may have inserted one meanwhile. A row or a product that
\* has vanished makes the statement fail, and the handler ends there.
CommitLine(r) ==
  /\ run[r].pc = "line"
  /\ LET k == run[r].key
         old == Holding(run[r].lines, k)
     IN IF k[1] \in gone \/ \E i \in old : cart[i] = NoRow
        THEN Become(r, NoRun) /\ UNCHANGED db
        ELSE /\ IF old # {}
                THEN /\ \E i \in old :
                          cart' = [cart EXCEPT ![i].qty = run[r].lines[i].qty + run[r].qty]
                     /\ UNCHANGED nextRow
                ELSE /\ nextRow \in Rows
                     /\ cart' = [cart EXCEPT ![nextRow] = [key |-> k, qty |-> run[r].qty]]
                     /\ nextRow' = nextRow + 1
             /\ Wish(k, run[r].qty)
             /\ Become(r, Finish(run[r], Leave(run[r].in)))
             /\ UNCHANGED <<quota, orders>>
  /\ UNCHANGED <<shop, redis, bounds>>

CommitStep(r) ==
  /\ run[r].pc = "step"
  /\ LET i == run[r].row
     IN IF cart[i] = NoRow
        THEN UNCHANGED db
        ELSE /\ cart' = [cart EXCEPT ![i].qty = run[r].lines[i].qty + run[r].qty]
             /\ Wish(cart[i].key, run[r].qty)
             /\ UNCHANGED <<nextRow, quota, orders>>
  /\ Become(r, NoRun)
  /\ UNCHANGED <<shop, redis, bounds>>

\* The delete button of a cart row.
PressDelete(r) ==
  /\ run[r].pc = "idle" /\ updates < MaxUpdates
  /\ updates' = updates + 1
  /\ overlapped' = (overlapped \/ \E q \in Runs : run[q].pc # "idle")
  /\ \E i \in Live : /\ cart' = [cart EXCEPT ![i] = NoRow]
                     /\ Wish(cart[i].key, 0 - cart[i].qty)
  /\ UNCHANGED <<shop, redis, run, nextRow, quota, orders, outside, crashes>>

Enough(lines) == \A k \in Keys : Pieces(lines, k) <= shelf[k]

\* Mutant: the cart is not emptied in the commit of the order.
PlaceOrder_KeepsCart(r) ==
  /\ run[r].pc = "order" /\ run[r].named /\ Enough(run[r].lines)
  /\ shelf' = [k \in Keys |-> shelf[k] - Pieces(run[r].lines, k)]
  /\ wish' = [k \in Keys |-> wish[k] - Pieces(run[r].lines, k)]
  /\ orders' = orders + 1 /\ quota' = run[r].quota + Bonus
  /\ Become(r, Finish(run[r], Leave(run[r].in)))
  /\ UNCHANGED <<peak, gone, cart, nextRow, redis, bounds>>

\* Mutant: the stock is not compared with the cart.
PlaceOrder_Unchecked(r) ==
  /\ run[r].pc = "order" /\ run[r].named
  /\ shelf' = [k \in Keys |-> shelf[k] - Pieces(run[r].lines, k)]
  /\ wish' = [k \in Keys |-> wish[k] - Pieces(run[r].lines, k)]
  /\ cart' = [i \in Rows |-> NoRow]
  /\ orders' = orders + 1 /\ quota' = run[r].quota + Bonus
  /\ Become(r, Finish(run[r], Leave(run[r].in)))
  /\ UNCHANGED <<peak, gone, nextRow, redis, bounds>>

\* Mutant: the bonus is also credited by a refused order.
RefuseOrder_WithBonus(r) ==
  /\ run[r].pc = "order" /\ ~Enough(run[r].lines)
  /\ quota' = run[r].quota + Bonus
  /\ Become(r, Finish(run[r], Leave(run[r].in)))
  /\ UNCHANGED <<shop, cart, nextRow, orders, wish, redis, bounds>>

\* create_order sells the lines that were listed, under its row locks; the
\* bonus and the emptied cart (all rows of the user, also later ones) are in
\* the same commit. The quota is written as an absolute value.
PlaceOrder(r) ==
  /\ run[r].pc = "order" /\ run[r].named /\ Enough(run[r].lines)
  /\ shelf' = [k \in Keys |-> shelf[k] - Pieces(run[r].lines, k)]
  /\ wish' = [k \in Keys |-> wish[k] - Pieces(run[r].lines, k)]
  /\ cart' = [i \in Rows |-> NoRow]
  /\ orders' = orders + 1
  /\ quota' = run[r].quota + Bonus
  /\ Become(r, Finish(run[r], Leave(run[r].in)))
  /\ UNCHANGED <<peak, gone, nextRow, redis, bounds>>

\* create_order returns None; the cart stays.
RefuseOrder(r) ==
  /\ run[r].pc = "order" /\ ~Enough(run[r].lines)
  /\ Become(r, Finish(run[r], Leave(run[r].in)))
  /\ UNCHANGED <<shop, db, redis, bounds>>

\* orders.full_name is NOT NULL: an order without a name cannot be inserted.
NamelessOrder(r) ==
  /\ run[r].pc = "order" /\ ~run[r].named /\ Enough(run[r].lines)
  /\ Become(r, NoRun)
  /\ UNCHANGED <<shop, db, redis, bounds>>

\* The next write to Redis.
WriteRedis(r) ==
  /\ run[r].pc = "redis"
  /\ LET w == Head(run[r].todo)
         d == run[r].in
     IN /\ fsm' = IF w.set = "state" THEN w.to ELSE fsm
        /\ data' = IF w.set = "wipe" THEN [e \in Dialogues |-> NoFields]
                   ELSE IF w.set = "product" THEN [data EXCEPT ![d].product = w.to]
                   ELSE IF w.set = "size" THEN [data EXCEPT ![d].size = w.to]
                   ELSE IF w.set = "named" THEN [data EXCEPT ![d].named = TRUE]
                   ELSE data
  /\ Become(r, Finish(run[r], Tail(run[r].todo)))
  /\ UNCHANGED <<shop, db, bounds>>

-----------------------------------------------------------------------------
(***************************************************************************)
(* Everything else.                                                        *)
(***************************************************************************)

\* Other customers buy, orders are cancelled, the owner corrects a quantity.
OthersTrade ==
  /\ outside < MaxOutside /\ outside' = outside + 1
  /\ \E k \in Keys, q \in {-1, 1} :
       /\ shelf[k] + q >= 0 /\ k[1] \notin gone
       /\ shelf' = [shelf EXCEPT ![k] = @ + q]
       /\ peak' = [peak EXCEPT ![k] = IF shelf[k] + q > @ THEN shelf[k] + q ELSE @]
  /\ UNCHANGED <<gone, db, redis, run, overlapped, updates, crashes>>

\* A deleted product takes its stock and its cart rows along (ON DELETE CASCADE).
DeleteProduct ==
  /\ outside < MaxOutside /\ outside' = outside + 1
  /\ \E p \in Products \ gone :
       /\ gone' = gone \cup {p}
       /\ shelf' = [k \in Keys |-> IF k[1] = p THEN 0 ELSE shelf[k]]
       /\ cart' = [i \in Rows |-> IF cart[i].key[1] = p THEN NoRow ELSE cart[i]]
       /\ wish' = [k \in Keys |-> IF k[1] = p THEN wish[k] - Pieces(cart, k) ELSE wish[k]]
  /\ UNCHANGED <<peak, nextRow, quota, orders, redis, run, overlapped, updates, crashes>>

\* The bot dies; what was committed and written stays.
Crash ==
  /\ crashes < MaxCrashes /\ crashes' = crashes + 1
  /\ \E r \in Runs : run[r].pc # "idle"
  /\ run' = [r \in Runs |-> NoRun]
  /\ UNCHANGED <<shop, db, redis, overlapped, updates, outside>>

Customer(r) ==
  \/ PressAdd(r) \/ AiPressAdd(r) \/ TypeSize(r) \/ TypeQuantity(r)
  \/ TypeBack(r) \/ AiTypeExit(r) \/ PressCheckout(r) \/ AiPressCheckout(r)
  \/ TypeName(r) \/ TypePhone(r) \/ PressStep(r) \/ PressDelete(r)

Handler(r) ==
  \/ ReadSize(r) \/ AiReadSize(r) \/ ReadQuantity(r) \/ AiReadQuantity(r)
  \/ ReadPhone(r) \/ AiReadPhone(r) \/ ReadStep(r)
  \/ CommitLine(r) \/ CommitStep(r) \/ PlaceOrder(r) \/ RefuseOrder(r) \/ NamelessOrder(r)
  \/ WriteRedis(r)

Next == (\E r \in Runs : Customer(r) \/ Handler(r)) \/ OthersTrade \/ DeleteProduct \/ Crash

Spec == Init /\ [][Next]_vars

(***************************************************************************)
(* Properties.                                                             *)
(***************************************************************************)

\* However the customer's updates interleave and fail, no row of the cart asks
\* for more pieces than its size has ever had: rows are written as absolute
\* values that were checked against the stock (process_quantity_input,
\* change_cart_item_quantity).
RowWithinStock == \A i \in Live : cart[i].qty >= 1 /\ cart[i].qty <= peak[cart[i].key]

\* A customer who waits for each answer orders every piece once: whatever was
\* put into the cart and not taken out is still there or has been sold in
\* exactly one order, also when the bot dies after the commit and the phone
\* number is sent again (process_order_phone, ai_checkout_phone).
SoldOnce == ~overlapped => \A k \in Keys : Pieces(cart, k) = wish[k]

\* The bonus is paid at most once for each order, under any interleaving, and
\* exactly once for a customer who waits for each answer.
BonusPerOrder ==
  /\ quota <= Bonus * orders
  /\ ~overlapped => quota = Bonus * orders

\* While the bot waits for the quantity, the size in the FSM data is one the
\* product there is sold in: without overlapping updates or a death of the bot a
\* stale button or a dialogue left half-way never pairs one product with the
\* size of another (cq_cart_add, process_size_input).
SizeOfProduct ==
  ~overlapped /\ crashes = 0 /\ fsm.at = "quantity" /\ (\A r \in Runs : run[r].pc = "idle") =>
    LET f == data[fsm.in] IN <<f.product, f.size>> \in Keys /\ peak[<<f.product, f.size>>] > 0

=============================================================================
