----------------------------- MODULE OrderStock -----------------------------
(***************************************************************************)
(* The stock rows (table product_stock) and the orders of the shop, under  *)
(* the concurrent handlers of the Telegram bot and of the web API.         *)
(*                                                                         *)
(* One session is one run of a handler with an AsyncSession of its own.    *)
(* PostgreSQL runs at READ COMMITTED: a plain SELECT sees the last         *)
(* committed quantity and waits for nothing, SELECT ... FOR UPDATE and     *)
(* UPDATE wait for the row lock and keep it until commit or rollback.      *)
(* SQLAlchemy adds two things the code depends on: a row that is already   *)
(* in the session's identity map is not refreshed by a later SELECT, and   *)
(* "stock.quantity += n" is sent as an absolute value.                     *)
(***************************************************************************)
EXTENDS Integers, FiniteSets

CONSTANTS
  Keys,        \* the (product, size) pairs: rows of product_stock
  Product,     \* the product each key belongs to
  Sessions,    \* handler runs; the order a checkout creates has its name
  NoSession,   \* a row nobody has locked
  Carts,       \* what a checkout may ask for: key -> quantity
  Handlers,    \* the handlers that run in this instance
  InitStock,   \* the quantities before the first handler runs
  MaxCount     \* the largest quantity an owner types by hand

AllHandlers ==
  {"checkout", "web", "client_cancel", "owner_cancel", "owner_done", "set_stock"}

ASSUME SessionsAssumption == NoSession \notin Sessions
ASSUME KeysAssumption == Keys # {} /\ DOMAIN Product = Keys
ASSUME StockAssumption == InitStock \in [Keys -> Nat] /\ MaxCount \in Nat
ASSUME CartsAssumption ==
  Carts \subseteq [Keys -> Nat] /\ \A c \in Carts : \E k \in Keys : c[k] > 0
ASSUME HandlersAssumption == Handlers \subseteq AllHandlers

VARIABLES
  stock,     \* committed product_stock.quantity
  net,       \* committed stock_movements: sum of IN minus sum of OUT quantities
  lockedBy,  \* row locks: the session whose transaction holds the row
  order,     \* committed orders: status and order_items
  tx         \* what each running handler has in hand

vars == <<stock, net, lockedBy, order, tx>>

-----------------------------------------------------------------------------
(***************************************************************************)
(* Types.                                                                  *)
(***************************************************************************)

Statuses == {"none", "new", "processing", "completed", "cancelled"}

\* The keys a quantity map mentions: required_by_key, or the items of an order.
Support(q) == {k \in Keys : q[k] > 0}

Siblings(k) == {j \in Keys : Product[j] = Product[k]}

Phases == {"idle", "preload", "precheck", "lock", "read", "write", "commit", "closing", "done"}

TxRecord ==
  [pc : Phases, kind : AllHandlers, amount : [Keys -> Nat], target : Sessions,
   seen : Statuses, cur : Keys, todo : SUBSET Keys, loaded : SUBSET Keys,
   read : [Keys -> Nat]]

TypeOK ==
  /\ stock \in [Keys -> Nat]
  /\ net \in [Keys -> Int]
  /\ lockedBy \in [Keys -> Sessions \cup {NoSession}]
  /\ order \in [Sessions -> [status : Statuses, items : [Keys -> Nat]]]
  /\ tx \in [Sessions -> TxRecord]

Nothing == [k \in Keys |-> 0]

Fresh(s) ==
  [pc |-> "idle", kind |-> "checkout", amount |-> Nothing, target |-> s,
   seen |-> "none", cur |-> CHOOSE k \in Keys : TRUE, todo |-> {},
   loaded |-> {}, read |-> Nothing]

Init ==
  /\ stock = InitStock
  /\ net = Nothing
  /\ lockedBy = [k \in Keys |-> NoSession]
  /\ order = [s \in Sessions |-> [status |-> "none", items |-> Nothing]]
  /\ tx = [s \in Sessions |-> Fresh(s)]

-----------------------------------------------------------------------------
(***************************************************************************)
(* The database and the ORM.                                               *)
(***************************************************************************)

\* A SELECT of the rows K: the identity map keeps the rows it already has.
Select(t, K) ==
  [t EXCEPT !.loaded = @ \cup K,
            !.read = [k \in Keys |-> IF k \in K \ t.loaded THEN stock[k] ELSE @[k]]]

\* The loop "for ... in items": on to a next key in phase more, or out of it.
Step(t, more, after) ==
  IF t.todo = {}
  THEN {[t EXCEPT !.pc = after]}
  ELSE {[t EXCEPT !.pc = more, !.cur = k, !.todo = @ \ {k}] : k \in t.todo}

Goto(s, t) == tx' = [tx EXCEPT ![s] = t]

Release(s) ==
  lockedBy' = [k \in Keys |-> IF lockedBy[k] = s THEN NoSession ELSE lockedBy[k]]

\* Mutant: the returned goods are subtracted once more.
Written_ReturnSubtracts(t, k) ==
  CASE t.kind \in {"checkout", "web"} ->
         IF t.read[k] < t.amount[k] THEN 0 ELSE t.read[k] - t.amount[k]
    [] t.kind = "set_stock" -> t.amount[k]
    [] OTHER -> t.read[k] - t.amount[k]

\* The quantity the transaction writes to a row it has locked.
Written(t, k) ==
  CASE t.kind \in {"checkout", "web"} ->
         IF t.read[k] < t.amount[k] THEN 0 ELSE t.read[k] - t.amount[k]
    [] t.kind = "set_stock" -> t.amount[k]
    [] OTHER -> t.read[k] + t.amount[k]

\* The signed quantity of the stock_movements row it adds for the key.
Movement(t, k) ==
  CASE t.kind \in {"checkout", "web"} -> 0 - t.amount[k]
    [] t.kind = "set_stock" -> t.amount[k] - t.read[k]
    [] OTHER -> t.amount[k]

\* The AsyncSession is closed: its identity map and its row locks are gone.
End(s) == Release(s) /\ Goto(s, [Fresh(s) EXCEPT !.pc = "done"])

\* COMMIT: the rows the transaction locked get its values, and are free again.
CommitStock(s) ==
  /\ stock' = [k \in Keys |->
                 IF lockedBy[k] = s THEN Written(tx[s], k) ELSE stock[k]]
  /\ net' = [k \in Keys |->
               IF lockedBy[k] = s THEN net[k] + Movement(tx[s], k) ELSE net[k]]
  /\ End(s)

\* ROLLBACK: nothing of the transaction stays.
Rollback(s) ==
  /\ End(s)
  /\ UNCHANGED <<stock, net, order>>

-----------------------------------------------------------------------------
(***************************************************************************)
(* Checkout: OrdersRepo.create_order, from the Telegram and AI dialogues   *)
(* (kind "checkout") and from POST /api/orders (kind "web").               *)
(***************************************************************************)

Rows == <<stock, net, lockedBy, order>>

\* The loop over required_by_key.
StartLocking(t) == Step([t EXCEPT !.todo = Support(t.amount)], "lock", "commit")

\* Mutant: the cart query also loads the stock rows, as the web order does.
BeginCheckout_StockPreloaded(s) ==
  /\ "checkout" \in Handlers
  /\ tx[s].pc = "idle"
  /\ \E c \in Carts :
       \E t \in StartLocking([Select(tx[s], Support(c)) EXCEPT !.kind = "checkout",
                                                              !.amount = c]) : Goto(s, t)
  /\ UNCHANGED Rows

\* A dialogue has read the cart (not its stock rows) and calls create_order.
BeginCheckout(s) ==
  /\ "checkout" \in Handlers
  /\ tx[s].pc = "idle"
  /\ \E c \in Carts :
       \E t \in StartLocking([tx[s] EXCEPT !.kind = "checkout", !.amount = c]) : Goto(s, t)
  /\ UNCHANGED Rows

\* A web order starts with the loop over payload.items.
BeginWebOrder(s) ==
  /\ "web" \in Handlers
  /\ tx[s].pc = "idle"
  /\ \E c \in Carts :
       \E t \in Step([tx[s] EXCEPT !.kind = "web", !.amount = c, !.todo = Support(c)],
                     "preload", "lock") : Goto(s, t)
  /\ UNCHANGED Rows

\* selectinload(Product.stock): all sizes of the product enter the identity
\* map. Without a size in the payload the loaded quantity may already refuse.
PreloadProduct(s) ==
  /\ tx[s].pc = "preload"
  /\ LET t == Select(tx[s], Siblings(tx[s].cur))
     IN \/ Goto(s, [t EXCEPT !.pc = "precheck"])
        \/ /\ t.read[t.cur] < t.amount[t.cur]
           /\ Goto(s, [t EXCEPT !.pc = "closing"])
  /\ UNCHANGED Rows

\* SELECT sum(quantity): a fresh value, unlocked, compared per payload item.
\* Several items may ask for one key, so each may ask for less than amount.
Precheck(s) ==
  /\ tx[s].pc = "precheck"
  /\ LET t == tx[s]
         k == t.cur
     IN \/ /\ stock[k] > 0
           /\ \E u \in IF t.todo = {} THEN StartLocking(t) ELSE Step(t, "preload", "lock") :
                Goto(s, u)
        \/ /\ stock[k] < t.amount[k]
           /\ Goto(s, [t EXCEPT !.pc = "closing"])
  /\ UNCHANGED Rows

\* Mutant: the quantity under the lock is not compared with the demand.
LockRow_Unchecked(s) ==
  /\ tx[s].pc = "lock"
  /\ lockedBy[tx[s].cur] = NoSession
  /\ lockedBy' = [lockedBy EXCEPT ![tx[s].cur] = s]
  /\ \E u \in Step(Select(tx[s], {tx[s].cur}), "lock", "commit") : Goto(s, u)
  /\ UNCHANGED <<stock, net, order>>

\* SELECT ... FOR UPDATE of one row, then the availability check.
LockRow(s) ==
  /\ tx[s].pc = "lock"
  /\ lockedBy[tx[s].cur] = NoSession
  /\ lockedBy' = [lockedBy EXCEPT ![tx[s].cur] = s]
  /\ LET t == Select(tx[s], {tx[s].cur})
     IN IF t.read[t.cur] < t.amount[t.cur]
        THEN Goto(s, [t EXCEPT !.pc = "closing"])
        ELSE \E u \in Step(t, "lock", "commit") : Goto(s, u)
  /\ UNCHANGED <<stock, net, order>>

\* The order, its items, the write-offs and their movements become visible.
PlaceOrder(s) ==
  /\ tx[s].pc = "commit"
  /\ tx[s].kind \in {"checkout", "web"}
  /\ CommitStock(s)
  /\ order' = [order EXCEPT ![s] = [status |-> "new", items |-> tx[s].amount]]

\* Mutant: the refused handler leaves its transaction open.
CloseRefused_KeepsLocks(s) ==
  /\ tx[s].pc = "closing"
  /\ Goto(s, [tx[s] EXCEPT !.pc = "done"])
  /\ UNCHANGED Rows

\* The refused handler returns; its session, and the locks, end only then.
CloseRefused(s) ==
  /\ tx[s].pc = "closing"
  /\ Rollback(s)

(***************************************************************************)
(* Cancellation (OrdersRepo.cancel_order), completion, and the quantity an *)
(* owner types in (CatalogRepo.update_stock_quantity).                     *)
(***************************************************************************)

\* cancel_order loads the order and goes through its items.
StartReturning(s, o, kd) ==
  \E t \in Step([tx[s] EXCEPT !.kind = kd, !.target = o, !.seen = order[o].status,
                              !.amount = order[o].items, !.todo = Support(order[o].items)],
                "read", "commit") : Goto(s, t)

\* The customer's cancel_do button: only an order that is still active.
BeginClientCancel(s) ==
  /\ "client_cancel" \in Handlers
  /\ tx[s].pc = "idle"
  /\ \E o \in Sessions : /\ order[o].status \in {"new", "processing"}
                        /\ StartReturning(s, o, "client_cancel")
  /\ UNCHANGED Rows

\* The staff's cancel button: any order that exists.
BeginOwnerCancel(s) ==
  /\ "owner_cancel" \in Handlers
  /\ tx[s].pc = "idle"
  /\ \E o \in Sessions : /\ order[o].status # "none"
                        /\ StartReturning(s, o, "owner_cancel")
  /\ UNCHANGED Rows

\* The owner types a new quantity for one size.
BeginSetStock(s) ==
  /\ "set_stock" \in Handlers
  /\ tx[s].pc = "idle"
  /\ \E k \in Keys, q \in 0..MaxCount :
       Goto(s, [tx[s] EXCEPT !.kind = "set_stock", !.pc = "read", !.cur = k,
                             !.amount = [Nothing EXCEPT ![k] = q]])
  /\ UNCHANGED Rows

\* A plain SELECT of the stock row: no lock, and it waits for nobody.
ReadRow(s) ==
  /\ tx[s].pc = "read"
  /\ Goto(s, [Select(tx[s], {tx[s].cur}) EXCEPT !.pc = "write"])
  /\ UNCHANGED Rows

\* The flush in add_movement sends the UPDATE, which waits for the row lock.
\* A quantity set to the value that was read is no change and no UPDATE.
WriteRow(s) ==
  /\ tx[s].pc = "write"
  /\ LET t == tx[s]
     IN /\ IF Written(t, t.cur) = t.read[t.cur]
           THEN UNCHANGED lockedBy
           ELSE /\ lockedBy[t.cur] = NoSession
                /\ lockedBy' = [lockedBy EXCEPT ![t.cur] = s]
        /\ \E u \in Step(t, "read", "commit") : Goto(s, u)
  /\ UNCHANGED <<stock, net, order>>

\* order.status = CANCELLED is sent only if the loaded order had another status.
FinishCancel(s) ==
  /\ tx[s].pc = "commit"
  /\ tx[s].kind \in {"client_cancel", "owner_cancel"}
  /\ CommitStock(s)
  /\ order' = IF tx[s].seen = "cancelled"
              THEN order
              ELSE [order EXCEPT ![tx[s].target].status = "cancelled"]

FinishSetStock(s) ==
  /\ tx[s].pc = "commit"
  /\ tx[s].kind = "set_stock"
  /\ CommitStock(s)
  /\ UNCHANGED order

\* The staff's done button: one UPDATE by id, whatever the status was.
OwnerDone(s) ==
  /\ "owner_done" \in Handlers
  /\ tx[s].pc = "idle"
  /\ \E o \in Sessions :
       /\ order[o].status # "none"
       /\ order' = [order EXCEPT ![o].status = "completed"]
  /\ Goto(s, [Fresh(s) EXCEPT !.pc = "done"])
  /\ UNCHANGED <<stock, net, lockedBy>>

-----------------------------------------------------------------------------
(***************************************************************************)
(* Failures.                                                               *)
(***************************************************************************)

Running(s) == tx[s].pc \notin {"idle", "done"}

\* An exception in the handler, or the death of its process or connection.
Fail(s) ==
  /\ Running(s)
  /\ Rollback(s)

\* The key whose row lock the session's statement needs.
Waits(s, r) ==
  /\ \/ tx[s].pc = "lock"
     \/ tx[s].pc = "write" /\ Written(tx[s], tx[s].cur) # tx[s].read[tx[s].cur]
  /\ lockedBy[tx[s].cur] = r

Deadlocked(s) ==
  \E C \in SUBSET Sessions :
    /\ s \in C
    /\ \A a \in C : \E b, d \in C : Waits(a, b) /\ Waits(d, a)

\* PostgreSQL's detector aborts a transaction of a cycle of row-lock waits.
DeadlockAbort(s) ==
  /\ Deadlocked(s)
  /\ Rollback(s)

\* All handler runs of the instance are over.
Terminated ==
  /\ \A s \in Sessions : tx[s].pc = "done"
  /\ UNCHANGED vars

-----------------------------------------------------------------------------
Progress(s) ==
  \/ PreloadProduct(s) \/ Precheck(s) \/ LockRow(s) \/ PlaceOrder(s) \/ CloseRefused(s)
  \/ ReadRow(s) \/ WriteRow(s) \/ FinishCancel(s) \/ FinishSetStock(s)
  \/ DeadlockAbort(s)

Begin(s) ==
  \/ BeginCheckout(s) \/ BeginWebOrder(s) \/ BeginClientCancel(s) \/ BeginOwnerCancel(s)
  \/ BeginSetStock(s) \/ OwnerDone(s)

Next == \/ \E s \in Sessions : Begin(s) \/ Progress(s) \/ Fail(s)
        \/ Terminated

Spec == Init /\ [][Next]_vars

\* A handler that has started is scheduled again; nobody has to start one.
FairSpec == Spec /\ \A s \in Sessions : WF_vars(Progress(s))

(***************************************************************************)
(* Properties.                                                             *)
(***************************************************************************)

IsSale(s) == tx[s].kind \in {"checkout", "web"}

Sells(s) == order[s].status = "none" /\ order'[s].status # "none"

Cancels(s) == tx[s].kind \in {"client_cancel", "owner_cancel"} /\ FinishCancel(s)

\* A checkout of a dialogue holds the row lock from its read to its commit, so
\* the quantity it computes with is the committed one, whatever the other
\* handlers do meanwhile (create_order, SELECT ... FOR UPDATE).
LockedReadCurrent ==
  \A s \in Sessions, k \in Keys :
    tx[s].kind = "checkout" /\ lockedBy[k] = s =>
      k \in tx[s].loaded /\ tx[s].read[k] = stock[k]

\* No sale is cut to what is left: a checkout about to commit, also one that
\* computes with a stale quantity, has read enough of every key, so the clamp
\* "if stock.quantity < 0" never acts and every movement row is arithmetically
\* right (stock_after = stock_before - quantity).
SaleRowExact ==
  \A s \in Sessions :
    IsSale(s) /\ tx[s].pc = "commit" =>
      \A k \in Support(tx[s].amount) :
        lockedBy[k] = s /\ tx[s].read[k] >= tx[s].amount[k]

\* The customer of a dialogue is told that goods have run out only if they have:
\* while the refused session still holds the row, the committed quantity is
\* below the demand (a stale quantity would refuse goods that are there).
RefusalJustified ==
  \A s \in Sessions :
    tx[s].kind = "checkout" /\ tx[s].pc = "closing" =>
      stock[tx[s].cur] < tx[s].amount[tx[s].cur]

\* What a running session and the row locks say of each other.
SessionInv(s) ==
  LET t == tx[s]
  IN /\ t.pc \in {"idle", "done"} => t.kind = "checkout"
     /\ t.pc \in {"preload", "precheck"} => t.kind = "web"
     /\ t.pc \in {"lock", "closing"} => IsSale(s)
     /\ t.pc \in {"read", "write"} => ~IsSale(s)
     /\ t.pc \in {"idle", "preload", "precheck", "done"} => \A k \in Keys : lockedBy[k] # s
     /\ t.kind = "checkout" => \A k \in t.loaded : lockedBy[k] = s
     /\ IsSale(s) => \A k \in Keys : lockedBy[k] = s => t.amount[k] > 0
     /\ IsSale(s) /\ t.pc \in {"lock", "commit"} =>
          \A k \in Keys : lockedBy[k] = s => t.amount[k] <= t.read[k]
     /\ t.pc = "lock" =>
          /\ t.cur \notin t.todo
          /\ t.todo \cup {t.cur} = {k \in Support(t.amount) : lockedBy[k] # s}
     /\ IsSale(s) /\ t.pc = "commit" => \A k \in Support(t.amount) : lockedBy[k] = s
     /\ t.kind \in {"client_cancel", "owner_cancel"} => order[t.target].status # "none"

\* The rows a handler holds are exactly those its loop has passed: no session
\* that has ended, or has not reached its first write, holds a row; a checkout
\* in its loop holds the keys behind it and none of those ahead; and the rows
\* held by a sale that goes on all have enough for it.
LockDiscipline == \A s \in Sessions : SessionInv(s)

\* The commit of a dialogue's checkout writes off exactly what it sold, on the
\* quantity that was committed then: it loses no update of a concurrent
\* checkout, cancellation, web order or manual correction.
LockedSaleExact ==
  [][\A s \in Sessions :
       tx[s].kind = "checkout" /\ Sells(s) =>
         \A k \in Keys : /\ stock'[k] = stock[k] - tx[s].amount[k]
                         /\ order'[s].items[k] = tx[s].amount[k]]_vars

\* The stock card and the movement report agree: the quantity on the shelf is
\* the initial one plus all recorded movements.
LedgerBalances == \A k \in Keys : stock[k] = InitStock[k] + net[k]

\* The pieces of one key in the orders placed.
Ordered(k) == UNION {{s} \X (1..order[s].items[k]) : s \in Sessions}

\* Goods are on the shelf or in an order, and nowhere twice: for every key the
\* stock and the items of all placed orders add up to the initial quantity.
Conservation == \A k \in Keys : stock[k] + Cardinality(Ordered(k)) = InitStock[k]

\* Every handler run that has started ends, although runs wait for each
\* other's row locks and two of them may wait in a cycle.
HandlersFinish ==
  \A s \in Sessions : Running(s) ~> tx[s].pc = "done"

\* What POST /api/orders promises: an order for more than the available
\* quantity is refused.
NoOversell ==
  [][\A s \in Sessions :
       Sells(s) => \A k \in Keys : order'[s].items[k] <= stock[k]]_vars

\* What cancel_order promises: the goods of the order are back in stock.
CancelReturnsGoods ==
  [][\A s \in Sessions :
       Cancels(s) => \A k \in Keys : stock'[k] = stock[k] + tx[s].amount[k]]_vars

\* What the customer's cancel button promises: an order that is no longer active
\* (cancelled or completed meanwhile) cannot be cancelled, nor its goods returned.
CancelsActiveOnly ==
  [][\A s \in Sessions :
       tx[s].kind = "client_cancel" /\ FinishCancel(s) =>
         order[tx[s].target].status \in {"new", "processing"}]_vars

\* The checkouts of the dialogues are atomic sales: with their many steps, row
\* locks, refusals, crashes and deadlock victims they implement Inventory.
Shop == INSTANCE Inventory WITH shelf <- stock, placed <- order, Orders <- Sessions
ImplementsInventory == Shop!Spec

=============================================================================
