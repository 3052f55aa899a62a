--------------------------- MODULE CheckoutProofs ---------------------------
(***************************************************************************)
(* Proofs about Checkout for any products, sizes, handler runs, stock,     *)
(* starting cart and bonus.                                                *)
(***************************************************************************)
EXTENDS Checkout, FiniteSetTheorems, TLAPS

-----------------------------------------------------------------------------
(***************************************************************************)
(* The operators the actions are built from.                               *)
(***************************************************************************)

LEMMA NoRunType == NoRun \in RunRecord
BY FieldsAssumption DEF NoRun, RunRecord, Dialogues, RowValue

LEMMA ShortSeq ==
  ASSUME NEW S, NEW a \in S, NEW b \in S
  PROVE  <<>> \in Seq(S) /\ <<a>> \in Seq(S) /\ <<a, b>> \in Seq(S)
OBVIOUS

LEMMA WriteType ==
  /\ \A d \in Dialogues, st \in Stages : Goto(d, st) \in RedisWrite
  /\ \A p \in Products : Put("product", p) \in RedisWrite
  /\ \A s \in Sizes : Put("size", s) \in RedisWrite
  /\ [set |-> "named"] \in RedisWrite
  /\ [set |-> "wipe"] \in RedisWrite
BY DEF RedisWrite, Put, Goto, State

LEMMA LeaveType == \A d \in Dialogues : Leave(d) \in Seq(RedisWrite)
<1>1. /\ Goto("shop", "idle") \in RedisWrite /\ Goto("ai", "idle") \in RedisWrite
      /\ [set |-> "wipe"] \in RedisWrite
  BY WriteType DEF Dialogues, Stages
<1>. QED
  BY <1>1, ShortSeq DEF Leave

LEMMA FinishType ==
  ASSUME NEW L, L.in \in Dialogues, NEW w \in Seq(RedisWrite)
  PROVE  Finish(L, w) \in RunRecord
<1>1. [NoRun EXCEPT !.pc = "redis", !.in = L.in, !.todo = w] \in RunRecord
  BY NoRunType DEF RunRecord
<1>. QED
  BY <1>1, NoRunType DEF Finish

-----------------------------------------------------------------------------
(***************************************************************************)
(* Counting pieces.                                                        *)
(***************************************************************************)

Carts == [Rows -> RowValue]
Pile(lines, i) == {i} \X (1..lines[i].qty)
PileUnion(lines, I) == UNION {Pile(lines, i) : i \in I}
Weight(row, k) == IF row.key = k THEN row.qty ELSE 0

LEMMA RowType ==
  ASSUME NEW lines \in Carts, NEW i \in Rows
  PROVE  lines[i] \in RowValue /\ lines[i].qty \in Nat
BY DEF Carts, RowValue, NoRow

LEMMA PileCount ==
  ASSUME NEW lines \in Carts, NEW i \in Rows
  PROVE  IsFiniteSet(Pile(lines, i)) /\ Cardinality(Pile(lines, i)) = lines[i].qty
<1>1. PICK q \in Nat : q = lines[i].qty
  BY RowType
<1>2. IsFiniteSet(1..q) /\ Cardinality(1..q) = q
  BY FS_Interval
<1>3. IsFiniteSet({i}) /\ Cardinality({i}) = 1
  BY FS_Singleton
<1>4. IsFiniteSet({i} \X (1..q)) /\ Cardinality({i} \X (1..q)) = 1 * q
  BY <1>2, <1>3, FS_Product
<1>. QED
  BY <1>1, <1>4 DEF Pile

LEMMA PilesFinite ==
  ASSUME NEW lines \in Carts, NEW I \in SUBSET Rows
  PROVE  IsFiniteSet(PileUnion(lines, I))
<1>. DEFINE piles == {Pile(lines, i) : i \in I}
            f == [i \in I |-> Pile(lines, i)]
<1>1. IsFiniteSet(Rows)
  BY RowsAssumption, FS_Interval DEF Rows
<1>2. IsFiniteSet(I)
  BY <1>1, FS_Subset
<1>3. f \in Surjection(I, piles)
  BY DEF Surjection
<1>4. IsFiniteSet(piles)
  BY <1>2, <1>3, FS_Surjection
<1>5. \A T \in piles : IsFiniteSet(T)
  BY PileCount
<1>. HIDE DEF piles
<1>6. IsFiniteSet(UNION piles)
  BY <1>4, <1>5, FS_UNION
<1>. QED
  BY <1>6 DEF PileUnion, piles

\* The pieces of one row and those of the others.
LEMMA PiecesSplit ==
  ASSUME NEW lines \in Carts, NEW i \in Rows, NEW k
  PROVE  /\ Cardinality(PileUnion(lines, Holding(lines, k) \ {i})) \in Nat
         /\ Weight(lines[i], k) \in Nat
         /\ Pieces(lines, k) =
              Cardinality(PileUnion(lines, Holding(lines, k) \ {i})) + Weight(lines[i], k)
<1>. DEFINE others == PileUnion(lines, Holding(lines, k) \ {i})
            own == IF lines[i].key = k THEN Pile(lines, i) ELSE {}
<1>1. IsFiniteSet(others) /\ Cardinality(others) \in Nat
  BY PilesFinite, FS_CardinalityType DEF Holding
<1>2. IsFiniteSet(own) /\ Cardinality(own) = Weight(lines[i], k)
  BY PileCount, FS_EmptySet DEF Weight
<1>3. others \cap own = {}
  BY DEF PileUnion, Pile, Holding
<1>4. others \cup own = UNION {Pile(lines, j) : j \in Holding(lines, k)}
  BY DEF PileUnion, Pile, Holding
<1>5. Pieces(lines, k) = Cardinality(others \cup own)
  BY <1>4 DEF Pieces, Pile
<1>. HIDE DEF others, own
<1>6. Cardinality(others \cup own) =
        Cardinality(others) + Cardinality(own) - Cardinality(others \cap own)
  BY <1>1, <1>2, FS_Union
<1>8. Cardinality(others \cap own) = 0
  BY <1>3, FS_EmptySet
<1>7. Cardinality(own) \in Nat
  BY <1>2, FS_CardinalityType
<1>. QED
  BY <1>1, <1>2, <1>5, <1>6, <1>7, <1>8 DEF others

\* Carts that differ in one row only differ in its pieces only.
LEMMA PiecesChange ==
  ASSUME NEW lines \in Carts, NEW more \in Carts, NEW i \in Rows,
         \A j \in Rows \ {i} : more[j] = lines[j]
  PROVE  \A k : Pieces(more, k) = Pieces(lines, k) - Weight(lines[i], k) + Weight(more[i], k)
<1>. SUFFICES ASSUME NEW k
              PROVE  Pieces(more, k) = Pieces(lines, k) - Weight(lines[i], k) + Weight(more[i], k)
  OBVIOUS
<1>1. Holding(more, k) \ {i} = Holding(lines, k) \ {i}
  BY DEF Holding
<1>2. \A j \in Holding(lines, k) \ {i} : Pile(more, j) = Pile(lines, j)
  BY DEF Pile, Holding
<1>3. PileUnion(more, Holding(more, k) \ {i}) = PileUnion(lines, Holding(lines, k) \ {i})
  BY <1>1, <1>2 DEF PileUnion
<1>. QED
  BY <1>3, PiecesSplit

LEMMA PiecesOfRow ==
  ASSUME NEW lines \in Carts, NEW i \in Rows
  PROVE  lines[i].qty <= Pieces(lines, lines[i].key)
<1>1. PICK k : k = lines[i].key
  OBVIOUS
<1>2. Weight(lines[i], k) = lines[i].qty
  BY <1>1 DEF Weight
<1>3. PICK n \in Nat : Pieces(lines, k) = n + Weight(lines[i], k)
  BY PiecesSplit
<1>4. PICK q \in Nat : q = lines[i].qty
  BY RowType
<1>. QED
  BY <1>1, <1>2, <1>3, <1>4

LEMMA PiecesType ==
  ASSUME NEW lines \in Carts
  PROVE  \A k : Pieces(lines, k) \in Nat
<1>. SUFFICES ASSUME NEW k PROVE Pieces(lines, k) \in Nat
  OBVIOUS
<1>1. Pieces(lines, k) = Cardinality(PileUnion(lines, Holding(lines, k)))
  BY DEF Pieces, PileUnion, Pile
<1>. QED
  BY <1>1, PilesFinite, FS_CardinalityType DEF Holding

LEMMA NoPieces ==
  ASSUME NEW lines, NEW k, Holding(lines, k) = {}
  PROVE  Pieces(lines, k) = 0
<1>1. UNION {{i} \X (1..lines[i].qty) : i \in Holding(lines, k)} = {}
  OBVIOUS
<1>. QED
  BY <1>1, FS_EmptySet DEF Pieces

\* Carts with the same rows of a key have the same pieces of it.
LEMMA SamePieces ==
  ASSUME NEW lines \in Carts, NEW more \in Carts, NEW k,
         \A i \in Rows : lines[i].key = k \/ more[i].key = k => lines[i] = more[i]
  PROVE  Pieces(lines, k) = Pieces(more, k)
<1>1. Holding(lines, k) = Holding(more, k)
  BY DEF Holding
<1>2. \A i \in Holding(lines, k) : Pile(lines, i) = Pile(more, i)
  BY DEF Holding, Pile
<1>3. PileUnion(lines, Holding(lines, k)) = PileUnion(more, Holding(more, k))
  BY <1>1, <1>2 DEF PileUnion
<1>. QED
  BY <1>3 DEF Pieces, PileUnion, Pile

-----------------------------------------------------------------------------
(***************************************************************************)
(* The inductive invariant.                                                *)
(***************************************************************************)

\* No stock is above its peak, and a deleted product has none.
Peaks == \A k \in Keys : shelf[k] <= peak[k] /\ (k[1] \in gone => shelf[k] = 0)

\* Rows have ids that were given out, and no product that was deleted.
CartFits == \A i \in Live : i < nextRow /\ cart[i].key[1] \notin gone

\* What a handler has read stays within the ids given out and the peaks; the
\* rows it read have still the key they had, or are gone.
LinesFit(L) ==
  \A i \in Rows : L.lines[i] # NoRow =>
    i < nextRow /\ (cart[i] # NoRow => cart[i].key = L.lines[i].key)

\* The quantities the commit of a handler would write are in 1..peak.
CommitFits(L) ==
  /\ L.pc = "line" =>
       /\ L.key \in Keys /\ L.qty >= 1 /\ L.qty <= peak[L.key]
       /\ \A i \in Holding(L.lines, L.key) : L.lines[i].qty + L.qty <= peak[L.key]
  /\ L.pc = "step" =>
       /\ L.row \in Rows /\ L.lines[L.row] # NoRow
       /\ L.lines[L.row].qty + L.qty >= 1
       /\ L.lines[L.row].qty + L.qty <= peak[L.lines[L.row].key]
  /\ L.pc = "order" => L.quota <= Bonus * orders

\* What is known of a handler before it has read anything, and while it writes.
StageFits(L) ==
  /\ L.pc = "read" /\ L.kind = "size" => L.size \in Sizes
  /\ L.pc = "read" /\ L.kind = "quantity" => L.qty >= 1
  /\ L.pc = "read" /\ L.kind = "step" => L.row \in Rows
  /\ L.pc = "redis" => L.todo # <<>>

RunFits(L) == LinesFit(L) /\ CommitFits(L) /\ StageFits(L)

\* The cart a handler has read is the present one, but for deleted products.
Current(L) ==
  L.pc \in {"line", "step", "order"} =>
    \A i \in Rows :
      cart[i] = L.lines[i] \/ (cart[i] = NoRow /\ L.lines[i].key[1] \in gone)

OneRun == \A q, r \in Runs : run[q].pc # "idle" /\ run[r].pc # "idle" => q = r
Kept == \A k \in Keys : Pieces(cart, k) = wish[k]
Snapshots ==
  \A r \in Runs : Current(run[r]) /\ (run[r].pc = "order" => run[r].quota = quota)

\* A customer who waits for each answer has one handler at a time, and what it
\* has read is still true.
Alone == ~overlapped => OneRun /\ Kept /\ quota = Bonus * orders /\ Snapshots

Sold(p, s) == <<p, s>> \in Keys /\ peak[<<p, s>>] > 0

\* Writes that end at another question than that for the quantity.
Elsewhere(d, writes) ==
  \E stage \in Stages \ {"quantity"} :
    \/ writes = <<Goto(d, stage)>>
    \/ writes = <<Goto(d, stage), [set |-> "wipe"]>>
    \/ \E w \in RedisWrite : writes = <<w, Goto(d, stage)>>

\* The writes that are left lead to a size the product is sold in, or elsewhere.
WritesFit(L) ==
  LET d == L.in
  IN \/ L.todo = <<[set |-> "wipe"]>> /\ fsm.at # "quantity"
     \/ L.todo = <<Goto(d, "quantity")>> /\ Sold(data[d].product, data[d].size)
     \/ \E s \in Sizes : /\ L.todo = <<Put("size", s), Goto(d, "quantity")>>
                         /\ Sold(data[d].product, s)
     \/ Elsewhere(d, L.todo)

Writing == \A r \in Runs : run[r].pc = "redis" => WritesFit(run[r])
Waiting ==
  fsm.at = "quantity" /\ (\A r \in Runs : run[r].pc # "redis") =>
    Sold(data[fsm.in].product, data[fsm.in].size)

Asked == ~overlapped /\ crashes = 0 => Writing /\ Waiting

Histories == overlapped \in BOOLEAN /\ crashes \in Nat

Inv ==
  /\ TypeOK /\ Histories /\ Peaks /\ CartFits /\ RowWithinStock
  /\ \A r \in Runs : RunFits(run[r])
  /\ quota <= Bonus * orders
  /\ Alone /\ Asked

LEMMA InitInv == Init => Inv
<1>. SUFFICES ASSUME Init PROVE Inv
  OBVIOUS
<1>. USE DEF Init
<1>. DEFINE taken == {i \in Rows : InitCart[i] # NoRow}
<1>1. PICK n \in 0..MaxRows : taken = 1..n
  BY CartAssumption
<1>2. n \in Nat /\ Cardinality(1..n) = n
  BY <1>1, RowsAssumption, FS_Interval
<1>. HIDE DEF taken
<1>3. nextRow = n + 1 /\ nextRow \in 1..MaxRows + 1
  <2>1. nextRow = Cardinality(taken) + 1
    BY DEF taken
  <2>2. Cardinality(taken) = n
    BY <1>1, <1>2
  <2>. QED
    BY <1>1, <2>1, <2>2, RowsAssumption
<1>4. InitCart \in Carts
  BY CartAssumption DEF Carts
<1>5. TypeOK
  <2>1. \A k \in Keys : Pieces(InitCart, k) \in Int
    BY <1>4, PiecesType
  <2>2. run \in [Runs -> RunRecord]
    BY NoRunType
  <2>3. fsm \in State /\ data \in [Dialogues -> Fields]
    BY DEF State, Fields, NoFields, Dialogues, Stages
  <2>. QED
    BY <1>3, <1>4, <2>1, <2>2, <2>3, ShelfAssumption DEF TypeOK, Carts
<1>6. Histories /\ Peaks
  <2>1. \A k \in Keys : shelf[k] \in Nat /\ shelf[k] = peak[k]
    BY ShelfAssumption
  <2>2. Peaks
    BY <2>1 DEF Peaks
  <2>. QED
    BY <2>2 DEF Histories
<1>7. CartFits /\ RowWithinStock
  <2>1. \A i \in Live : InitCart[i] # NoRow /\ i < nextRow
    BY <1>1, <1>2, <1>3 DEF Live, taken
  <2>. QED
    BY <2>1, CartAssumption DEF CartFits, RowWithinStock, Live
<1>8. \A r \in Runs : RunFits(run[r])
  BY DEF RunFits, LinesFit, CommitFits, StageFits, NoRun
<1>9. quota <= Bonus * orders /\ quota = Bonus * orders
  BY BonusAssumption
<1>10. Alone
  BY <1>9 DEF Alone, OneRun, Kept, Snapshots, Current, NoRun
<1>11. Asked
  BY DEF Asked, Writing, Waiting, NoRun
<1>. QED
  BY <1>5, <1>6, <1>7, <1>8, <1>9, <1>10, <1>11 DEF Inv

-----------------------------------------------------------------------------
(***************************************************************************)
(* Steps that change no more than a handler run: an update that arrives, a *)
(* handler that reads, a commit that fails.                                *)
(***************************************************************************)

\* What the handler run becomes is right by itself, and the customer who waits
\* for each answer has no other.
Moves(r, L) ==
  /\ L \in RunRecord /\ RunFits(L)
  /\ ~overlapped' => ~overlapped /\ \A q \in Runs \ {r} : run[q].pc = "idle"
  /\ L.pc \in {"line", "step", "order"} => L.lines = cart
  /\ L.pc = "order" => L.quota = quota
  /\ L.pc = "redis" => WritesFit(L)
  /\ run[r].pc # "redis"

LEMMA MovesInv ==
  ASSUME Inv, NEW r \in Runs, NEW L, Moves(r, L), Become(r, L),
         UNCHANGED <<shop, db, redis, crashes>>, overlapped' \in BOOLEAN
  PROVE  Inv'
<1>. USE DEF Inv, Moves, Become, shop, db, redis
<1>1. run \in [Runs -> RunRecord] /\ run' = [run EXCEPT ![r] = L]
  BY DEF TypeOK
<1>2. run' \in [Runs -> RunRecord]
  BY <1>1
<1>3. run'[r] = L /\ \A q \in Runs \ {r} : run'[q] = run[q]
  BY <1>1
<1>4. TypeOK'
  BY <1>2 DEF TypeOK
<1>5. (Histories /\ Peaks /\ CartFits /\ RowWithinStock /\ quota <= Bonus * orders)'
  BY DEF Histories, Peaks, CartFits, RowWithinStock, Live
<1>6. (\A q \in Runs : RunFits(run[q]))'
  BY <1>3 DEF RunFits, LinesFit, CommitFits, StageFits
<1>7. Alone'
  <2>. SUFFICES ASSUME ~overlapped'
                PROVE  (OneRun /\ Kept /\ quota = Bonus * orders /\ Snapshots)'
    BY DEF Alone
  <2>1. \A q \in Runs \ {r} : run'[q].pc = "idle"
    BY <1>3
  <2>2. OneRun'
    BY <2>1 DEF OneRun
  <2>3. (Kept /\ quota = Bonus * orders)'
    BY DEF Alone, Kept
  <2>4. Snapshots'
    BY <1>3, <2>1 DEF Snapshots, Current
  <2>. QED
    BY <2>2, <2>3, <2>4
<1>8. Asked'
  <2>. SUFFICES ASSUME ~overlapped', crashes' = 0
                PROVE  (Writing /\ Waiting)'
    BY DEF Asked
  <2>1. \A q \in Runs \ {r} : run'[q].pc = "idle" /\ run[q].pc = "idle"
    BY <1>3
  <2>2. Writing'
    <3>1. \A q \in Runs : run'[q].pc = "redis" => run'[q] = L
      BY <1>3, <2>1
    <3>2. L.pc = "redis" => WritesFit(L)
      OBVIOUS
    <3>. QED
      BY <3>1, <3>2 DEF Writing, WritesFit, Sold
  <2>3. Waiting'
    BY <2>1 DEF Asked, Waiting, Sold
  <2>. QED
    BY <2>2, <2>3
<1>. QED
  BY <1>4, <1>5, <1>6, <1>7, <1>8

\* A handler that goes on to writes which end elsewhere, or is over.
LEMMA FinishFits ==
  ASSUME Inv, NEW L, L.in \in Dialogues, NEW w \in Seq(RedisWrite),
         w = <<>> \/ Elsewhere(L.in, w)
  PROVE  /\ Finish(L, w) \in RunRecord /\ RunFits(Finish(L, w))
         /\ Finish(L, w).pc \in {"idle", "redis"}
         /\ Finish(L, w).pc = "redis" => WritesFit(Finish(L, w))
<1>1. Finish(L, w) \in RunRecord
  BY FinishType
<1>2. RunFits(Finish(L, w)) /\ Finish(L, w).pc \in {"idle", "redis"}
  BY DEF RunFits, LinesFit, CommitFits, StageFits, Finish, NoRun
<1>3. Finish(L, w).pc = "redis" => Finish(L, w).todo = w /\ Finish(L, w).in = L.in /\ w # <<>>
  BY DEF Finish, NoRun
<1>. QED
  BY <1>1, <1>2, <1>3 DEF WritesFit

LEMMA LeaveElsewhere == \A d \in Dialogues : Elsewhere(d, Leave(d))
BY DEF Dialogues, Leave, Elsewhere, Stages

LEMMA StartInv ==
  ASSUME Inv, NEW r \in Runs, NEW L \in RunRecord, RunFits(L),
         L.pc \in {"idle", "read", "redis"}, L.pc = "redis" => WritesFit(L), Start(r, L)
  PROVE  Inv'
<1>1. overlapped' \in BOOLEAN
  BY DEF Start, Inv, Histories
<1>2. Moves(r, L)
  BY DEF Start, Moves
<1>. QED
  BY <1>1, <1>2, MovesInv DEF Start

\* A button or a text whose handler only writes to Redis.
LEMMA PressInv ==
  ASSUME Inv, NEW r \in Runs, NEW d \in Dialogues, NEW w \in Seq(RedisWrite),
         Elsewhere(d, w), Press(r, d, w)
  PROVE  Inv'
<1>. DEFINE L == [NoRun EXCEPT !.in = d]
<1>1. L.in = d
  BY DEF NoRun
<1>. HIDE DEF L
<1>2. Start(r, Finish(L, w))
  BY DEF Press, L
<1>. QED
  BY <1>1, <1>2, FinishFits, StartInv

\* A text or button whose handler reads before it decides.
LEMMA ReadInv ==
  ASSUME Inv, NEW r \in Runs, NEW L \in RunRecord, L.pc = "read",
         L.lines = NoRun.lines, StageFits(L), Start(r, L)
  PROVE  Inv'
<1>1. RunFits(L)
  BY DEF RunFits, LinesFit, CommitFits, NoRun
<1>. QED
  BY <1>1, StartInv

LEMMA CustomerInv ==
  ASSUME Inv, NEW r \in Runs, Customer(r), ~PressDelete(r)
  PROVE  Inv'
<1>. USE DEF Inv
<1>t. fsm \in State /\ fsm.in \in Dialogues
  BY DEF TypeOK, State
<1>d. "shop" \in Dialogues /\ "ai" \in Dialogues
  BY DEF Dialogues
<1>s. \A d \in Dialogues, st \in Stages \ {"quantity"}, w \in RedisWrite :
        /\ <<Goto(d, st)>> \in Seq(RedisWrite) /\ Elsewhere(d, <<Goto(d, st)>>)
        /\ <<w, Goto(d, st)>> \in Seq(RedisWrite) /\ Elsewhere(d, <<w, Goto(d, st)>>)
  BY WriteType, ShortSeq DEF Elsewhere
<1>1. CASE PressAdd(r)
  BY <1>1, <1>d, <1>s, WriteType, PressInv DEF PressAdd, Stages
<1>2. CASE AiPressAdd(r)
  BY <1>2, <1>d, <1>s, WriteType, PressInv DEF AiPressAdd, Stages
<1>3. CASE TypeSize(r)
  <2>1. PICK s \in Sizes :
          Text(r, "size", [NoRun EXCEPT !.pc = "read", !.kind = "size", !.size = s])
    BY <1>3 DEF TypeSize
  <2>. DEFINE L == [NoRun EXCEPT !.pc = "read", !.kind = "size", !.size = s, !.in = fsm.in]
  <2>2. L \in RunRecord /\ StageFits(L) /\ L.pc = "read" /\ L.lines = NoRun.lines
    BY <1>t, NoRunType DEF RunRecord, StageFits, NoRun
  <2>3. Start(r, L)
    BY <2>1 DEF Text, NoRun
  <2>. QED
    BY <2>2, <2>3, ReadInv
<1>4. CASE TypeQuantity(r)
  <2>1. PICK q \in 1..MaxQty :
          Text(r, "quantity", [NoRun EXCEPT !.pc = "read", !.kind = "quantity", !.qty = q])
    BY <1>4 DEF TypeQuantity
  <2>. DEFINE L == [NoRun EXCEPT !.pc = "read", !.kind = "quantity", !.qty = q, !.in = fsm.in]
  <2>4. q \in Int /\ q >= 1
    OBVIOUS
  <2>2. L \in RunRecord /\ StageFits(L) /\ L.pc = "read" /\ L.lines = NoRun.lines
    BY <1>t, <2>4, NoRunType DEF RunRecord, StageFits, NoRun
  <2>3. Start(r, L)
    BY <2>1 DEF Text, NoRun
  <2>. QED
    BY <2>2, <2>3, ReadInv
<1>5. CASE TypeBack(r)
  BY <1>5, <1>d, LeaveType, LeaveElsewhere, PressInv DEF TypeBack
<1>6. CASE AiTypeExit(r)
  BY <1>6, <1>d, LeaveType, LeaveElsewhere, PressInv DEF AiTypeExit
<1>7. CASE PressCheckout(r)
  BY <1>7, <1>d, <1>s, WriteType, PressInv DEF PressCheckout, Stages
<1>8. CASE AiPressCheckout(r)
  BY <1>8, <1>d, <1>s, WriteType, PressInv DEF AiPressCheckout, Stages
<1>9. CASE TypeName(r)
  BY <1>9, <1>t, <1>s, WriteType, PressInv DEF TypeName, Stages
<1>10. CASE TypePhone(r)
  <2>. DEFINE L == [NoRun EXCEPT !.pc = "read", !.kind = "phone", !.in = fsm.in]
  <2>2. L \in RunRecord /\ StageFits(L) /\ L.pc = "read" /\ L.lines = NoRun.lines
    BY <1>t, NoRunType DEF RunRecord, StageFits, NoRun
  <2>3. Start(r, L)
    BY <1>10 DEF TypePhone, Text, NoRun
  <2>. QED
    BY <2>2, <2>3, ReadInv
<1>11. CASE PressStep(r)
  <2>1. PICK i \in 1..nextRow - 1, q \in {-1, 1} :
          Start(r, [NoRun EXCEPT !.pc = "read", !.kind = "step", !.row = i, !.qty = q])
    BY <1>11 DEF PressStep
  <2>. DEFINE L == [NoRun EXCEPT !.pc = "read", !.kind = "step", !.row = i, !.qty = q]
  <2>2. i \in Rows /\ q \in Int
    BY RowsAssumption DEF TypeOK, Rows
  <2>3. L \in RunRecord /\ StageFits(L) /\ L.pc = "read" /\ L.lines = NoRun.lines
    BY <2>2, NoRunType DEF RunRecord, StageFits, NoRun
  <2>. QED
    BY <2>1, <2>3, ReadInv
<1>. QED
  BY <1>1, <1>2, <1>3, <1>4, <1>5, <1>6, <1>7, <1>8, <1>9, <1>10, <1>11 DEF Customer

-----------------------------------------------------------------------------
(***************************************************************************)
(* What the handlers read.                                                 *)
(***************************************************************************)

\* A handler that changes nothing but its own run.
Quiet(r) == run[r].pc \notin {"idle", "redis"} /\ UNCHANGED <<shop, db, redis, bounds>>

LEMMA OutcomeInv ==
  ASSUME Inv, NEW r \in Runs, Quiet(r), NEW L \in RunRecord, RunFits(L),
         L.pc \in {"line", "step", "order"} => L.lines = cart,
         L.pc = "order" => L.quota = quota,
         L.pc = "redis" => WritesFit(L), Become(r, L)
  PROVE  Inv'
<1>1. overlapped' \in BOOLEAN
  BY DEF Quiet, bounds, Inv, Histories
<1>2. ~overlapped' => ~overlapped /\ \A q \in Runs \ {r} : run[q].pc = "idle"
  BY DEF Quiet, bounds, Inv, Alone, OneRun
<1>3. Moves(r, L)
  BY <1>2 DEF Quiet, Moves
<1>. QED
  BY <1>1, <1>3, MovesInv DEF Quiet, bounds

\* A handler that finds nothing to commit, or fails to.
LEMMA EndInv ==
  ASSUME Inv, NEW r \in Runs, Quiet(r), NEW w \in Seq(RedisWrite),
         w = <<>> \/ Elsewhere(run[r].in, w), Become(r, Finish(run[r], w))
  PROVE  Inv'
<1>1. run[r].in \in Dialogues
  BY DEF Inv, TypeOK, RunRecord
<1>. QED
  BY <1>1, FinishFits, OutcomeInv

LEMMA OverInv ==
  ASSUME Inv, NEW r \in Runs, Quiet(r), Become(r, NoRun)
  PROVE  Inv'
<1>1. <<>> \in Seq(RedisWrite) /\ Finish(run[r], <<>>) = NoRun
  BY DEF Finish
<1>. QED
  BY <1>1, EndInv

LEMMA ReadsQuiet == \A r \in Runs : \A kind : Reads(r, kind) => Quiet(r)
BY DEF Reads, Quiet

\* The size that is put into the FSM data is one the product there is sold in.
LEMMA SizedInv ==
  ASSUME Inv, NEW r \in Runs, NEW d \in Dialogues, Reads(r, "size"), run[r].in = d,
         Become(r, Sized(run[r], d))
  PROVE  Inv'
<1>. DEFINE p == data[d].product
            s == run[r].size
            w == <<Put("size", s), Goto(d, "quantity")>>
            L == Finish(run[r], w)
<1>1. CASE p \in gone \cup {NoProduct}
  BY <1>1, LeaveType, LeaveElsewhere, EndInv, ReadsQuiet DEF Sized
<1>2. CASE p \notin gone \cup {NoProduct} /\ shelf[<<p, s>>] = 0
  BY <1>2, OverInv, ReadsQuiet DEF Sized
<1>3. CASE p \notin gone \cup {NoProduct} /\ shelf[<<p, s>>] # 0
  <2>1. p \in Products
    BY <1>3 DEF Inv, TypeOK, Fields
  <2>2. s \in Sizes
    BY DEF Inv, RunFits, StageFits, Reads
  <2>3. <<p, s>> \in Keys
    BY <2>1, <2>2 DEF Keys
  <2>4. shelf[<<p, s>>] \in Nat /\ peak[<<p, s>>] \in Nat /\ shelf[<<p, s>>] <= peak[<<p, s>>]
    BY <2>3 DEF Inv, TypeOK, Peaks
  <2>5. Sold(p, s)
    BY <1>3, <2>3, <2>4 DEF Sold
  <2>6. w \in Seq(RedisWrite) /\ w # <<>>
    BY <2>2, WriteType, ShortSeq DEF Stages
  <2>7. L \in RunRecord
    BY <2>6, FinishType
  <2>8. L.pc = "redis" /\ L.in = d /\ L.todo = w /\ L.lines = NoRun.lines
    BY <2>6 DEF Finish, NoRun
  <2>9. RunFits(L)
    BY <2>6, <2>8 DEF RunFits, LinesFit, CommitFits, StageFits, NoRun
  <2>10. WritesFit(L)
    BY <2>2, <2>5, <2>8 DEF WritesFit
  <2>11. Become(r, L)
    BY <1>3 DEF Sized
  <2>. HIDE DEF L
  <2>. QED
    BY <2>7, <2>8, <2>9, <2>10, <2>11, OutcomeInv, ReadsQuiet
<1>. QED
  BY <1>1, <1>2, <1>3

\* The cart as it is read: its rows have ids that were given out.
LEMMA CartRead ==
  ASSUME Inv
  PROVE  /\ cart \in [Rows -> RowValue] /\ cart \in Carts
         /\ \A i \in Rows : cart[i] # NoRow => i < nextRow
BY DEF Inv, TypeOK, CartFits, Live, Carts

\* The new quantity of a row that is read, and so of the one that is written,
\* is within the stock.
LEMMA CountedInv ==
  ASSUME Inv, NEW r \in Runs, NEW d \in Dialogues, Reads(r, "quantity"), run[r].in = d,
         Become(r, Counted(run[r], d))
  PROVE  Inv'
<1>. DEFINE k == <<data[d].product, data[d].size>>
            L == [run[r] EXCEPT !.pc = "line", !.key = k, !.lines = cart]
<1>1. CASE k \notin Keys \/ data[d].product \in gone \/ shelf[k] = 0
  BY <1>1, LeaveType, LeaveElsewhere, EndInv, ReadsQuiet DEF Counted
<1>2. CASE /\ ~(k \notin Keys \/ data[d].product \in gone \/ shelf[k] = 0)
           /\ Cardinality(Holding(cart, k)) > 1 \/ Pieces(cart, k) + run[r].qty > shelf[k]
  BY <1>2, OverInv, ReadsQuiet DEF Counted
<1>3. CASE /\ ~(k \notin Keys \/ data[d].product \in gone \/ shelf[k] = 0)
           /\ ~(Cardinality(Holding(cart, k)) > 1 \/ Pieces(cart, k) + run[r].qty > shelf[k])
  <2>1. k \in Keys
    BY <1>3
  <2>. HIDE DEF k
  <2>2. run[r] \in RunRecord
    BY DEF Inv, TypeOK
  <2>3. run[r].qty \in Int /\ run[r].qty >= 1
    BY <2>2 DEF Inv, RunFits, StageFits, Reads, RunRecord
  <2>4. L \in RunRecord
    BY <2>1, <2>2, CartRead DEF RunRecord
  <2>5. L.pc = "line" /\ L.key = k /\ L.lines = cart /\ L.qty = run[r].qty
    BY <2>2 DEF RunRecord
  <2>6. shelf[k] \in Nat /\ peak[k] \in Nat /\ shelf[k] <= peak[k]
    BY <2>1 DEF Inv, TypeOK, Peaks
  <2>7. Pieces(cart, k) \in Nat /\ Pieces(cart, k) + run[r].qty <= shelf[k]
    BY <1>3, <2>3, <2>6, CartRead, PiecesType
  <2>8. \A i \in Holding(cart, k) : cart[i].qty \in Nat /\ cart[i].qty <= Pieces(cart, k)
    BY CartRead, PiecesOfRow, RowType DEF Holding
  <2>9. CommitFits(L)
    BY <2>1, <2>3, <2>5, <2>6, <2>7, <2>8 DEF CommitFits
  <2>10. RunFits(L)
    BY <2>5, <2>9, CartRead DEF RunFits, LinesFit, StageFits
  <2>11. Become(r, L)
    BY <1>3 DEF Counted, k
  <2>. HIDE DEF L
  <2>. QED
    BY <2>4, <2>5, <2>10, <2>11, OutcomeInv, ReadsQuiet
<1>. QED
  BY <1>1, <1>2, <1>3

LEMMA ListedInv ==
  ASSUME Inv, NEW r \in Runs, NEW d \in Dialogues, Reads(r, "phone"), run[r].in = d,
         Become(r, Listed(run[r], d))
  PROVE  Inv'
<1>. DEFINE L == [run[r] EXCEPT !.pc = "order", !.lines = cart, !.quota = quota,
                                !.named = data[d].named]
<1>1. CASE Live = {}
  BY <1>1, LeaveType, LeaveElsewhere, EndInv, ReadsQuiet DEF Listed
<1>2. CASE Live # {}
  <2>1. run[r] \in RunRecord /\ quota \in Nat /\ data[d].named \in BOOLEAN
    BY DEF Inv, TypeOK, Fields
  <2>2. L \in RunRecord
    BY <2>1, CartRead DEF RunRecord
  <2>3. L.pc = "order" /\ L.lines = cart /\ L.quota = quota
    BY <2>1 DEF RunRecord
  <2>4. RunFits(L)
    BY <2>3, CartRead DEF Inv, RunFits, LinesFit, CommitFits, StageFits
  <2>5. Become(r, L)
    BY <1>2 DEF Listed
  <2>. HIDE DEF L
  <2>. QED
    BY <2>2, <2>3, <2>4, <2>5, OutcomeInv, ReadsQuiet
<1>. QED
  BY <1>1, <1>2

LEMMA ReadStepInv ==
  ASSUME Inv, NEW r \in Runs, ReadStep(r)
  PROVE  Inv'
<1>. DEFINE i == run[r].row
            q == cart[i].qty + run[r].qty
            L == [run[r] EXCEPT !.pc = "step", !.lines = cart]
<1>0. Reads(r, "step")
  BY DEF ReadStep
<1>1. CASE cart[i] = NoRow \/ q < 1 \/ q > shelf[cart[i].key]
  BY <1>0, <1>1, OverInv, ReadsQuiet DEF ReadStep
<1>2. CASE ~(cart[i] = NoRow \/ q < 1 \/ q > shelf[cart[i].key])
  <2>1. i \in Rows
    BY <1>0 DEF Inv, RunFits, StageFits, Reads
  <2>2. run[r] \in RunRecord
    BY DEF Inv, TypeOK
  <2>3. cart[i].key \in Keys /\ cart[i].qty \in Nat
    BY <1>2, <2>1, CartRead DEF RowValue
  <2>4. shelf[cart[i].key] \in Nat /\ peak[cart[i].key] \in Nat
        /\ shelf[cart[i].key] <= peak[cart[i].key]
    BY <2>3 DEF Inv, TypeOK, Peaks
  <2>5. q \in Int /\ q >= 1 /\ q <= peak[cart[i].key]
    BY <1>2, <2>2, <2>3, <2>4 DEF RunRecord
  <2>6. L \in RunRecord
    BY <2>2, CartRead DEF RunRecord
  <2>7. L.pc = "step" /\ L.lines = cart /\ L.row = i /\ L.qty = run[r].qty /\ L.quota = run[r].quota
    BY <2>2 DEF RunRecord
  <2>8. CommitFits(L)
    BY <1>2, <2>1, <2>5, <2>7 DEF CommitFits
  <2>9. RunFits(L)
    BY <2>7, <2>8, CartRead DEF RunFits, LinesFit, StageFits
  <2>10. Become(r, L)
    BY <1>2 DEF ReadStep
  <2>. HIDE DEF L
  <2>. QED
    BY <1>0, <2>6, <2>7, <2>9, <2>10, OutcomeInv, ReadsQuiet
<1>. QED
  BY <1>1, <1>2

LEMMA ReadingInv ==
  ASSUME Inv, NEW r \in Runs,
         \/ ReadSize(r) \/ AiReadSize(r) \/ ReadQuantity(r) \/ AiReadQuantity(r)
         \/ ReadPhone(r) \/ AiReadPhone(r) \/ ReadStep(r)
  PROVE  Inv'
<1>d. "shop" \in Dialogues /\ "ai" \in Dialogues
  BY DEF Dialogues
<1>1. CASE ReadSize(r) \/ AiReadSize(r)
  BY <1>1, <1>d, SizedInv DEF ReadSize, AiReadSize
<1>2. CASE ReadQuantity(r) \/ AiReadQuantity(r)
  BY <1>2, <1>d, CountedInv DEF ReadQuantity, AiReadQuantity
<1>3. CASE ReadPhone(r)
  BY <1>3, <1>d, ListedInv DEF ReadPhone
<1>4. CASE AiReadPhone(r) /\ data["ai"].named
  BY <1>4, <1>d, ListedInv DEF AiReadPhone
<1>5. CASE AiReadPhone(r) /\ ~data["ai"].named
  <2>1. <<Goto("ai", "name")>> \in Seq(RedisWrite)
    BY <1>d, WriteType, ShortSeq DEF Stages
  <2>2. Elsewhere("ai", <<Goto("ai", "name")>>)
    BY DEF Elsewhere, Stages
  <2>. QED
    BY <1>5, <2>1, <2>2, EndInv, ReadsQuiet DEF AiReadPhone
<1>6. CASE ReadStep(r)
  BY <1>6, ReadStepInv
<1>. QED
  BY <1>1, <1>2, <1>3, <1>4, <1>5, <1>6

-----------------------------------------------------------------------------
(***************************************************************************)
(* What the handlers commit.                                               *)
(***************************************************************************)

LEMMA KeysProper == NoRow.key \notin Keys
BY FieldsAssumption DEF NoRow, Keys

\* A handler that ends, with what it still writes to Redis.
LEMMA EndedRun ==
  ASSUME Inv, NEW r \in Runs, NEW w \in Seq(RedisWrite),
         w = <<>> \/ Elsewhere(run[r].in, w), Become(r, Finish(run[r], w))
  PROVE  /\ run' \in [Runs -> RunRecord]
         /\ \A q \in Runs \ {r} : run'[q] = run[q]
         /\ run'[r].pc \in {"idle", "redis"}
         /\ run'[r].lines = NoRun.lines
         /\ run'[r].pc = "redis" => run'[r].todo # <<>> /\ WritesFit(run'[r])
<1>. DEFINE L == Finish(run[r], w)
<1>1. run \in [Runs -> RunRecord] /\ run[r].in \in Dialogues
  BY DEF Inv, TypeOK, RunRecord
<1>2. L \in RunRecord /\ RunFits(L) /\ L.pc \in {"idle", "redis"} /\ (L.pc = "redis" => WritesFit(L))
  BY <1>1, FinishFits
<1>3. L.lines = NoRun.lines
  BY DEF Finish, NoRun
<1>. HIDE DEF L
<1>4. run' = [run EXCEPT ![r] = L]
  BY DEF Become, L
<1>5. run'[r] = L
  BY <1>1, <1>4
<1>6. L.pc = "redis" => L.todo # <<>>
  BY <1>2 DEF RunFits, StageFits
<1>. QED
  BY <1>1, <1>2, <1>3, <1>4, <1>5, <1>6

\* One row gets a new value, within the peak and under a key all handlers that
\* have read the row agree on.
LEMMA RowWritten ==
  ASSUME Inv, NEW r \in Runs, NEW w \in Seq(RedisWrite),
         w = <<>> \/ Elsewhere(run[r].in, w), Become(r, Finish(run[r], w)),
         run[r].pc \in {"line", "step"},
         NEW i \in Rows, NEW row \in RowValue, row # NoRow,
         cart' = [cart EXCEPT ![i] = row],
         row.qty >= 1, row.qty <= peak[row.key], row.key[1] \notin gone,
         \A q \in Runs : run[q].lines[i] # NoRow => row.key = run[q].lines[i].key,
         nextRow' \in 1..MaxRows + 1, nextRow <= nextRow', i < nextRow',
         wish' \in [Keys -> Int],
         ~overlapped => \A k \in Keys : wish'[k] = wish[k] - Weight(cart[i], k) + Weight(row, k),
         UNCHANGED <<shop, redis, quota, orders, bounds>>
  PROVE  Inv'
<1>. USE DEF Inv, shop, redis, bounds
<1>1. /\ run' \in [Runs -> RunRecord]
      /\ \A q \in Runs \ {r} : run'[q] = run[q]
      /\ run'[r].pc \in {"idle", "redis"}
      /\ run'[r].lines = NoRun.lines
      /\ run'[r].pc = "redis" => run'[r].todo # <<>> /\ WritesFit(run'[r])
  BY EndedRun
<1>2. cart \in Carts /\ cart' \in Carts /\ cart'[i] = row
      /\ \A j \in Rows \ {i} : cart'[j] = cart[j]
  BY CartRead DEF Carts
<1>n. nextRow \in Int /\ nextRow' \in Int
  BY RowsAssumption DEF TypeOK
<1>3. TypeOK'
  BY <1>1, <1>2 DEF TypeOK, Carts
<1>4. (Histories /\ Peaks /\ quota <= Bonus * orders)'
  BY DEF Histories, Peaks
<1>5. (CartFits /\ RowWithinStock)'
  BY <1>2, <1>n, RowsAssumption DEF CartFits, RowWithinStock, Live, Rows
<1>6. (\A q \in Runs : RunFits(run[q]))'
  <2>. SUFFICES ASSUME NEW q \in Runs PROVE RunFits(run[q])'
    OBVIOUS
  <2>1. CASE q = r
    BY <1>1, <2>1 DEF RunFits, LinesFit, CommitFits, StageFits, NoRun
  <2>2. CASE q # r
    <3>1. run'[q] = run[q] /\ RunFits(run[q])
      BY <1>1, <2>2
    <3>2. LinesFit(run[q])'
      BY <1>2, <1>n, <3>1, RowsAssumption DEF RunFits, LinesFit, Rows
    <3>3. (CommitFits(run[q]) /\ StageFits(run[q]))'
      BY <3>1 DEF RunFits, CommitFits, StageFits
    <3>. QED
      BY <3>2, <3>3 DEF RunFits
  <2>. QED
    BY <2>1, <2>2
<1>7. Alone'
  <2>. SUFFICES ASSUME ~overlapped
                PROVE  (OneRun /\ Kept /\ quota = Bonus * orders /\ Snapshots)'
    BY DEF Alone
  <2>1. \A q \in Runs \ {r} : run'[q].pc = "idle"
    BY <1>1 DEF Alone, OneRun
  <2>2. OneRun' /\ Snapshots'
    BY <1>1, <2>1 DEF OneRun, Snapshots, Current
  <2>3. Kept'
    <3>. SUFFICES ASSUME NEW k \in Keys PROVE Pieces(cart', k) = wish'[k]
      BY DEF Kept
    <3>1. \A key : Pieces(cart', key) =
                    Pieces(cart, key) - Weight(cart[i], key) + Weight(cart'[i], key)
      <4>1. cart \in Carts /\ cart' \in Carts /\ \A j \in Rows \ {i} : cart'[j] = cart[j]
        BY <1>2
      <4>. HIDE DEF Inv
      <4>. QED
        BY <4>1, PiecesChange
    <3>2. Pieces(cart, k) = wish[k]
      BY DEF Alone, Kept
    <3>3. wish'[k] = wish[k] - Weight(cart[i], k) + Weight(cart'[i], k)
      BY <1>2
    <3>. HIDE DEF Inv
    <3>. QED
      BY <3>1, <3>2, <3>3
  <2>. QED
    BY <2>2, <2>3 DEF Alone
<1>8. Asked'
  <2>. SUFFICES ASSUME ~overlapped, crashes = 0 PROVE (Writing /\ Waiting)'
    BY DEF Asked
  <2>1. \A q \in Runs \ {r} : run'[q].pc = "idle" /\ run[q].pc = "idle"
    BY <1>1 DEF Alone, OneRun
  <2>2. Writing'
    <3>1. \A q \in Runs : run'[q].pc = "redis" => q = r
      BY <2>1
    <3>. QED
      BY <1>1, <3>1 DEF Writing, WritesFit, Sold
  <2>3. Waiting'
    BY <2>1 DEF Asked, Waiting, Sold
  <2>. QED
    BY <2>2, <2>3
<1>. QED
  BY <1>3, <1>4, <1>5, <1>6, <1>7, <1>8

LEMMA CommitLineInv ==
  ASSUME Inv, NEW r \in Runs, CommitLine(r)
  PROVE  Inv'
<1>. DEFINE k == run[r].key
            lines == run[r].lines
            qty == run[r].qty
            old == Holding(lines, k)
            w == Leave(run[r].in)
<1>1. /\ run[r] \in RunRecord /\ run[r].in \in Dialogues /\ qty \in Int
      /\ lines \in [Rows -> RowValue] /\ lines \in Carts
  BY DEF Inv, TypeOK, RunRecord, Carts
<1>2. run[r].pc = "line"
  BY DEF CommitLine
<1>3. k \in Keys /\ qty >= 1 /\ qty <= peak[k] /\ peak[k] \in Nat
  BY <1>2 DEF Inv, RunFits, CommitFits, TypeOK
<1>4. w \in Seq(RedisWrite) /\ Elsewhere(run[r].in, w)
  BY <1>1, LeaveType, LeaveElsewhere
<1>w. wish \in [Keys -> Int] /\ nextRow \in 1..MaxRows + 1
  BY DEF Inv, TypeOK
<1>5. CASE k[1] \in gone \/ \E i \in old : cart[i] = NoRow
  BY <1>2, <1>5, OverInv DEF CommitLine, Quiet
<1>6. CASE ~(k[1] \in gone \/ \E i \in old : cart[i] = NoRow)
  <2>1. /\ Wish(k, qty) /\ Become(r, Finish(run[r], w))
        /\ UNCHANGED <<shop, redis, quota, orders, bounds>>
    BY <1>6 DEF CommitLine
  <2>2. /\ wish' \in [Keys -> Int]
        /\ \A key \in Keys : wish'[key] = IF key = k THEN wish[key] + qty ELSE wish[key]
    BY <1>1, <1>3, <1>w, <2>1 DEF Wish
  <2>3. CASE old # {}
    <3>1. PICK i \in old : cart' = [cart EXCEPT ![i].qty = lines[i].qty + qty]
      BY <1>6, <2>3 DEF CommitLine
    <3>. DEFINE row == [key |-> k, qty |-> lines[i].qty + qty]
    <3>2. i \in Rows /\ lines[i].key = k /\ lines[i] # NoRow /\ cart[i] # NoRow
      BY <1>3, <1>6, KeysProper DEF Holding
    <3>3. cart[i].key = k /\ i < nextRow
      BY <1>1, <3>2 DEF Inv, RunFits, LinesFit
    <3>4. cart \in Carts /\ cart[i] \in RowValue /\ cart[i] = [key |-> k, qty |-> cart[i].qty]
      BY <3>2, <3>3, CartRead DEF RowValue
    <3>5. cart' = [cart EXCEPT ![i] = row]
      <4>1. [cart[i] EXCEPT !.qty = lines[i].qty + qty] = row
        BY <3>4
      <4>. HIDE DEF row
      <4>. QED
        BY <3>1, <4>1
    <3>6. lines[i].qty \in Nat
      BY <1>1, <3>2, RowType
    <3>7. lines[i].qty + qty \in Nat /\ lines[i].qty + qty >= 1 /\ lines[i].qty + qty <= peak[k]
      BY <1>1, <1>2, <1>3, <3>1, <3>6 DEF Inv, RunFits, CommitFits
    <3>8. row \in RowValue /\ row # NoRow /\ row.key = k /\ row.qty = lines[i].qty + qty
      BY <1>3, <3>7, KeysProper DEF RowValue
    <3>9. \A q \in Runs : run[q].lines[i] # NoRow => k = run[q].lines[i].key
      BY <3>2, <3>3 DEF Inv, RunFits, LinesFit
    <3>10. nextRow' = nextRow
      BY <1>6, <2>3 DEF CommitLine
    <3>11. ASSUME ~overlapped, NEW key \in Keys
           PROVE  wish'[key] = wish[key] - Weight(cart[i], key) + Weight(row, key)
      <4>1. Current(run[r])
        BY <3>11 DEF Inv, Alone, Snapshots
      <4>2. cart[i] = lines[i]
        BY <1>2, <3>2, <4>1 DEF Current
      <4>3. PICK n \in Nat : n = lines[i].qty
        BY <3>6
      <4>4. PICK m \in Int : m = qty
        BY <1>1
      <4>5. wish[key] \in Int
        BY <1>w
      <4>6. Weight(cart[i], key) = IF key = k THEN n ELSE 0
        BY <3>2, <4>2, <4>3 DEF Weight
      <4>7. Weight(row, key) = IF key = k THEN n + m ELSE 0
        BY <3>8, <4>3, <4>4 DEF Weight
      <4>. QED
        BY <2>2, <4>4, <4>5, <4>6, <4>7
    <3>. HIDE DEF row, k, lines, qty, w
    <3>12. nextRow <= nextRow' /\ i < nextRow' /\ nextRow' \in 1..MaxRows + 1
      BY <1>w, <3>3, <3>10, RowsAssumption
    <3>. QED
      BY <1>2, <1>4, <1>6, <2>1, <2>2, <3>2, <3>5, <3>7, <3>8, <3>9, <3>11, <3>12, RowWritten
  <2>4. CASE old = {}
    <3>. DEFINE i == nextRow
                row == [key |-> k, qty |-> qty]
    <3>1. /\ i \in Rows /\ cart' = [cart EXCEPT ![i] = row] /\ nextRow' = i + 1
      BY <1>6, <2>4 DEF CommitLine
    <3>2. row \in RowValue /\ row # NoRow /\ row.key = k /\ row.qty = qty
      BY <1>1, <1>3, KeysProper DEF RowValue
    <3>3. nextRow' \in 1..MaxRows + 1 /\ nextRow <= nextRow' /\ i < nextRow'
      BY <3>1, RowsAssumption DEF Rows
    <3>4. i \in Int /\ ~(i < nextRow)
      BY <1>w
    <3>5. \A q \in Runs : run[q].lines[i] # NoRow => k = run[q].lines[i].key
      BY <3>1, <3>4 DEF Inv, RunFits, LinesFit
    <3>6. cart[i] = NoRow
      BY <3>1, <3>4, CartRead
    <3>7. \A key \in Keys : wish'[key] = wish[key] - Weight(cart[i], key) + Weight(row, key)
      <4>. SUFFICES ASSUME NEW key \in Keys
                    PROVE  wish'[key] = wish[key] - Weight(cart[i], key) + Weight(row, key)
        OBVIOUS
      <4>1. Weight(cart[i], key) = 0
        BY <3>6, KeysProper DEF Weight
      <4>2. PICK m \in Int : m = qty
        BY <1>1
      <4>3. Weight(row, key) = IF key = k THEN m ELSE 0
        BY <3>2, <4>2 DEF Weight
      <4>4. wish[key] \in Int
        BY <1>w
      <4>. QED
        BY <2>2, <4>1, <4>2, <4>3, <4>4
    <3>. HIDE DEF row, k, qty, w, i
    <3>. QED
      BY <1>2, <1>3, <1>4, <1>6, <2>1, <2>2, <3>1, <3>2, <3>3, <3>5, <3>7, RowWritten
  <2>. QED
    BY <2>3, <2>4
<1>. QED
  BY <1>5, <1>6

LEMMA CommitStepInv ==
  ASSUME Inv, NEW r \in Runs, CommitStep(r)
  PROVE  Inv'
<1>. DEFINE i == run[r].row
            lines == run[r].lines
            qty == run[r].qty
            w == <<>>
<1>1. /\ run[r] \in RunRecord /\ run[r].in \in Dialogues /\ qty \in Int
      /\ lines \in [Rows -> RowValue] /\ lines \in Carts
  BY DEF Inv, TypeOK, RunRecord, Carts
<1>2. run[r].pc = "step" /\ Become(r, NoRun)
  BY DEF CommitStep
<1>3. /\ i \in Rows /\ lines[i] # NoRow /\ lines[i].qty + qty >= 1
      /\ lines[i].qty + qty <= peak[lines[i].key]
  BY <1>2 DEF Inv, RunFits, CommitFits
<1>w. wish \in [Keys -> Int] /\ nextRow \in 1..MaxRows + 1
  BY DEF Inv, TypeOK
<1>4. CASE cart[i] = NoRow
  BY <1>2, <1>4, OverInv DEF CommitStep, Quiet
<1>5. CASE cart[i] # NoRow
  <2>. DEFINE k == cart[i].key
              row == [key |-> k, qty |-> lines[i].qty + qty]
  <2>1. cart' = [cart EXCEPT ![i].qty = lines[i].qty + qty] /\ Wish(k, qty) /\ nextRow' = nextRow
        /\ UNCHANGED <<shop, redis, quota, orders, bounds>>
    BY <1>5 DEF CommitStep
  <2>2. k = lines[i].key /\ i < nextRow
    BY <1>3, <1>5 DEF Inv, RunFits, LinesFit
  <2>3. k \in Keys /\ cart[i] = [key |-> k, qty |-> cart[i].qty] /\ k[1] \notin gone
    BY <1>3, <1>5, CartRead DEF RowValue, Inv, CartFits, Live
  <2>4. lines[i].qty \in Nat /\ lines[i].qty + qty \in Nat
    BY <1>1, <1>3, RowType
  <2>5. cart' = [cart EXCEPT ![i] = row]
    <3>1. [cart[i] EXCEPT !.qty = lines[i].qty + qty] = row
      BY <2>3
    <3>. HIDE DEF row
    <3>. QED
      BY <2>1, <3>1
  <2>6. row \in RowValue /\ row # NoRow /\ row.key = k /\ row.qty = lines[i].qty + qty
    BY <2>3, <2>4, KeysProper DEF RowValue
  <2>7. \A q \in Runs : run[q].lines[i] # NoRow => k = run[q].lines[i].key
    BY <1>3, <1>5 DEF Inv, RunFits, LinesFit
  <2>8. /\ wish' \in [Keys -> Int]
        /\ \A key \in Keys : wish'[key] = IF key = k THEN wish[key] + qty ELSE wish[key]
    BY <1>1, <1>w, <2>1, <2>3 DEF Wish
  <2>9. ASSUME ~overlapped, NEW key \in Keys
        PROVE  wish'[key] = wish[key] - Weight(cart[i], key) + Weight(row, key)
    <3>1. Current(run[r])
      BY <2>9 DEF Inv, Alone, Snapshots
    <3>2. cart[i] = lines[i]
      BY <1>2, <1>3, <1>5, <3>1 DEF Current
    <3>3. PICK n \in Nat : n = lines[i].qty
      BY <2>4
    <3>4. PICK m \in Int : m = qty
      BY <1>1
    <3>5. wish[key] \in Int
      BY <1>w
    <3>6. Weight(cart[i], key) = IF key = k THEN n ELSE 0
      BY <3>2, <3>3 DEF Weight
    <3>7. Weight(row, key) = IF key = k THEN n + m ELSE 0
      BY <2>6, <3>3, <3>4 DEF Weight
    <3>. QED
      BY <2>8, <3>4, <3>5, <3>6, <3>7
  <2>10. nextRow <= nextRow' /\ i < nextRow' /\ nextRow' \in 1..MaxRows + 1
    BY <1>w, <2>1, <2>2, RowsAssumption
  <2>11. w \in Seq(RedisWrite) /\ Become(r, Finish(run[r], w))
    BY <1>2 DEF Finish
  <2>12. row.qty >= 1 /\ row.qty <= peak[k]
    BY <1>3, <2>2, <2>6
  <2>. HIDE DEF row, k, lines, qty, w, i
  <2>. QED
    BY <1>2, <1>3, <2>1, <2>3, <2>5, <2>6, <2>7, <2>8, <2>9, <2>10, <2>11, <2>12, RowWritten DEF w
<1>. QED
  BY <1>4, <1>5

\* The pieces an order takes away are those in the cart now: rows that have
\* vanished since were of deleted products, which have no stock.
LEMMA SoldPieces ==
  ASSUME Inv, NEW lines \in Carts, Enough(lines), NEW k \in Keys,
         \A i \in Rows :
           cart[i] = lines[i] \/ (cart[i] = NoRow /\ lines[i].key[1] \in gone)
  PROVE  Pieces(cart, k) = Pieces(lines, k)
<1>1. CASE k[1] \in gone
  <2>1. shelf[k] = 0 /\ Pieces(lines, k) <= shelf[k]
    BY <1>1 DEF Inv, Peaks, Enough
  <2>2. Pieces(lines, k) = 0
    BY <2>1, PiecesType
  <2>3. Holding(cart, k) = {}
    BY <1>1, KeysProper DEF Holding, Inv, CartFits, Live
  <2>. QED
    BY <2>2, <2>3, NoPieces
<1>2. CASE k[1] \notin gone
  <2>1. \A i \in Rows : cart[i].key = k \/ lines[i].key = k => cart[i] = lines[i]
    BY <1>2, KeysProper
  <2>. QED
    BY <2>1, CartRead, SamePieces
<1>. QED
  BY <1>1, <1>2

LEMMA OneMoreOrder == \A n \in Nat : Bonus * (n + 1) = Bonus * n + Bonus /\ Bonus * n \in Nat
BY BonusAssumption

LEMMA PlaceOrderInv ==
  ASSUME Inv, NEW r \in Runs, PlaceOrder(r)
  PROVE  Inv'
<1>. USE DEF Inv
<1>. DEFINE L == run[r]
            w == Leave(L.in)
<1>1. /\ L \in RunRecord /\ L.in \in Dialogues /\ L.lines \in Carts /\ L.quota \in Nat
      /\ L.pc = "order"
  BY DEF TypeOK, RunRecord, Carts, PlaceOrder
<1>2. w \in Seq(RedisWrite) /\ Elsewhere(L.in, w)
  BY <1>1, LeaveType, LeaveElsewhere
<1>3. /\ Enough(L.lines) /\ Become(r, Finish(L, w))
      /\ shelf' = [k \in Keys |-> shelf[k] - Pieces(L.lines, k)]
      /\ wish' = [k \in Keys |-> wish[k] - Pieces(L.lines, k)]
      /\ cart' = [i \in Rows |-> NoRow] /\ orders' = orders + 1 /\ quota' = L.quota + Bonus
      /\ UNCHANGED <<peak, gone, nextRow, fsm, data, overlapped, updates, outside, crashes>>
  BY DEF PlaceOrder, redis, bounds
<1>4. /\ run' \in [Runs -> RunRecord]
      /\ \A q \in Runs \ {r} : run'[q] = run[q]
      /\ run'[r].pc \in {"idle", "redis"}
      /\ run'[r].lines = NoRun.lines
      /\ run'[r].pc = "redis" => run'[r].todo # <<>> /\ WritesFit(run'[r])
  BY <1>2, <1>3, EndedRun
<1>. HIDE DEF L
<1>5. \A k \in Keys : /\ shelf[k] \in Nat /\ peak[k] \in Nat /\ wish[k] \in Int
                      /\ shelf[k] <= peak[k] /\ (k[1] \in gone => shelf[k] = 0)
                      /\ Pieces(L.lines, k) \in Nat /\ Pieces(L.lines, k) <= shelf[k]
  BY <1>1, <1>3, PiecesType DEF TypeOK, Peaks, Enough
<1>6. \A k \in Keys : shelf'[k] = shelf[k] - Pieces(L.lines, k) /\ shelf'[k] \in Nat
                      /\ wish'[k] = wish[k] - Pieces(L.lines, k) /\ wish'[k] \in Int
  BY <1>3, <1>5
<1>7. TypeOK'
  <2>1. shelf' \in [Keys -> Nat] /\ wish' \in [Keys -> Int]
    BY <1>3, <1>6
  <2>2. cart' \in [Rows -> RowValue]
    BY <1>3 DEF RowValue
  <2>. QED
    BY <1>1, <1>3, <1>4, <2>1, <2>2, BonusAssumption DEF TypeOK
<1>8. (Histories /\ Peaks)'
  BY <1>3, <1>5, <1>6 DEF Histories, Peaks
<1>9. (CartFits /\ RowWithinStock)'
  BY <1>3 DEF CartFits, RowWithinStock, Live
<1>b. /\ orders \in Nat /\ quota \in Nat /\ Bonus \in Nat
      /\ Bonus * orders' = Bonus * orders + Bonus /\ Bonus * orders \in Nat
  BY <1>3, OneMoreOrder, BonusAssumption DEF TypeOK
<1>10. (quota <= Bonus * orders)'
  <2>1. L.quota <= Bonus * orders
    BY <1>1 DEF RunFits, CommitFits, L
  <2>. QED
    BY <1>1, <1>3, <1>b, <2>1
<1>11. (\A q \in Runs : RunFits(run[q]))'
  <2>. SUFFICES ASSUME NEW q \in Runs PROVE RunFits(run[q])'
    OBVIOUS
  <2>1. CASE q = r
    BY <1>3, <1>4, <2>1 DEF RunFits, LinesFit, CommitFits, StageFits, NoRun
  <2>2. CASE q # r
    <3>1. run'[q] = run[q] /\ RunFits(run[q])
      BY <1>4, <2>2
    <3>2. LinesFit(run[q])'
      BY <1>3, <3>1 DEF RunFits, LinesFit
    <3>3. (run[q].pc = "order" => run[q].quota <= Bonus * orders)'
      <4>1. run[q].quota \in Nat
        BY DEF TypeOK, RunRecord
      <4>2. run[q].pc = "order" => run[q].quota <= Bonus * orders
        BY <3>1 DEF RunFits, CommitFits
      <4>. QED
        BY <1>b, <3>1, <4>1, <4>2
    <3>4. CommitFits(run[q])'
      BY <1>3, <3>1, <3>3 DEF RunFits, CommitFits
    <3>5. StageFits(run[q])'
      BY <3>1 DEF RunFits, StageFits
    <3>. QED
      BY <3>2, <3>4, <3>5 DEF RunFits
  <2>. QED
    BY <2>1, <2>2
<1>12. Alone'
  <2>. SUFFICES ASSUME ~overlapped
                PROVE  (OneRun /\ Kept /\ quota = Bonus * orders /\ Snapshots)'
    BY <1>3 DEF Alone
  <2>1. \A q \in Runs \ {r} : run'[q].pc = "idle"
    BY <1>1, <1>4 DEF Alone, OneRun, L
  <2>2. OneRun' /\ Snapshots'
    BY <1>4, <2>1 DEF OneRun, Snapshots, Current
  <2>3. Kept'
    <3>. SUFFICES ASSUME NEW k \in Keys PROVE Pieces(cart', k) = wish'[k]
      BY DEF Kept
    <3>1. Holding(cart', k) = {}
      BY <1>3, KeysProper DEF Holding
    <3>2. Pieces(cart', k) = 0
      BY <3>1, NoPieces
    <3>3. Current(L)
      BY DEF Alone, Snapshots, L
    <3>4. Pieces(cart, k) = Pieces(L.lines, k)
      BY <1>1, <1>3, <3>3, SoldPieces DEF Current
    <3>5. Pieces(cart, k) = wish[k]
      BY DEF Alone, Kept
    <3>. QED
      <4>1. PICK n \in Nat : n = Pieces(L.lines, k)
        BY <1>5
      <4>2. wish'[k] = wish[k] - Pieces(L.lines, k)
        BY <1>6
      <4>3. wish'[k] = n - n
        BY <3>4, <3>5, <4>1, <4>2
      <4>. QED
        BY <3>2, <4>3
  <2>4. quota' = Bonus * orders'
    BY <1>1, <1>3, <1>b DEF Alone, Snapshots, L
  <2>. QED
    BY <2>2, <2>3, <2>4
<1>13. Asked'
  <2>. SUFFICES ASSUME ~overlapped, crashes = 0 PROVE (Writing /\ Waiting)'
    BY <1>3 DEF Asked
  <2>1. \A q \in Runs \ {r} : run'[q].pc = "idle" /\ run[q].pc = "idle"
    BY <1>1, <1>4 DEF Alone, OneRun, L
  <2>2. Writing'
    <3>1. \A q \in Runs : run'[q].pc = "redis" => q = r
      BY <2>1
    <3>. QED
      BY <1>3, <1>4, <3>1 DEF Writing, WritesFit, Sold
  <2>3. Waiting'
    <3>1. \A q \in Runs : run[q].pc # "redis"
      BY <1>1, <2>1 DEF L
    <3>. QED
      BY <1>3, <3>1 DEF Asked, Waiting, Sold
  <2>. QED
    BY <2>2, <2>3
<1>. QED
  BY <1>7, <1>8, <1>9, <1>10, <1>11, <1>12, <1>13

LEMMA PressDeleteInv ==
  ASSUME Inv, NEW r \in Runs, PressDelete(r)
  PROVE  Inv'
<1>. USE DEF Inv
<1>1. PICK i \in Live : cart' = [cart EXCEPT ![i] = NoRow] /\ Wish(cart[i].key, 0 - cart[i].qty)
  BY DEF PressDelete
<1>2. /\ UNCHANGED <<shelf, peak, gone, fsm, data, run, nextRow, quota, orders, crashes>>
      /\ overlapped' \in BOOLEAN
      /\ ~overlapped' => ~overlapped /\ \A q \in Runs : run[q].pc = "idle"
  BY DEF PressDelete, shop, redis
<1>3. /\ i \in Rows /\ cart \in Carts /\ cart[i] # NoRow /\ cart[i] \in RowValue
      /\ cart[i].key \in Keys /\ cart[i].qty \in Nat
  BY CartRead, RowType DEF Live, RowValue
<1>4. /\ cart' \in Carts /\ cart'[i] = NoRow
      /\ \A j \in Rows \ {i} : cart'[j] = cart[j]
  BY <1>1, <1>3 DEF Carts, RowValue
<1>5. PICK n \in Nat : n = cart[i].qty
  BY <1>3
<1>6. wish \in [Keys -> Int]
  BY DEF TypeOK
<1>7. /\ wish' \in [Keys -> Int]
      /\ \A k \in Keys : wish'[k] = IF k = cart[i].key THEN wish[k] - n ELSE wish[k]
  <2>1. wish' = [wish EXCEPT ![cart[i].key] = @ + (0 - n)]
    BY <1>1, <1>5 DEF Wish
  <2>. QED
    BY <1>3, <1>6, <2>1
<1>8. TypeOK'
  BY <1>2, <1>4, <1>7 DEF TypeOK, Carts
<1>9. (Histories /\ Peaks /\ quota <= Bonus * orders)'
  BY <1>2 DEF Histories, Peaks
<1>10. (CartFits /\ RowWithinStock)'
  BY <1>2, <1>4 DEF CartFits, RowWithinStock, Live
<1>11. (\A q \in Runs : RunFits(run[q]))'
  <2>1. \A q \in Runs : LinesFit(run[q])'
    BY <1>2, <1>4 DEF RunFits, LinesFit
  <2>. QED
    BY <1>2, <2>1 DEF RunFits, CommitFits, StageFits
<1>12. Alone'
  <2>. SUFFICES ASSUME ~overlapped'
                PROVE  (OneRun /\ Kept /\ quota = Bonus * orders /\ Snapshots)'
    BY DEF Alone
  <2>1. OneRun' /\ Snapshots'
    BY <1>2 DEF OneRun, Snapshots, Current
  <2>2. Kept'
    <3>. SUFFICES ASSUME NEW k \in Keys PROVE Pieces(cart', k) = wish'[k]
      BY DEF Kept
    <3>1. \A key : Pieces(cart', key) =
                     Pieces(cart, key) - Weight(cart[i], key) + Weight(cart'[i], key)
      BY <1>3, <1>4, PiecesChange
    <3>2. Weight(cart'[i], k) = 0
      BY <1>4, KeysProper DEF Weight
    <3>3. Weight(cart[i], k) = IF k = cart[i].key THEN n ELSE 0
      BY <1>5 DEF Weight
    <3>4. Pieces(cart, k) = wish[k] /\ wish[k] \in Int
      BY <1>2, <1>6 DEF Alone, Kept
    <3>. HIDE DEF Inv
    <3>. QED
      BY <1>7, <3>1, <3>2, <3>3, <3>4
  <2>. QED
    BY <1>2, <2>1, <2>2 DEF Alone
<1>13. Asked'
  BY <1>2 DEF Asked, Writing, Waiting, WritesFit, Sold
<1>. QED
  BY <1>8, <1>9, <1>10, <1>11, <1>12, <1>13

\* The writes to Redis that are left still lead where they should when the
\* first of them is done.
LEMMA WriteRedisInv ==
  ASSUME Inv, NEW r \in Runs, WriteRedis(r)
  PROVE  Inv'
<1>. USE DEF Inv
<1>. DEFINE L == run[r]
            w == Head(L.todo)
            d == L.in
            rest == Tail(L.todo)
<1>1. /\ L \in RunRecord /\ d \in Dialogues /\ L.todo \in Seq(RedisWrite) /\ L.todo # <<>>
      /\ L.pc = "redis"
  BY DEF TypeOK, RunRecord, WriteRedis, RunFits, StageFits
<1>2. w \in RedisWrite /\ rest \in Seq(RedisWrite)
  BY <1>1
<1>3. /\ fsm' = IF w.set = "state" THEN w.to ELSE fsm
      /\ data' = IF w.set = "wipe" THEN [e \in Dialogues |-> NoFields]
                 ELSE IF w.set = "product" THEN [data EXCEPT ![d].product = w.to]
                 ELSE IF w.set = "size" THEN [data EXCEPT ![d].size = w.to]
                 ELSE IF w.set = "named" THEN [data EXCEPT ![d].named = TRUE]
                 ELSE data
      /\ run' = [run EXCEPT ![r] = Finish(L, rest)]
      /\ UNCHANGED <<shelf, peak, gone, cart, nextRow, quota, orders, wish>>
      /\ UNCHANGED <<overlapped, crashes>>
  BY DEF WriteRedis, Become, shop, db, bounds
<1>4. Finish(L, rest) \in RunRecord
  BY <1>1, <1>2, FinishType
<1>5. /\ run' \in [Runs -> RunRecord]
      /\ run'[r] = Finish(L, rest)
      /\ \A q \in Runs \ {r} : run'[q] = run[q]
  BY <1>3, <1>4 DEF TypeOK
<1>6. /\ run'[r].lines = NoRun.lines /\ run'[r].pc \in {"idle", "redis"}
      /\ run'[r].pc = "redis" => run'[r].todo = rest /\ run'[r].in = d /\ rest # <<>>
      /\ run'[r].pc # "redis" => rest = <<>>
  BY <1>5 DEF Finish, NoRun
<1>. HIDE DEF L, w, d, rest
<1>7. fsm' \in State
  BY <1>2, <1>3 DEF TypeOK, RedisWrite
<1>8. data' \in [Dialogues -> Fields]
  <2>1. data \in [Dialogues -> Fields]
    BY DEF TypeOK
  <2>2. CASE w.set = "wipe"
    BY <1>3, <2>2 DEF Fields, NoFields
  <2>3. CASE w.set = "product"
    <3>1. w.to \in Products
      BY <1>2, <2>3 DEF RedisWrite
    <3>. QED
      BY <1>1, <1>3, <2>1, <2>3, <3>1 DEF Fields
  <2>4. CASE w.set = "size"
    <3>1. w.to \in Sizes
      BY <1>2, <2>4 DEF RedisWrite
    <3>. QED
      BY <1>1, <1>3, <2>1, <2>4, <3>1 DEF Fields
  <2>5. CASE w.set = "named"
    BY <1>1, <1>3, <2>1, <2>5 DEF Fields
  <2>. QED
    BY <1>3, <2>1, <2>2, <2>3, <2>4, <2>5
<1>9. TypeOK'
  BY <1>3, <1>5, <1>7, <1>8 DEF TypeOK
<1>10. (Histories /\ Peaks /\ CartFits /\ RowWithinStock /\ quota <= Bonus * orders)'
  BY <1>3 DEF Histories, Peaks, CartFits, RowWithinStock, Live
<1>11. (\A q \in Runs : RunFits(run[q]))'
  <2>. SUFFICES ASSUME NEW q \in Runs PROVE RunFits(run[q])'
    OBVIOUS
  <2>1. CASE q = r
    BY <1>3, <1>6, <2>1 DEF RunFits, LinesFit, CommitFits, StageFits, NoRun
  <2>2. CASE q # r
    <3>1. run'[q] = run[q] /\ RunFits(run[q])
      BY <1>5, <2>2
    <3>. QED
      BY <1>3, <3>1 DEF RunFits, LinesFit, CommitFits, StageFits
  <2>. QED
    BY <2>1, <2>2
<1>12. Alone'
  <2>. SUFFICES ASSUME ~overlapped
                PROVE  (OneRun /\ Kept /\ quota = Bonus * orders /\ Snapshots)'
    BY <1>3 DEF Alone
  <2>1. \A q \in Runs \ {r} : run'[q].pc = "idle"
    BY <1>1, <1>5 DEF Alone, OneRun, L
  <2>2. OneRun' /\ Snapshots'
    BY <1>6, <2>1 DEF OneRun, Snapshots, Current
  <2>. QED
    BY <1>3, <2>2 DEF Alone, Kept
<1>13. Asked'
  <2>. SUFFICES ASSUME ~overlapped, crashes = 0 PROVE (Writing /\ Waiting)'
    BY <1>3 DEF Asked
  <2>1. \A q \in Runs \ {r} : run'[q].pc = "idle"
    BY <1>1, <1>5 DEF Alone, OneRun, L
  <2>2. WritesFit(L)
    BY <1>1 DEF Asked, Writing, L
  <2>3. /\ run'[r].pc = "redis" => WritesFit(run[r])'
        /\ run'[r].pc # "redis" => Waiting'
    <3>1. CASE L.todo = <<[set |-> "wipe"]>> /\ fsm.at # "quantity"
      <4>1. rest = <<>> /\ w.set = "wipe"
        BY <3>1 DEF rest, w
      <4>. QED
        BY <1>3, <1>6, <3>1, <4>1 DEF Waiting
    <3>2. CASE L.todo = <<Goto(d, "quantity")>> /\ Sold(data[d].product, data[d].size)
      <4>1. rest = <<>> /\ w.set = "state" /\ w.to = [in |-> d, at |-> "quantity"]
        BY <3>2 DEF rest, w, Goto
      <4>. QED
        BY <1>3, <1>6, <3>2, <4>1 DEF Waiting, Sold
    <3>3. ASSUME NEW s \in Sizes, L.todo = <<Put("size", s), Goto(d, "quantity")>>,
                 Sold(data[d].product, s)
          PROVE  run'[r].pc = "redis" /\ WritesFit(run[r])'
      <4>1. rest = <<Goto(d, "quantity")>> /\ rest # <<>> /\ w.set = "size" /\ w.to = s
        BY <3>3 DEF rest, w, Put
      <4>2. data' = [data EXCEPT ![d].size = s]
        BY <1>3, <4>1
      <4>3. data'[d].product = data[d].product /\ data'[d].size = s
        BY <1>1, <4>2 DEF TypeOK, Fields
      <4>. QED
        BY <1>3, <1>6, <3>3, <4>1, <4>3 DEF WritesFit, Sold
    <3>4. ASSUME NEW stage \in Stages \ {"quantity"}, L.todo = <<Goto(d, stage)>>
          PROVE  run'[r].pc # "redis" /\ Waiting'
      <4>1. rest = <<>> /\ w.set = "state" /\ w.to = [in |-> d, at |-> stage]
        BY <3>4 DEF rest, w, Goto
      <4>. QED
        BY <1>3, <1>6, <4>1 DEF Waiting
    <3>5. ASSUME NEW stage \in Stages \ {"quantity"},
                 L.todo = <<Goto(d, stage), [set |-> "wipe"]>>
          PROVE  run'[r].pc = "redis" /\ WritesFit(run[r])'
      <4>1. /\ rest = <<[set |-> "wipe"]>> /\ rest # <<>>
            /\ w.set = "state" /\ w.to = [in |-> d, at |-> stage]
        BY <3>5 DEF rest, w, Goto
      <4>. QED
        BY <1>3, <1>6, <4>1 DEF WritesFit
    <3>6. ASSUME NEW stage \in Stages \ {"quantity"}, NEW v \in RedisWrite,
                 L.todo = <<v, Goto(d, stage)>>
          PROVE  run'[r].pc = "redis" /\ WritesFit(run[r])'
      <4>1. rest = <<Goto(d, stage)>> /\ rest # <<>>
        BY <3>6 DEF rest
      <4>2. Elsewhere(d, rest)
        BY <4>1 DEF Elsewhere
      <4>. QED
        BY <1>6, <4>1, <4>2 DEF WritesFit
    <3>. QED
      BY <2>2, <3>1, <3>2, <3>3, <3>4, <3>5, <3>6 DEF WritesFit, Elsewhere, d
  <2>4. Writing'
    <3>1. \A q \in Runs : run'[q].pc = "redis" => q = r
      BY <2>1
    <3>. QED
      BY <2>3, <3>1 DEF Writing
  <2>. QED
    BY <2>3, <2>4 DEF Waiting
<1>. QED
  BY <1>9, <1>10, <1>11, <1>12, <1>13

\* An order that is refused, or that the database does not take.
LEMMA NoOrderInv ==
  ASSUME Inv, NEW r \in Runs, RefuseOrder(r) \/ NamelessOrder(r)
  PROVE  Inv'
<1>1. run[r].in \in Dialogues
  BY DEF Inv, TypeOK, RunRecord
<1>2. Leave(run[r].in) \in Seq(RedisWrite) /\ Elsewhere(run[r].in, Leave(run[r].in))
  BY <1>1, LeaveType, LeaveElsewhere
<1>3. CASE RefuseOrder(r)
  <2>1. Quiet(r) /\ Become(r, Finish(run[r], Leave(run[r].in)))
    BY <1>3 DEF RefuseOrder, Quiet
  <2>. QED
    BY <1>2, <2>1, EndInv
<1>4. CASE NamelessOrder(r)
  BY <1>4, OverInv DEF NamelessOrder, Quiet
<1>. QED
  BY <1>3, <1>4

-----------------------------------------------------------------------------
(***************************************************************************)
(* Everything else.                                                        *)
(***************************************************************************)

LEMMA OthersTradeInv ==
  ASSUME Inv, OthersTrade
  PROVE  Inv'
<1>. USE DEF Inv
<1>1. PICK k \in Keys, q \in {-1, 1} :
        /\ shelf[k] + q >= 0 /\ k[1] \notin gone
        /\ shelf' = [shelf EXCEPT ![k] = @ + q]
        /\ peak' = [peak EXCEPT ![k] = IF shelf[k] + q > @ THEN shelf[k] + q ELSE @]
  BY DEF OthersTrade
<1>2. UNCHANGED <<gone, cart, nextRow, quota, orders, wish, fsm, data, run, overlapped, crashes>>
  BY DEF OthersTrade, db, redis
<1>3. shelf \in [Keys -> Nat] /\ peak \in [Keys -> Nat]
  BY DEF TypeOK
<1>4. shelf[k] + q \in Nat
  BY <1>1, <1>3
<1>5. shelf' \in [Keys -> Nat] /\ peak' \in [Keys -> Nat]
  BY <1>1, <1>3, <1>4
<1>6. \A key \in Keys : peak[key] <= peak'[key]
  BY <1>1, <1>3, <1>4
<1>7. TypeOK'
  BY <1>2, <1>5 DEF TypeOK
<1>8. Peaks'
  <2>1. shelf'[k] <= peak'[k] /\ k[1] \notin gone
    BY <1>1, <1>3, <1>4
  <2>2. \A key \in Keys \ {k} : shelf'[key] = shelf[key] /\ peak'[key] = peak[key]
    BY <1>1, <1>3
  <2>. QED
    BY <1>2, <2>1, <2>2 DEF Peaks
<1>9. (Histories /\ CartFits /\ quota <= Bonus * orders /\ Alone)'
  BY <1>2 DEF Histories, CartFits, Live, Alone, OneRun, Kept, Snapshots, Current
<1>10. RowWithinStock'
  <2>. SUFFICES ASSUME NEW i \in Live PROVE cart[i].qty >= 1 /\ cart[i].qty <= peak'[cart[i].key]
    BY <1>2 DEF RowWithinStock, Live
  <2>1. i \in Rows /\ cart[i].key \in Keys /\ cart[i].qty \in Nat
    BY CartRead, RowType DEF Live, RowValue
  <2>2. cart[i].qty >= 1 /\ cart[i].qty <= peak[cart[i].key]
    BY DEF RowWithinStock
  <2>. QED
    BY <1>3, <1>5, <1>6, <2>1, <2>2
<1>11. (\A r \in Runs : RunFits(run[r]))'
  <2>. SUFFICES ASSUME NEW r \in Runs PROVE RunFits(run[r])'
    OBVIOUS
  <2>1. run[r] \in RunRecord /\ RunFits(run[r])
    BY DEF TypeOK
  <2>2. (LinesFit(run[r]) /\ StageFits(run[r]))'
    BY <1>2, <2>1 DEF RunFits, LinesFit, StageFits
  <2>3. \A key \in Keys, n \in Int : n <= peak[key] => n <= peak'[key]
    BY <1>3, <1>5, <1>6
  <2>4. run[r].lines \in Carts /\ run[r].qty \in Int
    BY <2>1 DEF RunRecord, Carts
  <2>5. \A i \in Rows : run[r].lines[i].qty + run[r].qty \in Int
    BY <2>4, RowType
  <2>6. \A i \in Rows : run[r].lines[i] # NoRow => run[r].lines[i].key \in Keys
    BY <2>4, RowType DEF RowValue
  <2>7. CommitFits(run[r])'
    <3>1. run[r].pc = "line" =>
            /\ run[r].key \in Keys /\ run[r].qty >= 1 /\ run[r].qty <= peak'[run[r].key]
            /\ \A i \in Holding(run[r].lines, run[r].key) :
                 run[r].lines[i].qty + run[r].qty <= peak'[run[r].key]
      BY <2>1, <2>3, <2>4, <2>5 DEF RunFits, CommitFits, Holding
    <3>2. run[r].pc = "step" =>
            /\ run[r].row \in Rows /\ run[r].lines[run[r].row] # NoRow
            /\ run[r].lines[run[r].row].qty + run[r].qty >= 1
            /\ run[r].lines[run[r].row].qty + run[r].qty <= peak'[run[r].lines[run[r].row].key]
      BY <2>1, <2>3, <2>5, <2>6 DEF RunFits, CommitFits
    <3>3. run[r].pc = "order" => run[r].quota <= Bonus * orders
      BY <2>1 DEF RunFits, CommitFits
    <3>. QED
      BY <1>2, <3>1, <3>2, <3>3 DEF CommitFits
  <2>. QED
    BY <2>2, <2>7 DEF RunFits
<1>12. Asked'
  <2>1. \A p, s : Sold(p, s) => Sold(p, s)'
    BY <1>3, <1>5, <1>6 DEF Sold
  <2>2. Writing => Writing'
    BY <1>2, <2>1 DEF Writing, WritesFit
  <2>3. Waiting => Waiting'
    BY <1>2, <2>1 DEF Waiting
  <2>. QED
    BY <1>2, <2>2, <2>3 DEF Asked
<1>. QED
  BY <1>7, <1>8, <1>9, <1>10, <1>11, <1>12

LEMMA DeleteProductInv ==
  ASSUME Inv, DeleteProduct
  PROVE  Inv'
<1>. USE DEF Inv
<1>1. PICK p \in Products \ gone :
        /\ gone' = gone \cup {p}
        /\ shelf' = [k \in Keys |-> IF k[1] = p THEN 0 ELSE shelf[k]]
        /\ cart' = [i \in Rows |-> IF cart[i].key[1] = p THEN NoRow ELSE cart[i]]
        /\ wish' = [k \in Keys |-> IF k[1] = p THEN wish[k] - Pieces(cart, k) ELSE wish[k]]
  BY DEF DeleteProduct
<1>2. UNCHANGED <<peak, nextRow, quota, orders, fsm, data, run, overlapped, crashes>>
  BY DEF DeleteProduct, redis
<1>3. cart \in Carts /\ cart' \in Carts
  BY <1>1, CartRead DEF Carts, RowValue
<1>4. \A i \in Rows : cart'[i] = IF cart[i].key[1] = p THEN NoRow ELSE cart[i]
  BY <1>1
<1>5. TypeOK'
  <2>1. shelf' \in [Keys -> Nat]
    BY <1>1 DEF TypeOK
  <2>2. wish' \in [Keys -> Int]
    <3>1. \A k \in Keys : Pieces(cart, k) \in Nat /\ wish[k] \in Int
      BY <1>3, PiecesType DEF TypeOK
    <3>. QED
      BY <1>1, <3>1
  <2>3. gone' \subseteq Products
    BY <1>1 DEF TypeOK
  <2>. QED
    BY <1>2, <1>3, <2>1, <2>2, <2>3 DEF TypeOK, Carts
<1>6. Peaks'
  BY <1>1, <1>2 DEF Peaks, TypeOK
<1>7. (Histories /\ quota <= Bonus * orders)'
  BY <1>2 DEF Histories
<1>8. (CartFits /\ RowWithinStock)'
  BY <1>1, <1>2, <1>4 DEF CartFits, RowWithinStock, Live
<1>9. (\A r \in Runs : RunFits(run[r]))'
  <2>1. \A r \in Runs : LinesFit(run[r])'
    BY <1>2, <1>4 DEF RunFits, LinesFit
  <2>. QED
    BY <1>2, <2>1 DEF RunFits, CommitFits, StageFits
<1>10. Alone'
  <2>. SUFFICES ASSUME ~overlapped
                PROVE  (OneRun /\ Kept /\ quota = Bonus * orders /\ Snapshots)'
    BY <1>2 DEF Alone
  <2>1. OneRun'
    BY <1>2 DEF Alone, OneRun
  <2>2. Snapshots'
    <3>. SUFFICES ASSUME NEW r \in Runs, run[r].pc \in {"line", "step", "order"}, NEW i \in Rows
                  PROVE  \/ cart'[i] = run[r].lines[i]
                         \/ cart'[i] = NoRow /\ run[r].lines[i].key[1] \in gone'
      BY <1>2 DEF Alone, Snapshots, Current
    <3>1. \/ cart[i] = run[r].lines[i]
          \/ cart[i] = NoRow /\ run[r].lines[i].key[1] \in gone
      BY DEF Alone, Snapshots, Current
    <3>. QED
      BY <1>1, <1>4, <3>1
  <2>3. Kept'
    <3>. SUFFICES ASSUME NEW k \in Keys PROVE Pieces(cart', k) = wish'[k]
      BY DEF Kept
    <3>0. Pieces(cart, k) = wish[k] /\ Pieces(cart, k) \in Nat
      BY <1>3, PiecesType DEF Alone, Kept
    <3>1. CASE k[1] = p
      <4>1. Holding(cart', k) = {}
        BY <1>4, <3>1, KeysProper DEF Holding
      <4>2. Pieces(cart', k) = 0
        BY <4>1, NoPieces
      <4>. QED
        BY <1>1, <3>0, <3>1, <4>2
    <3>2. CASE k[1] # p
      <4>1. \A i \in Rows : cart'[i].key = k \/ cart[i].key = k => cart'[i] = cart[i]
        BY <1>4, <3>2, KeysProper
      <4>2. Pieces(cart', k) = Pieces(cart, k)
        BY <1>3, <4>1, SamePieces
      <4>. QED
        BY <1>1, <3>0, <3>2, <4>2
    <3>. QED
      BY <3>1, <3>2
  <2>. QED
    BY <1>2, <2>1, <2>2, <2>3 DEF Alone
<1>11. Asked'
  BY <1>2 DEF Asked, Writing, Waiting, WritesFit, Sold
<1>. QED
  BY <1>5, <1>6, <1>7, <1>8, <1>9, <1>10, <1>11

\* What was committed stays when the bot dies; no handler is under way then.
LEMMA CrashInv ==
  ASSUME Inv, Crash
  PROVE  Inv'
<1>. USE DEF Inv
<1>1. /\ run' = [r \in Runs |-> NoRun] /\ crashes' = crashes + 1
      /\ UNCHANGED <<shelf, peak, gone, cart, nextRow, quota, orders, wish, fsm, data, overlapped>>
  BY DEF Crash, shop, db, redis
<1>2. \A r \in Runs : run'[r] = NoRun
  BY <1>1
<1>3. TypeOK'
  BY <1>1, NoRunType DEF TypeOK
<1>4. (Peaks /\ CartFits /\ RowWithinStock /\ quota <= Bonus * orders)'
  BY <1>1 DEF Peaks, CartFits, RowWithinStock, Live
<1>5. (\A r \in Runs : RunFits(run[r]))'
  BY <1>1, <1>2 DEF RunFits, LinesFit, CommitFits, StageFits, NoRun
<1>6. Alone'
  BY <1>1, <1>2 DEF Alone, OneRun, Kept, Snapshots, Current, NoRun
<1>7. crashes' \in Nat /\ crashes' # 0
  BY <1>1 DEF Histories
<1>8. Histories' /\ Asked'
  BY <1>1, <1>7 DEF Histories, Asked
<1>. QED
  BY <1>3, <1>4, <1>5, <1>6, <1>8

LEMMA NextInv == Inv /\ [Next]_vars => Inv'
<1>. SUFFICES ASSUME Inv, [Next]_vars PROVE Inv'
  OBVIOUS
<1>1. CASE \E r \in Runs : Customer(r)
  <2>1. PICK r \in Runs : Customer(r)
    BY <1>1
  <2>. QED
    BY <2>1, CustomerInv, PressDeleteInv
<1>2. CASE \E r \in Runs : Handler(r)
  <2>1. PICK r \in Runs : Handler(r)
    BY <1>2
  <2>. QED
    BY <2>1, ReadingInv, CommitLineInv, CommitStepInv, PlaceOrderInv, NoOrderInv, WriteRedisInv
       DEF Handler
<1>3. CASE OthersTrade
  BY <1>3, OthersTradeInv
<1>4. CASE DeleteProduct
  BY <1>4, DeleteProductInv
<1>5. CASE Crash
  BY <1>5, CrashInv
<1>6. CASE UNCHANGED vars
  <2>. USE DEF Inv, vars, shop, db, redis, bounds
  <2>1. (TypeOK /\ Histories /\ Peaks /\ CartFits /\ RowWithinStock)'
    BY <1>6 DEF TypeOK, Histories, Peaks, CartFits, RowWithinStock, Live
  <2>2. (\A r \in Runs : RunFits(run[r]))'
    BY <1>6 DEF RunFits, LinesFit, CommitFits, StageFits
  <2>3. (quota <= Bonus * orders /\ Alone /\ Asked)'
    BY <1>6 DEF Alone, OneRun, Kept, Snapshots, Current, Asked, Writing, Waiting, WritesFit, Sold
  <2>. QED
    BY <2>1, <2>2, <2>3
<1>. QED
  BY <1>1, <1>2, <1>3, <1>4, <1>5, <1>6 DEF Next

\* The invariant that the properties below follow from: what every handler of the
\* dialogue, and the commit that ends it, can rely on in what they have read,
\* whatever other updates of the same customer ran since.
THEOREM Invariance == Spec => []Inv
BY InitInv, NextInv, PTL DEF Spec

-----------------------------------------------------------------------------
(***************************************************************************)
(* The theorems.                                                           *)
(***************************************************************************)

\* Every variable keeps its type; in particular no stock and no quantity of a
\* cart row ever becomes negative (products.py, client.py).
THEOREM TypeCorrect == Spec => []TypeOK
<1>1. Inv => TypeOK
  BY DEF Inv
<1>. QED
  BY <1>1, Invariance, PTL

\* However the customer's updates interleave and fail, no row of the cart asks
\* for more pieces than its size has ever had (process_quantity_input,
\* change_cart_item_quantity).
THEOREM RowsWithinStock == Spec => []RowWithinStock
<1>1. Inv => RowWithinStock
  BY DEF Inv
<1>. QED
  BY <1>1, Invariance, PTL

\* A customer who waits for each answer orders every piece once, also when the
\* bot dies after the commit of an order (process_order_phone, ai_checkout_phone).
THEOREM EveryPieceSoldOnce == Spec => []SoldOnce
<1>1. Inv => SoldOnce
  BY DEF Inv, SoldOnce, Alone, Kept
<1>. QED
  BY <1>1, Invariance, PTL

\* The bonus is paid at most once for each order, under any interleaving, and
\* exactly once for a customer who waits for each answer (process_order_phone).
THEOREM OneBonusPerOrder == Spec => []BonusPerOrder
<1>1. Inv => BonusPerOrder
  BY DEF Inv, BonusPerOrder, Alone
<1>. QED
  BY <1>1, Invariance, PTL

\* Without overlapping updates or a death of the bot, the dialogue never asks
\* for the quantity of a size the product was not sold in (cq_cart_add,
\* process_size_input).
THEOREM SizeOfItsProduct == Spec => []SizeOfProduct
<1>1. Inv => SizeOfProduct
  <2>. SUFFICES ASSUME Inv, ~overlapped, crashes = 0, fsm.at = "quantity",
                       \A r \in Runs : run[r].pc = "idle"
                PROVE  Sold(data[fsm.in].product, data[fsm.in].size)
    BY DEF SizeOfProduct, Sold
  <2>. QED
    BY DEF Inv, Asked, Waiting
<1>. QED
  BY <1>1, Invariance, PTL

=============================================================================
