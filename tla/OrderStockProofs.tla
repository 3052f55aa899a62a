-------------------------- MODULE OrderStockProofs --------------------------
(***************************************************************************)
(* Proofs about OrderStock for any sets of keys, sessions, carts and       *)
(* handlers and any initial stock.                                         *)
(*                                                                         *)
(* The inductive invariant is IInv: the types, what a session and its row  *)
(* locks say of each other (LockDiscipline), and the two facts about the   *)
(* quantities read under a lock. Only a session's own steps change its     *)
(* record and the rows it holds, so an action of session s has to be       *)
(* examined for s, and lemma Frame covers all others.                      *)
(***************************************************************************)
EXTENDS OrderStock, FiniteSetTheorems, TLAPS

-----------------------------------------------------------------------------
(***************************************************************************)
(* The operators the actions are built from.                               *)
(***************************************************************************)

\* Support is a set of keys.
LEMMA SupportKeys == \A q : Support(q) \in SUBSET Keys
BY DEF Support

\* The record of a session that has not started, or is closed, has its type.
LEMMA FreshType ==
  \A s \in Sessions :
    /\ Fresh(s) \in TxRecord
    /\ [Fresh(s) EXCEPT !.pc = "done"] \in TxRecord
    /\ Fresh(s).pc = "idle" /\ Fresh(s).kind = "checkout" /\ Fresh(s).loaded = {}
    /\ [Fresh(s) EXCEPT !.pc = "done"].pc = "done"
    /\ [Fresh(s) EXCEPT !.pc = "done"].kind = "checkout"
    /\ [Fresh(s) EXCEPT !.pc = "done"].loaded = {}
<1>1. (CHOOSE k \in Keys : TRUE) \in Keys
  BY KeysAssumption
<1>. QED
  BY <1>1 DEF Fresh, TxRecord, Phases, AllHandlers, Statuses, Nothing

\* The loop step keeps the type and changes pc, cur and todo only.
LEMMA StepType ==
  ASSUME NEW t \in TxRecord, NEW more \in Phases, NEW after \in Phases,
         NEW u \in Step(t, more, after)
  PROVE  /\ u \in TxRecord
         /\ u.kind = t.kind /\ u.amount = t.amount /\ u.target = t.target
         /\ u.seen = t.seen /\ u.loaded = t.loaded /\ u.read = t.read
         /\ \/ /\ t.todo = {} /\ u.pc = after /\ u.todo = {} /\ u.cur = t.cur
            \/ /\ u.pc = more /\ u.cur \in t.todo /\ u.todo = t.todo \ {u.cur}
<1>1. CASE t.todo = {}
  <2>1. u = [t EXCEPT !.pc = after]
    BY <1>1 DEF Step
  <2>. QED
    BY <1>1, <2>1 DEF TxRecord
<1>2. CASE t.todo # {}
  <2>1. PICK k \in t.todo : u = [t EXCEPT !.pc = more, !.cur = k, !.todo = t.todo \ {k}]
    BY <1>2 DEF Step
  <2>2. k \in Keys /\ t.todo \ {k} \in SUBSET Keys
    BY DEF TxRecord
  <2>. QED
    BY <2>1, <2>2 DEF TxRecord
<1>. QED
  BY <1>1, <1>2

\* The locking loop starts at a key of the demand, or has nothing to lock.
LEMMA StartLockingType ==
  ASSUME NEW t \in TxRecord, NEW u \in StartLocking(t)
  PROVE  /\ u \in TxRecord
         /\ u.kind = t.kind /\ u.amount = t.amount /\ u.target = t.target
         /\ u.seen = t.seen /\ u.loaded = t.loaded /\ u.read = t.read
         /\ \/ /\ Support(t.amount) = {} /\ u.pc = "commit"
            \/ /\ u.pc = "lock" /\ u.cur \in Support(t.amount)
               /\ u.todo = Support(t.amount) \ {u.cur}
<1>. DEFINE v == [t EXCEPT !.todo = Support(t.amount)]
<1>1. v \in TxRecord /\ u \in Step(v, "lock", "commit")
  BY SupportKeys DEF StartLocking, TxRecord
<1>2. /\ v.kind = t.kind /\ v.amount = t.amount /\ v.target = t.target
      /\ v.seen = t.seen /\ v.loaded = t.loaded /\ v.read = t.read
      /\ v.todo = Support(t.amount)
  BY DEF TxRecord
<1>. HIDE DEF v
<1>. QED
  BY <1>1, <1>2, StepType DEF Phases

\* A SELECT keeps the type, and reads the committed value of the rows that the
\* identity map does not have.
LEMMA SelectType ==
  ASSUME NEW t \in TxRecord, NEW K \in SUBSET Keys, stock \in [Keys -> Nat]
  PROVE  /\ Select(t, K) \in TxRecord
         /\ Select(t, K).pc = t.pc /\ Select(t, K).kind = t.kind
         /\ Select(t, K).amount = t.amount /\ Select(t, K).target = t.target
         /\ Select(t, K).seen = t.seen /\ Select(t, K).cur = t.cur
         /\ Select(t, K).todo = t.todo /\ Select(t, K).loaded = t.loaded \cup K
         /\ \A k \in Keys : Select(t, K).read[k] =
              IF k \in K \ t.loaded THEN stock[k] ELSE t.read[k]
BY DEF Select, TxRecord

\* A transaction writes quantities, never negative ones, and its movement rows
\* carry integers.
LEMMA WrittenType ==
  ASSUME NEW t \in TxRecord, NEW k \in Keys
  PROVE  Written(t, k) \in Nat /\ Movement(t, k) \in Int
BY DEF Written, Movement, TxRecord, AllHandlers

\* One session's record changes.
LEMMA GotoType ==
  ASSUME TypeOK, NEW s \in Sessions, NEW t \in TxRecord, Goto(s, t)
  PROVE  /\ tx' \in [Sessions -> TxRecord]
         /\ tx'[s] = t
         /\ \A r \in Sessions : r # s => tx'[r] = tx[r]
BY DEF TypeOK, Goto

\* The row locks of one session are released.
LEMMA EndType ==
  ASSUME TypeOK, NEW s \in Sessions, End(s)
  PROVE  /\ tx' \in [Sessions -> TxRecord]
         /\ tx'[s] = [Fresh(s) EXCEPT !.pc = "done"]
         /\ \A r \in Sessions : r # s => tx'[r] = tx[r]
         /\ lockedBy' \in [Keys -> Sessions \cup {NoSession}]
         /\ \A k \in Keys : lockedBy'[k] = IF lockedBy[k] = s THEN NoSession ELSE lockedBy[k]
<1>1. [Fresh(s) EXCEPT !.pc = "done"] \in TxRecord
  BY FreshType
<1>. QED
  BY <1>1, GotoType DEF End, Release, TypeOK

\* COMMIT changes the rows the session holds, to quantities.
LEMMA CommitType ==
  ASSUME TypeOK, NEW s \in Sessions, CommitStock(s)
  PROVE  /\ stock' \in [Keys -> Nat] /\ net' \in [Keys -> Int] /\ End(s)
         /\ \A k \in Keys :
              /\ stock'[k] = IF lockedBy[k] = s THEN Written(tx[s], k) ELSE stock[k]
              /\ net'[k] = IF lockedBy[k] = s THEN net[k] + Movement(tx[s], k) ELSE net[k]
<1>1. \A k \in Keys : Written(tx[s], k) \in Nat /\ Movement(tx[s], k) \in Int
  BY WrittenType DEF TypeOK
<1>. QED
  BY <1>1 DEF CommitStock, TypeOK

-----------------------------------------------------------------------------
(***************************************************************************)
(* Types.                                                                  *)
(***************************************************************************)

LEMMA InitType == Init => TypeOK
<1>. SUFFICES ASSUME Init PROVE TypeOK
  OBVIOUS
<1>1. stock \in [Keys -> Nat]
  BY StockAssumption DEF Init
<1>2. Nothing \in [Keys -> Nat] /\ Nothing \in [Keys -> Int]
  BY DEF Nothing
<1>3. [status |-> "none", items |-> Nothing] \in [status : Statuses, items : [Keys -> Nat]]
  BY <1>2 DEF Statuses
<1>4. tx \in [Sessions -> TxRecord]
  BY FreshType DEF Init
<1>. QED
  BY <1>1, <1>2, <1>3, <1>4 DEF Init, TypeOK

LEMMA BeginType ==
  ASSUME TypeOK, NEW s \in Sessions, Begin(s)
  PROVE  TypeOK'
<1>0. tx[s] \in TxRecord
  BY DEF TypeOK
<1>1. ASSUME NEW t \in TxRecord, Goto(s, t), UNCHANGED Rows
      PROVE  TypeOK'
  BY <1>1, GotoType DEF TypeOK, Rows
<1>2. CASE BeginCheckout(s)
  <2>1. PICK c \in Carts :
          \E t \in StartLocking([tx[s] EXCEPT !.kind = "checkout", !.amount = c]) : Goto(s, t)
    BY <1>2 DEF BeginCheckout
  <2>2. [tx[s] EXCEPT !.kind = "checkout", !.amount = c] \in TxRecord
    BY <1>0, CartsAssumption DEF TxRecord, AllHandlers
  <2>. QED
    BY <1>1, <1>2, <2>1, <2>2, StartLockingType DEF BeginCheckout
<1>3. CASE BeginWebOrder(s)
  <2>. DEFINE T(c) == [tx[s] EXCEPT !.kind = "web", !.amount = c, !.todo = Support(c)]
  <2>1. PICK c \in Carts : \E t \in Step(T(c), "preload", "lock") : Goto(s, t)
    BY <1>3 DEF BeginWebOrder
  <2>2. T(c) \in TxRecord
    BY <1>0, CartsAssumption, SupportKeys DEF TxRecord, AllHandlers
  <2>. QED
    BY <1>1, <1>3, <2>1, <2>2, StepType, SMTT(30) DEF BeginWebOrder, Phases
<1>4. ASSUME NEW o \in Sessions, NEW kd \in AllHandlers, StartReturning(s, o, kd),
             UNCHANGED Rows
      PROVE  TypeOK'
  <2>. DEFINE T == [tx[s] EXCEPT !.kind = kd, !.target = o, !.seen = order[o].status,
                                 !.amount = order[o].items, !.todo = Support(order[o].items)]
  <2>1. T \in TxRecord
    BY <1>0, SupportKeys DEF TxRecord, TypeOK
  <2>2. PICK t \in Step(T, "read", "commit") : Goto(s, t)
    BY <1>4 DEF StartReturning
  <2>. QED
    BY <1>1, <1>4, <2>1, <2>2, StepType, SMTT(30) DEF Phases
<1>5. CASE BeginClientCancel(s) \/ BeginOwnerCancel(s)
  BY <1>4, <1>5 DEF BeginClientCancel, BeginOwnerCancel, AllHandlers
<1>6. CASE BeginSetStock(s)
  <2>1. PICK k \in Keys, q \in 0..MaxCount :
          Goto(s, [tx[s] EXCEPT !.kind = "set_stock", !.pc = "read", !.cur = k,
                                !.amount = [Nothing EXCEPT ![k] = q]])
    BY <1>6 DEF BeginSetStock
  <2>2. [Nothing EXCEPT ![k] = q] \in [Keys -> Nat]
    BY StockAssumption DEF Nothing
  <2>3. [tx[s] EXCEPT !.kind = "set_stock", !.pc = "read", !.cur = k,
                      !.amount = [Nothing EXCEPT ![k] = q]] \in TxRecord
    BY <1>0, <2>2 DEF TxRecord, AllHandlers, Phases
  <2>. QED
    BY <1>1, <1>6, <2>1, <2>3 DEF BeginSetStock
<1>7. CASE OwnerDone(s)
  <2>1. order' \in [Sessions -> [status : Statuses, items : [Keys -> Nat]]]
    BY <1>7 DEF OwnerDone, TypeOK, Statuses
  <2>2. [Fresh(s) EXCEPT !.pc = "done"] \in TxRecord
    BY FreshType
  <2>. QED
    BY <1>7, <2>1, <2>2, GotoType DEF OwnerDone, TypeOK
<1>. QED
  BY <1>2, <1>3, <1>5, <1>6, <1>7 DEF Begin

LEMMA EndsType ==
  ASSUME TypeOK, NEW s \in Sessions,
         Rollback(s) \/ PlaceOrder(s) \/ FinishCancel(s) \/ FinishSetStock(s)
  PROVE  TypeOK'
<1>0. ASSUME CommitStock(s),
             order' \in [Sessions -> [status : Statuses, items : [Keys -> Nat]]]
      PROVE  TypeOK'
  <2>1. stock' \in [Keys -> Nat] /\ net' \in [Keys -> Int] /\ End(s)
    BY <1>0, CommitType
  <2>2. tx' \in [Sessions -> TxRecord] /\ lockedBy' \in [Keys -> Sessions \cup {NoSession}]
    BY <2>1, EndType
  <2>. QED
    BY <1>0, <2>1, <2>2 DEF TypeOK
<1>1. CASE Rollback(s)
  <2>1. tx' \in [Sessions -> TxRecord] /\ lockedBy' \in [Keys -> Sessions \cup {NoSession}]
    BY <1>1, EndType DEF Rollback
  <2>. QED
    BY <1>1, <2>1 DEF Rollback, TypeOK
<1>2. CASE PlaceOrder(s)
  <2>1. order' \in [Sessions -> [status : Statuses, items : [Keys -> Nat]]]
    BY <1>2 DEF PlaceOrder, TypeOK, Statuses, TxRecord
  <2>. QED
    BY <1>0, <1>2, <2>1 DEF PlaceOrder
<1>3. CASE FinishCancel(s)
  <2>1. order' \in [Sessions -> [status : Statuses, items : [Keys -> Nat]]]
    BY <1>3 DEF FinishCancel, TypeOK, Statuses
  <2>. QED
    BY <1>0, <1>3, <2>1 DEF FinishCancel
<1>4. CASE FinishSetStock(s)
  BY <1>0, <1>4 DEF FinishSetStock, TypeOK
<1>. QED
  BY <1>1, <1>2, <1>3, <1>4

LEMMA ProgressType ==
  ASSUME TypeOK, NEW s \in Sessions, Progress(s)
  PROVE  TypeOK'
<1>0. tx[s] \in TxRecord /\ stock \in [Keys -> Nat] /\ tx[s].cur \in Keys
  BY DEF TypeOK, TxRecord
<1>1. ASSUME NEW t \in TxRecord, Goto(s, t), UNCHANGED <<stock, net, order>>,
             lockedBy' \in [Keys -> Sessions \cup {NoSession}]
      PROVE  TypeOK'
  BY <1>1, GotoType DEF TypeOK
<1>2. lockedBy' = lockedBy => lockedBy' \in [Keys -> Sessions \cup {NoSession}]
  BY DEF TypeOK
<1>3. lockedBy' = [lockedBy EXCEPT ![tx[s].cur] = s]
        => lockedBy' \in [Keys -> Sessions \cup {NoSession}]
  BY DEF TypeOK
<1>4. \A t \in TxRecord, p \in Phases : [t EXCEPT !.pc = p] \in TxRecord
  BY DEF TxRecord
<1>20. \A t \in TxRecord : \A u \in Step(t, "lock", "commit") : u \in TxRecord
  BY StepType DEF Phases
<1>21. \A t \in TxRecord : \A u \in Step(t, "preload", "lock") : u \in TxRecord
  BY StepType DEF Phases
<1>22. \A t \in TxRecord : \A u \in StartLocking(t) : u \in TxRecord
  BY StartLockingType
<1>23. \A t \in TxRecord : [t EXCEPT !.pc = "closing"] \in TxRecord
  BY <1>4 DEF Phases
<1>5. \A K \in SUBSET Keys : Select(tx[s], K) \in TxRecord
  BY <1>0, SelectType
<1>6. CASE PreloadProduct(s)
  <2>1. Siblings(tx[s].cur) \in SUBSET Keys
    BY DEF Siblings
  <2>2. PICK p \in Phases : Goto(s, [Select(tx[s], Siblings(tx[s].cur)) EXCEPT !.pc = p])
    BY <1>6 DEF PreloadProduct, Phases
  <2>3. UNCHANGED Rows
    BY <1>6 DEF PreloadProduct
  <2>. QED
    BY <1>1, <1>2, <1>4, <1>5, <2>1, <2>2, <2>3 DEF Rows
<1>7. CASE Precheck(s)
  <2>1. PICK u \in TxRecord : Goto(s, u)
    <3>1. \/ \E u \in StartLocking(tx[s]) : Goto(s, u)
          \/ \E u \in Step(tx[s], "preload", "lock") : Goto(s, u)
          \/ Goto(s, [tx[s] EXCEPT !.pc = "closing"])
      BY <1>7 DEF Precheck
    <3>. QED
      BY <1>0, <1>21, <1>22, <1>23, <3>1
  <2>2. UNCHANGED Rows
    BY <1>7 DEF Precheck
  <2>. QED
    BY <1>1, <1>2, <2>1, <2>2 DEF Rows
<1>8. CASE LockRow(s)
  <2>. DEFINE t == Select(tx[s], {tx[s].cur})
  <2>1. t \in TxRecord
    BY <1>0, <1>5
  <2>2. Goto(s, [t EXCEPT !.pc = "closing"]) \/ \E u \in Step(t, "lock", "commit") : Goto(s, u)
    BY <1>8 DEF LockRow
  <2>. HIDE DEF t
  <2>3. PICK u \in TxRecord : Goto(s, u)
    BY <1>20, <1>23, <2>1, <2>2
  <2>. QED
    BY <1>1, <1>3, <1>8, <2>3 DEF LockRow
<1>9. CASE ReadRow(s)
  <2>1. [Select(tx[s], {tx[s].cur}) EXCEPT !.pc = "write"] \in TxRecord
    BY <1>0, <1>4, <1>5 DEF Phases
  <2>. QED
    BY <1>1, <1>2, <1>9, <2>1 DEF ReadRow, Rows
<1>10. CASE WriteRow(s)
  <2>1. PICK u \in Step(tx[s], "read", "commit") : Goto(s, u)
    BY <1>10 DEF WriteRow
  <2>2. u \in TxRecord
    BY <1>0, StepType DEF Phases
  <2>3. lockedBy' = lockedBy \/ lockedBy' = [lockedBy EXCEPT ![tx[s].cur] = s]
    BY <1>10 DEF WriteRow
  <2>. QED
    BY <1>1, <1>2, <1>3, <1>10, <2>1, <2>2, <2>3 DEF WriteRow
<1>11. CASE CloseRefused(s) \/ DeadlockAbort(s)
  BY <1>11, EndsType DEF CloseRefused, DeadlockAbort
<1>12. CASE PlaceOrder(s) \/ FinishCancel(s) \/ FinishSetStock(s)
  BY <1>12, EndsType
<1>. QED
  BY <1>6, <1>7, <1>8, <1>9, <1>10, <1>11, <1>12 DEF Progress

LEMMA NextType == TypeOK /\ [Next]_vars => TypeOK'
<1>. SUFFICES ASSUME TypeOK, [Next]_vars PROVE TypeOK'
  OBVIOUS
<1>1. CASE UNCHANGED vars
  BY <1>1 DEF vars, TypeOK
<1>2. ASSUME NEW s \in Sessions, Fail(s) PROVE TypeOK'
  BY <1>2, EndsType DEF Fail
<1>. QED
  BY <1>1, <1>2, BeginType, ProgressType DEF Next, Terminated

\* In every reachable state quantities are non-negative, the sums of movements
\* are integers, and rows, orders and sessions have the shape the code gives
\* them: no interleaving of the handlers drives a quantity below zero.
THEOREM TypeCorrect == Spec => []TypeOK
  BY InitType, NextType, PTL DEF Spec

-----------------------------------------------------------------------------
(***************************************************************************)
(* The inductive invariant.                                                *)
(***************************************************************************)

\* All that is known of one session: how far its locks go, that a dialogue's
\* checkout computes with committed quantities, and why it was refused. That
\* it still holds the row it was refused for is what keeps the reason true.
Good(s) ==
  /\ SessionInv(s)
  /\ tx[s].kind = "checkout" =>
       \A k \in Keys : lockedBy[k] = s => k \in tx[s].loaded /\ tx[s].read[k] = stock[k]
  /\ tx[s].kind = "checkout" /\ tx[s].pc = "closing" =>
       /\ lockedBy[tx[s].cur] = s
       /\ stock[tx[s].cur] < tx[s].amount[tx[s].cur]

IInv == TypeOK /\ \A s \in Sessions : Good(s)

\* What a step of session s leaves alone: other sessions' records and locks, the
\* quantities of rows it has not locked, and the existence of orders.
OnlyOwn(s) ==
  /\ \A r \in Sessions \ {s} :
       /\ tx'[r] = tx[r]
       /\ \A k \in Keys : lockedBy'[k] = r <=> lockedBy[k] = r
  /\ \A k \in Keys : lockedBy[k] # s => stock'[k] = stock[k]
  /\ \A o \in Sessions : order[o].status # "none" => order'[o].status # "none"

\* A step that leaves the others alone keeps what is known of them.
LEMMA Frame ==
  ASSUME IInv, NEW s \in Sessions, OnlyOwn(s), NEW r \in Sessions, r # s
  PROVE  Good(r)'
<1>1. /\ tx'[r] = tx[r]
      /\ \A k \in Keys : lockedBy'[k] = r <=> lockedBy[k] = r
      /\ \A k \in Keys : lockedBy[k] = r => stock'[k] = stock[k]
      /\ \A o \in Sessions : order[o].status # "none" => order'[o].status # "none"
  BY DEF OnlyOwn
<1>2. Good(r) /\ tx[r] \in TxRecord
  BY DEF IInv, TypeOK
<1>3. tx[r].cur \in Keys /\ tx[r].target \in Sessions /\ tx[r].loaded \in SUBSET Keys
  BY <1>2 DEF TxRecord
<1>4. SessionInv(r)'
  BY <1>1, <1>2, <1>3 DEF Good, SessionInv, IsSale, Support
<1>. QED
  BY <1>1, <1>2, <1>3, <1>4 DEF Good

\* A session that ends leaves the others alone and holds nothing.
LEMMA EndGood ==
  ASSUME IInv, NEW s \in Sessions, End(s),
         \A k \in Keys : lockedBy[k] # s => stock'[k] = stock[k],
         \A o \in Sessions : order[o].status # "none" => order'[o].status # "none"
  PROVE  OnlyOwn(s) /\ Good(s)'
<1>0. TypeOK
  BY DEF IInv
<1>1. /\ tx'[s].pc = "done" /\ tx'[s].kind = "checkout" /\ tx'[s].loaded = {}
      /\ \A r \in Sessions : r # s => tx'[r] = tx[r]
      /\ \A k \in Keys : lockedBy'[k] = IF lockedBy[k] = s THEN NoSession ELSE lockedBy[k]
  BY <1>0, EndType, FreshType
<1>2. NoSession \notin Sessions
  BY SessionsAssumption
<1>3. OnlyOwn(s)
  BY <1>1, <1>2 DEF OnlyOwn
<1>4. SessionInv(s)'
  BY <1>1, <1>2 DEF SessionInv, IsSale
<1>. QED
  BY <1>1, <1>2, <1>3, <1>4 DEF Good

\* A session that takes at most one free row, and nothing else that is shared.
LEMMA GotoFrame ==
  ASSUME IInv, NEW s \in Sessions, NEW t \in TxRecord, Goto(s, t),
         UNCHANGED <<stock, order>>,
         \/ lockedBy' = lockedBy
         \/ \E k \in Keys : lockedBy[k] = NoSession /\ lockedBy' = [lockedBy EXCEPT ![k] = s]
  PROVE  OnlyOwn(s) /\ tx'[s] = t
<1>1. tx'[s] = t /\ \A r \in Sessions : r # s => tx'[r] = tx[r]
  BY GotoType DEF IInv
<1>2. NoSession \notin Sessions /\ lockedBy \in [Keys -> Sessions \cup {NoSession}]
  BY SessionsAssumption DEF IInv, TypeOK
<1>3. \A r \in Sessions \ {s}, k \in Keys : lockedBy'[k] = r <=> lockedBy[k] = r
  BY <1>2
<1>. QED
  BY <1>1, <1>3 DEF OnlyOwn

\* Before its first lock a session knows nothing and holds nothing.
LEMMA IdleGood ==
  ASSUME IInv, NEW s \in Sessions, tx[s].pc = "idle"
  PROVE  /\ tx[s] \in TxRecord /\ tx[s].kind = "checkout" /\ tx[s].loaded = {}
         /\ \A k \in Keys : lockedBy[k] # s
<1>1. tx[s] \in TxRecord /\ Good(s)
  BY DEF IInv, TypeOK
<1>. QED
  BY <1>1 DEF Good, SessionInv, TxRecord

\* A sale that starts its locking loop with no lock held.
LEMMA StartLockingGood ==
  ASSUME IInv, NEW s \in Sessions, NEW t \in TxRecord, NEW u \in StartLocking(t),
         t.kind \in {"checkout", "web"}, t.kind = "checkout" => t.loaded = {},
         \A k \in Keys : lockedBy[k] # s,
         lockedBy' = lockedBy, tx'[s] = u
  PROVE  Good(s)'
<1>1. /\ u \in TxRecord /\ u.kind = t.kind /\ u.amount = t.amount /\ u.loaded = t.loaded
      /\ \/ /\ Support(t.amount) = {} /\ u.pc = "commit"
         \/ /\ u.pc = "lock" /\ u.cur \in Support(t.amount)
            /\ u.todo = Support(t.amount) \ {u.cur}
  BY StartLockingType
<1>2. Support(u.amount) = {k \in Support(u.amount) : lockedBy[k] # s}
  BY SupportKeys
<1>3. SessionInv(s)'
  BY <1>1, <1>2, SupportKeys DEF SessionInv, IsSale
<1>. QED
  BY <1>1, <1>3 DEF Good

LEMMA BeginGood ==
  ASSUME IInv, NEW s \in Sessions, Begin(s)
  PROVE  OnlyOwn(s) /\ Good(s)'
<1>0. TypeOK
  BY DEF IInv
<1>1. tx[s].pc = "idle"
  BY DEF Begin, BeginCheckout, BeginWebOrder, BeginClientCancel, BeginOwnerCancel,
         BeginSetStock, OwnerDone
<1>2. /\ tx[s] \in TxRecord /\ tx[s].kind = "checkout" /\ tx[s].loaded = {}
      /\ \A k \in Keys : lockedBy[k] # s
  BY <1>1, IdleGood
<1>3. ASSUME NEW t \in TxRecord, Goto(s, t), UNCHANGED Rows
      PROVE  OnlyOwn(s) /\ tx'[s] = t
  BY <1>3, GotoFrame DEF Rows
<1>4. CASE BeginCheckout(s)
  <2>. DEFINE T(c) == [tx[s] EXCEPT !.kind = "checkout", !.amount = c]
  <2>1. PICK c \in Carts : \E t \in StartLocking(T(c)) : Goto(s, t)
    BY <1>4 DEF BeginCheckout
  <2>2. T(c) \in TxRecord /\ T(c).kind = "checkout" /\ T(c).loaded = {}
    BY <1>2, CartsAssumption DEF TxRecord, AllHandlers
  <2>. HIDE DEF T
  <2>3. PICK u \in StartLocking(T(c)) : Goto(s, u)
    BY <2>1
  <2>4. u \in TxRecord /\ UNCHANGED Rows
    BY <1>4, <2>2, StartLockingType DEF BeginCheckout
  <2>5. OnlyOwn(s) /\ tx'[s] = u
    BY <1>3, <2>3, <2>4
  <2>. QED
    BY <1>2, <2>2, <2>4, <2>5, StartLockingGood DEF Rows
<1>5. CASE BeginWebOrder(s)
  <2>. DEFINE T(c) == [tx[s] EXCEPT !.kind = "web", !.amount = c, !.todo = Support(c)]
  <2>1. PICK c \in Carts : \E t \in Step(T(c), "preload", "lock") : Goto(s, t)
    BY <1>5 DEF BeginWebOrder
  <2>2. T(c) \in TxRecord /\ T(c).kind = "web" /\ T(c).todo # {}
    BY <1>2, CartsAssumption, SupportKeys DEF TxRecord, AllHandlers, Support
  <2>. HIDE DEF T
  <2>3. PICK u \in Step(T(c), "preload", "lock") : Goto(s, u)
    BY <2>1
  <2>4. u \in TxRecord /\ u.kind = "web" /\ u.pc = "preload"
    BY <2>2, StepType DEF Phases
  <2>5. OnlyOwn(s) /\ tx'[s] = u /\ lockedBy' = lockedBy
    BY <1>3, <1>5, <2>3, <2>4 DEF BeginWebOrder, Rows
  <2>. QED
    BY <1>2, <2>4, <2>5 DEF Good, SessionInv, IsSale
<1>6. ASSUME NEW u \in TxRecord, Goto(s, u), UNCHANGED Rows,
             u.pc \in {"read", "commit"},
             u.kind \in {"client_cancel", "owner_cancel", "set_stock"},
             u.kind # "set_stock" => order[u.target].status # "none"
      PROVE  OnlyOwn(s) /\ Good(s)'
  <2>1. OnlyOwn(s) /\ tx'[s] = u /\ lockedBy' = lockedBy /\ order' = order
    BY <1>3, <1>6 DEF Rows
  <2>. QED
    BY <1>6, <2>1 DEF Good, SessionInv, IsSale
<1>7. ASSUME NEW o \in Sessions, NEW kd \in {"client_cancel", "owner_cancel"},
             StartReturning(s, o, kd), order[o].status # "none", UNCHANGED Rows
      PROVE  OnlyOwn(s) /\ Good(s)'
  <2>. DEFINE T == [tx[s] EXCEPT !.kind = kd, !.target = o, !.seen = order[o].status,
                                 !.amount = order[o].items, !.todo = Support(order[o].items)]
  <2>1. T \in TxRecord /\ T.kind = kd /\ T.target = o
    BY <1>0, <1>2, SupportKeys DEF TxRecord, TypeOK, AllHandlers
  <2>2. PICK u \in Step(T, "read", "commit") : Goto(s, u)
    BY <1>7 DEF StartReturning
  <2>. HIDE DEF T
  <2>3. /\ u \in TxRecord /\ u.kind = kd /\ u.target = o /\ u.pc \in {"read", "commit"}
    BY <2>1, StepType DEF Phases
  <2>. QED
    BY <1>6, <1>7, <2>2, <2>3
<1>8. CASE BeginClientCancel(s) \/ BeginOwnerCancel(s)
  <2>1. PICK o \in Sessions, kd \in {"client_cancel", "owner_cancel"} :
          order[o].status # "none" /\ StartReturning(s, o, kd)
    BY <1>8 DEF BeginClientCancel, BeginOwnerCancel
  <2>. QED
    BY <1>7, <1>8, <2>1 DEF BeginClientCancel, BeginOwnerCancel
<1>9. CASE BeginSetStock(s)
  <2>. DEFINE T(k, q) == [tx[s] EXCEPT !.kind = "set_stock", !.pc = "read", !.cur = k,
                                       !.amount = [Nothing EXCEPT ![k] = q]]
  <2>1. PICK k \in Keys, q \in 0..MaxCount : Goto(s, T(k, q))
    BY <1>9 DEF BeginSetStock
  <2>2. [Nothing EXCEPT ![k] = q] \in [Keys -> Nat]
    BY StockAssumption DEF Nothing
  <2>3. T(k, q) \in TxRecord /\ T(k, q).kind = "set_stock" /\ T(k, q).pc = "read"
    BY <1>2, <2>2 DEF TxRecord, AllHandlers, Phases
  <2>. HIDE DEF T
  <2>. QED
    BY <1>6, <1>9, <2>1, <2>3 DEF BeginSetStock
<1>10. CASE OwnerDone(s)
  <2>1. /\ [Fresh(s) EXCEPT !.pc = "done"] \in TxRecord
        /\ Goto(s, [Fresh(s) EXCEPT !.pc = "done"]) /\ UNCHANGED <<stock, lockedBy>>
    BY <1>10, FreshType DEF OwnerDone
  <2>2. /\ tx'[s].pc = "done" /\ tx'[s].kind = "checkout" /\ tx'[s].loaded = {}
        /\ \A r \in Sessions : r # s => tx'[r] = tx[r]
    BY <1>0, <2>1, GotoType, FreshType
  <2>3. \A o \in Sessions : order[o].status # "none" => order'[o].status # "none"
    BY <1>0, <1>10 DEF OwnerDone, TypeOK
  <2>4. OnlyOwn(s)
    BY <2>1, <2>2, <2>3 DEF OnlyOwn
  <2>5. SessionInv(s)'
    BY <1>2, <2>1, <2>2 DEF SessionInv, IsSale
  <2>. QED
    BY <1>2, <2>1, <2>2, <2>4, <2>5 DEF Good
<1>. QED
  BY <1>4, <1>5, <1>8, <1>9, <1>10 DEF Begin

LEMMA LockRowGood ==
  ASSUME IInv, NEW s \in Sessions, LockRow(s)
  PROVE  OnlyOwn(s) /\ Good(s)'
<1>. DEFINE c == tx[s].cur
            t == Select(tx[s], {c})
<1>0. TypeOK /\ Good(s) /\ tx[s] \in TxRecord /\ stock \in [Keys -> Nat]
  BY DEF IInv, TypeOK
<1>1. /\ tx[s].pc = "lock" /\ lockedBy[c] = NoSession
      /\ lockedBy' = [lockedBy EXCEPT ![c] = s] /\ UNCHANGED <<stock, net, order>>
  BY DEF LockRow
<1>2. c \in Keys /\ s # NoSession /\ lockedBy \in [Keys -> Sessions \cup {NoSession}]
  BY <1>0, SessionsAssumption DEF TxRecord, TypeOK
<1>3. \A k \in Keys : lockedBy'[k] = IF k = c THEN s ELSE lockedBy[k]
  BY <1>1, <1>2
<1>4. /\ tx[s].kind \in {"checkout", "web"}
      /\ c \notin tx[s].todo
      /\ tx[s].todo \cup {c} = {k \in Support(tx[s].amount) : lockedBy[k] # s}
      /\ \A k \in Keys : lockedBy[k] = s =>
           tx[s].amount[k] > 0 /\ tx[s].amount[k] <= tx[s].read[k]
      /\ tx[s].kind = "checkout" =>
           /\ \A k \in tx[s].loaded : lockedBy[k] = s
           /\ \A k \in Keys : lockedBy[k] = s =>
                k \in tx[s].loaded /\ tx[s].read[k] = stock[k]
  BY <1>0, <1>1 DEF Good, SessionInv, IsSale
<1>5. c \in Support(tx[s].amount) /\ tx[s].amount[c] > 0
  BY <1>4 DEF Support
<1>6. /\ t \in TxRecord /\ t.kind = tx[s].kind /\ t.amount = tx[s].amount
      /\ t.cur = c /\ t.todo = tx[s].todo /\ t.loaded = tx[s].loaded \cup {c}
      /\ \A k \in Keys : t.read[k] = IF k \in {c} \ tx[s].loaded THEN stock[k] ELSE tx[s].read[k]
  BY <1>0, <1>2, SelectType
<1>7. \/ t.read[c] < t.amount[c] /\ Goto(s, [t EXCEPT !.pc = "closing"])
      \/ ~(t.read[c] < t.amount[c]) /\ \E u \in Step(t, "lock", "commit") : Goto(s, u)
  <2>1. IF t.read[t.cur] < t.amount[t.cur]
        THEN Goto(s, [t EXCEPT !.pc = "closing"])
        ELSE \E u \in Step(t, "lock", "commit") : Goto(s, u)
    BY DEF LockRow
  <2>2. t.cur = c
    BY <1>6
  <2>. HIDE DEF t, c
  <2>. QED
    BY <2>1, <2>2
<1>. HIDE DEF t, c
<1>8. /\ \A k \in Keys : lockedBy'[k] = s => t.amount[k] > 0
      /\ t.kind = "checkout" =>
           /\ \A k \in t.loaded : lockedBy'[k] = s
           /\ \A k \in Keys : lockedBy'[k] = s => k \in t.loaded /\ t.read[k] = stock[k]
  <2>1. \A k \in Keys : lockedBy'[k] = s => t.amount[k] > 0
    BY <1>3, <1>4, <1>5, <1>6
  <2>2. ASSUME t.kind = "checkout"
        PROVE  /\ \A k \in t.loaded : lockedBy'[k] = s
               /\ \A k \in Keys : lockedBy'[k] = s => k \in t.loaded /\ t.read[k] = stock[k]
    <3>1. c \notin tx[s].loaded
      BY <1>1, <1>2, <1>4, <1>6, <2>2
    <3>2. t.loaded \in SUBSET Keys
      BY <1>6 DEF TxRecord
    <3>. QED
      BY <1>2, <1>3, <1>4, <1>6, <2>2, <3>1, <3>2
  <2>. QED
    BY <2>1, <2>2
<1>9. ASSUME NEW u \in TxRecord, Goto(s, u) PROVE OnlyOwn(s) /\ tx'[s] = u
  BY <1>1, <1>2, <1>9, GotoFrame
<1>10. CASE t.read[c] < t.amount[c] /\ Goto(s, [t EXCEPT !.pc = "closing"])
  <2>. DEFINE u == [t EXCEPT !.pc = "closing"]
  <2>1. /\ u \in TxRecord /\ u.pc = "closing" /\ u.kind = t.kind /\ u.amount = t.amount
        /\ u.cur = t.cur /\ u.loaded = t.loaded /\ u.read = t.read
    BY <1>6 DEF TxRecord, Phases
  <2>. HIDE DEF u
  <2>2. OnlyOwn(s) /\ tx'[s] = u
    BY <1>9, <1>10, <2>1 DEF u
  <2>3. SessionInv(s)'
    BY <1>4, <1>6, <1>8, <2>1, <2>2 DEF SessionInv, IsSale
  <2>4. lockedBy'[c] = s
    BY <1>2, <1>3
  <2>. QED
    BY <1>1, <1>2, <1>6, <1>8, <1>10, <2>1, <2>2, <2>3, <2>4 DEF Good
<1>11. CASE ~(t.read[c] < t.amount[c]) /\ \E u \in Step(t, "lock", "commit") : Goto(s, u)
  <2>1. PICK u \in Step(t, "lock", "commit") : Goto(s, u)
    BY <1>11
  <2>2. /\ u \in TxRecord /\ u.kind = t.kind /\ u.amount = t.amount
        /\ u.loaded = t.loaded /\ u.read = t.read
        /\ \/ /\ t.todo = {} /\ u.pc = "commit"
           \/ /\ u.pc = "lock" /\ u.cur \in t.todo /\ u.todo = t.todo \ {u.cur}
    BY <1>6, StepType DEF Phases
  <2>3. OnlyOwn(s) /\ tx'[s] = u
    BY <1>9, <2>1, <2>2
  <2>4. \A k \in Keys : lockedBy'[k] = s => u.amount[k] <= u.read[k]
    <3>1. t.amount[c] <= t.read[c]
      BY <1>2, <1>6, <1>11 DEF TxRecord
    <3>. QED
      BY <1>2, <1>3, <1>4, <1>6, <2>2, <3>1
  <2>5. {k \in Support(u.amount) : lockedBy'[k] # s} = t.todo
    BY <1>2, <1>3, <1>4, <1>6, <2>2, SupportKeys
  <2>6. SessionInv(s)'
    BY <1>4, <1>6, <1>8, <2>2, <2>3, <2>4, <2>5, SupportKeys DEF SessionInv, IsSale
  <2>. QED
    BY <1>1, <1>8, <2>2, <2>3, <2>6 DEF Good
<1>. QED
  BY <1>7, <1>10, <1>11

LEMMA WebReadsGood ==
  ASSUME IInv, NEW s \in Sessions, PreloadProduct(s) \/ Precheck(s)
  PROVE  OnlyOwn(s) /\ Good(s)'
<1>0. /\ Good(s) /\ tx[s] \in TxRecord /\ stock \in [Keys -> Nat]
      /\ tx[s].pc \in {"preload", "precheck"} /\ UNCHANGED Rows
  BY DEF IInv, TypeOK, PreloadProduct, Precheck
<1>1. tx[s].kind = "web" /\ \A k \in Keys : lockedBy[k] # s
  BY <1>0 DEF Good, SessionInv
<1>2. ASSUME NEW u \in TxRecord, Goto(s, u)
      PROVE  OnlyOwn(s) /\ tx'[s] = u /\ lockedBy' = lockedBy
  BY <1>0, <1>2, GotoFrame DEF Rows
<1>3. ASSUME NEW u \in TxRecord, Goto(s, u), u.kind = "web",
             u.pc \in {"preload", "precheck", "closing"}
      PROVE  OnlyOwn(s) /\ Good(s)'
  BY <1>1, <1>2, <1>3 DEF Good, SessionInv, IsSale
<1>4. CASE PreloadProduct(s)
  <2>. DEFINE t == Select(tx[s], Siblings(tx[s].cur))
  <2>1. Siblings(tx[s].cur) \in SUBSET Keys
    BY DEF Siblings
  <2>2. t \in TxRecord /\ t.kind = "web"
    BY <1>0, <1>1, <2>1, SelectType
  <2>3. PICK p \in {"precheck", "closing"} : Goto(s, [t EXCEPT !.pc = p])
    BY <1>4 DEF PreloadProduct
  <2>. HIDE DEF t
  <2>4. /\ [t EXCEPT !.pc = p] \in TxRecord
        /\ [t EXCEPT !.pc = p].kind = "web" /\ [t EXCEPT !.pc = p].pc = p
    BY <2>2 DEF TxRecord, Phases
  <2>. QED
    BY <1>3, <2>3, <2>4
<1>5. CASE Precheck(s)
  <2>1. \/ tx[s].todo = {} /\ \E u \in StartLocking(tx[s]) : Goto(s, u)
        \/ tx[s].todo # {} /\ \E u \in Step(tx[s], "preload", "lock") : Goto(s, u)
        \/ Goto(s, [tx[s] EXCEPT !.pc = "closing"])
    BY <1>5 DEF Precheck
  <2>2. ASSUME NEW u \in StartLocking(tx[s]), Goto(s, u)
        PROVE  OnlyOwn(s) /\ Good(s)'
    <3>1. u \in TxRecord
      BY <1>0, <2>2, StartLockingType
    <3>2. OnlyOwn(s) /\ tx'[s] = u /\ lockedBy' = lockedBy
      BY <1>2, <2>2, <3>1
    <3>. QED
      BY <1>0, <1>1, <2>2, <3>2, StartLockingGood
  <2>3. ASSUME tx[s].todo # {}, NEW u \in Step(tx[s], "preload", "lock"), Goto(s, u)
        PROVE  OnlyOwn(s) /\ Good(s)'
    <3>1. u \in TxRecord /\ u.kind = "web" /\ u.pc = "preload"
      BY <1>0, <1>1, <2>3, StepType DEF Phases
    <3>. QED
      BY <1>3, <2>3, <3>1
  <2>4. ASSUME Goto(s, [tx[s] EXCEPT !.pc = "closing"])
        PROVE  OnlyOwn(s) /\ Good(s)'
    <3>1. /\ [tx[s] EXCEPT !.pc = "closing"] \in TxRecord
          /\ [tx[s] EXCEPT !.pc = "closing"].kind = "web"
          /\ [tx[s] EXCEPT !.pc = "closing"].pc = "closing"
      BY <1>0, <1>1 DEF TxRecord, Phases
    <3>. QED
      BY <1>3, <2>4, <3>1
  <2>. QED
    BY <2>1, <2>2, <2>3, <2>4
<1>. QED
  BY <1>4, <1>5

LEMMA RowGood ==
  ASSUME IInv, NEW s \in Sessions, ReadRow(s) \/ WriteRow(s)
  PROVE  OnlyOwn(s) /\ Good(s)'
<1>0. /\ Good(s) /\ tx[s] \in TxRecord /\ stock \in [Keys -> Nat]
      /\ tx[s].pc \in {"read", "write"} /\ UNCHANGED <<stock, order>>
      /\ tx[s].cur \in Keys
  BY DEF IInv, TypeOK, ReadRow, WriteRow, Rows, TxRecord
<1>1. /\ ~IsSale(s)
      /\ tx[s].kind \in {"client_cancel", "owner_cancel"} => order[tx[s].target].status # "none"
  BY <1>0 DEF Good, SessionInv
<1>2. tx[s].kind \in {"client_cancel", "owner_cancel", "set_stock", "owner_done"}
  BY <1>0, <1>1 DEF IsSale, TxRecord, AllHandlers
<1>3. ASSUME NEW u \in TxRecord, Goto(s, u), u.kind = tx[s].kind, u.target = tx[s].target,
             u.pc \in {"read", "write", "commit"}
      PROVE  OnlyOwn(s) /\ Good(s)'
  <2>1. \/ lockedBy' = lockedBy
        \/ \E k \in Keys : lockedBy[k] = NoSession /\ lockedBy' = [lockedBy EXCEPT ![k] = s]
    BY <1>0 DEF ReadRow, WriteRow, Rows
  <2>2. OnlyOwn(s) /\ tx'[s] = u
    BY <1>0, <1>3, <2>1, GotoFrame
  <2>. QED
    BY <1>0, <1>1, <1>2, <1>3, <2>2 DEF Good, SessionInv, IsSale
<1>4. CASE ReadRow(s)
  <2>. DEFINE t == Select(tx[s], {tx[s].cur})
  <2>1. t \in TxRecord /\ t.kind = tx[s].kind /\ t.target = tx[s].target
    BY <1>0, SelectType
  <2>2. Goto(s, [t EXCEPT !.pc = "write"])
    BY <1>4 DEF ReadRow
  <2>. HIDE DEF t
  <2>3. /\ [t EXCEPT !.pc = "write"] \in TxRecord
        /\ [t EXCEPT !.pc = "write"].kind = tx[s].kind
        /\ [t EXCEPT !.pc = "write"].target = tx[s].target
        /\ [t EXCEPT !.pc = "write"].pc = "write"
    BY <2>1 DEF TxRecord, Phases
  <2>. QED
    BY <1>3, <2>2, <2>3
<1>5. CASE WriteRow(s)
  <2>1. PICK u \in Step(tx[s], "read", "commit") : Goto(s, u)
    BY <1>5 DEF WriteRow
  <2>2. /\ u \in TxRecord /\ u.kind = tx[s].kind /\ u.target = tx[s].target
        /\ u.pc \in {"read", "commit"}
    BY <1>0, StepType DEF Phases
  <2>. QED
    BY <1>3, <2>1, <2>2
<1>. QED
  BY <1>4, <1>5

LEMMA EndsGood ==
  ASSUME IInv, NEW s \in Sessions,
         Rollback(s) \/ PlaceOrder(s) \/ FinishCancel(s) \/ FinishSetStock(s)
  PROVE  OnlyOwn(s) /\ Good(s)'
<1>0. TypeOK
  BY DEF IInv
<1>1. End(s)
  BY DEF Rollback, PlaceOrder, FinishCancel, FinishSetStock, CommitStock
<1>2. \A k \in Keys : lockedBy[k] # s => stock'[k] = stock[k]
  BY <1>0, CommitType DEF Rollback, PlaceOrder, FinishCancel, FinishSetStock
<1>3. \A o \in Sessions : order[o].status # "none" => order'[o].status # "none"
  <2>1. order \in [Sessions -> [status : Statuses, items : [Keys -> Nat]]]
    BY <1>0 DEF TypeOK
  <2>2. CASE PlaceOrder(s)
    BY <2>1, <2>2 DEF PlaceOrder
  <2>3. CASE FinishCancel(s)
    <3>1. order' = order \/ order' = [order EXCEPT ![tx[s].target].status = "cancelled"]
      BY <2>3 DEF FinishCancel
    <3>. QED
      BY <2>1, <3>1
  <2>. QED
    BY <2>2, <2>3 DEF Rollback, FinishSetStock
<1>. QED
  BY <1>1, <1>2, <1>3, EndGood

\* A step of session s keeps what is known of s, and does not touch the others.
LEMMA SessionStep ==
  ASSUME IInv, NEW s \in Sessions, Begin(s) \/ Progress(s) \/ Fail(s)
  PROVE  OnlyOwn(s) /\ Good(s)'
<1>1. CASE Progress(s)
  BY <1>1, LockRowGood, WebReadsGood, RowGood, EndsGood
  DEF Progress, CloseRefused, DeadlockAbort
<1>2. CASE Fail(s)
  BY <1>2, EndsGood DEF Fail
<1>. QED
  BY <1>1, <1>2, BeginGood

LEMMA IInvInit == Init => IInv
<1>. SUFFICES ASSUME Init, NEW s \in Sessions PROVE TypeOK /\ Good(s)
  BY InitType DEF IInv
<1>1. tx[s].pc = "idle" /\ tx[s].kind = "checkout" /\ tx[s].loaded = {}
  BY FreshType DEF Init
<1>2. \A k \in Keys : lockedBy[k] # s
  BY SessionsAssumption DEF Init
<1>3. SessionInv(s)
  BY <1>1, <1>2 DEF SessionInv, IsSale
<1>. QED
  BY <1>1, <1>2, <1>3, InitType DEF Good

LEMMA IInvNext == IInv /\ [Next]_vars => IInv'
<1>. SUFFICES ASSUME IInv, [Next]_vars PROVE IInv'
  OBVIOUS
<1>0. TypeOK'
  BY NextType DEF IInv
<1>1. ASSUME NEW s \in Sessions, Begin(s) \/ Progress(s) \/ Fail(s) PROVE IInv'
  <2>1. OnlyOwn(s) /\ Good(s)'
    BY <1>1, SessionStep
  <2>2. \A r \in Sessions : Good(r)'
    BY <2>1, Frame
  <2>. QED
    BY <1>0, <2>2 DEF IInv
<1>2. CASE UNCHANGED vars
  BY <1>0, <1>2 DEF IInv, Good, SessionInv, IsSale, Support, vars
<1>. QED
  BY <1>1, <1>2 DEF Next, Terminated

LEMMA IInvAlways == Spec => []IInv
  BY IInvInit, IInvNext, PTL DEF Spec

-----------------------------------------------------------------------------
(***************************************************************************)
(* What follows for all handlers together.                                 *)
(***************************************************************************)

\* A handler holds exactly the rows its loop has passed, none once it is over,
\* and a sale holds only rows that have enough for it.
THEOREM LocksDisciplined == Spec => []LockDiscipline
<1>1. IInv => LockDiscipline
  BY DEF IInv, Good, LockDiscipline
<1>. QED
  BY <1>1, IInvAlways, PTL

\* Whatever the other handlers do, the quantity a dialogue's checkout has read
\* under its lock is the committed one until it commits.
THEOREM LockedReadsCurrent == Spec => []LockedReadCurrent
<1>1. IInv => LockedReadCurrent
  BY DEF IInv, Good, LockedReadCurrent
<1>. QED
  BY <1>1, IInvAlways, PTL

\* No sale, also one that computes with a stale quantity, is cut by the clamp at
\* zero: at its commit it has locked and read enough of every key.
THEOREM SaleRowsExact == Spec => []SaleRowExact
<1>1. ASSUME IInv, NEW s \in Sessions, IsSale(s), tx[s].pc = "commit",
             NEW k \in Support(tx[s].amount)
      PROVE  lockedBy[k] = s /\ tx[s].read[k] >= tx[s].amount[k]
  <2>1. SessionInv(s) /\ k \in Keys /\ tx[s] \in TxRecord
    BY <1>1, SupportKeys DEF IInv, Good, TypeOK
  <2>2. tx[s].read[k] \in Nat /\ tx[s].amount[k] \in Nat
    BY <2>1 DEF TxRecord
  <2>3. lockedBy[k] = s /\ tx[s].amount[k] <= tx[s].read[k]
    BY <1>1, <2>1 DEF SessionInv
  <2>. QED
    BY <2>2, <2>3
<1>2. IInv => SaleRowExact
  BY <1>1 DEF SaleRowExact
<1>. QED
  BY <1>2, IInvAlways, PTL

\* A dialogue's checkout is refused only for goods that are missing, and they are
\* still missing while its refusal is on the way.
THEOREM RefusalsJustified == Spec => []RefusalJustified
<1>1. IInv => RefusalJustified
  BY DEF IInv, Good, RefusalJustified
<1>. QED
  BY <1>1, IInvAlways, PTL

\* Only its own commit makes the order of a session exist.
LEMMA OnlyPlaceOrderSells ==
  ASSUME IInv, [Next]_vars, NEW s \in Sessions, Sells(s)
  PROVE  PlaceOrder(s)
<1>0. order \in [Sessions -> [status : Statuses, items : [Keys -> Nat]]]
  BY DEF IInv, TypeOK
<1>1. order' # order
  BY DEF Sells
<1>2. PICK r \in Sessions : OwnerDone(r) \/ PlaceOrder(r) \/ FinishCancel(r)
  BY <1>1 DEF Next, vars, Begin, BeginCheckout, BeginWebOrder, BeginClientCancel,
              BeginOwnerCancel, BeginSetStock, Progress, PreloadProduct, Precheck, LockRow,
              CloseRefused, ReadRow, WriteRow, FinishSetStock, DeadlockAbort, Fail,
              Rollback, Terminated, Rows
<1>3. ~OwnerDone(r)
  BY <1>0 DEF OwnerDone, Sells
<1>4. ~FinishCancel(r)
  <2>. SUFFICES ASSUME FinishCancel(r) PROVE FALSE
    OBVIOUS
  <2>1. order[tx[r].target].status # "none" /\ tx[r].target \in Sessions
    BY DEF FinishCancel, IInv, Good, SessionInv, TypeOK, TxRecord
  <2>. QED
    BY <1>0, <2>1 DEF FinishCancel, Sells
<1>5. PlaceOrder(r)
  BY <1>2, <1>3, <1>4
<1>. QED
  BY <1>0, <1>5 DEF PlaceOrder, Sells

\* The commit of a dialogue's checkout: it takes its goods from the committed
\* quantities, and there are enough of them.
LEMMA CheckoutCommit ==
  ASSUME IInv, NEW s \in Sessions, tx[s].kind = "checkout", PlaceOrder(s), NEW k \in Keys
  PROVE  /\ stock[k] \in Nat /\ tx[s].amount[k] \in Nat
         /\ tx[s].amount[k] <= stock[k]
         /\ stock'[k] = stock[k] - tx[s].amount[k]
         /\ net \in [Keys -> Int] /\ net'[k] = net[k] - tx[s].amount[k]
<1>0. TypeOK /\ Good(s) /\ tx[s] \in TxRecord /\ CommitStock(s) /\ tx[s].pc = "commit"
  BY DEF IInv, TypeOK, PlaceOrder
<1>1. /\ tx[s].read[k] \in Nat /\ tx[s].amount[k] \in Nat
      /\ stock[k] \in Nat /\ net \in [Keys -> Int] /\ net[k] \in Int
  BY <1>0 DEF TxRecord, TypeOK
<1>2. /\ stock'[k] = IF lockedBy[k] = s THEN Written(tx[s], k) ELSE stock[k]
      /\ net'[k] = IF lockedBy[k] = s THEN net[k] + Movement(tx[s], k) ELSE net[k]
  BY <1>0, CommitType
<1>3. CASE lockedBy[k] = s
  <2>1. tx[s].read[k] = stock[k] /\ tx[s].amount[k] <= tx[s].read[k]
    BY <1>0, <1>3 DEF Good, SessionInv, IsSale
  <2>2. Written(tx[s], k) = stock[k] - tx[s].amount[k]
    BY <1>1, <2>1 DEF Written
  <2>3. Movement(tx[s], k) = 0 - tx[s].amount[k]
    BY DEF Movement
  <2>. QED
    BY <1>1, <1>2, <1>3, <2>1, <2>2, <2>3
<1>4. CASE lockedBy[k] # s
  <2>1. tx[s].amount[k] = 0
    BY <1>0, <1>1, <1>4 DEF Good, SessionInv, IsSale, Support
  <2>. QED
    BY <1>1, <1>2, <1>4, <2>1
<1>. QED
  BY <1>3, <1>4

\* Whatever runs beside it, a dialogue's checkout writes off exactly what its
\* order lists, from the quantities committed at that moment.
THEOREM LockedSalesExact == Spec => LockedSaleExact
<1>1. ASSUME IInv, [Next]_vars, NEW s \in Sessions,
             tx[s].kind = "checkout" /\ Sells(s), NEW k \in Keys
      PROVE  stock'[k] = stock[k] - tx[s].amount[k] /\ order'[s].items[k] = tx[s].amount[k]
  <2>1. PlaceOrder(s)
    BY <1>1, OnlyPlaceOrderSells
  <2>2. order'[s].items = tx[s].amount
    BY <1>1, <2>1 DEF PlaceOrder, IInv, TypeOK
  <2>. QED
    BY <1>1, <2>1, <2>2, CheckoutCommit
<1>2. IInv /\ [Next]_vars =>
        \A s \in Sessions :
          tx[s].kind = "checkout" /\ Sells(s) =>
            \A k \in Keys : /\ stock'[k] = stock[k] - tx[s].amount[k]
                            /\ order'[s].items[k] = tx[s].amount[k]
  BY <1>1
<1>. QED
  BY <1>2, IInvAlways, PTL DEF Spec, LockedSaleExact

-----------------------------------------------------------------------------
(***************************************************************************)
(* What follows when stock is changed by the checkouts of the dialogues    *)
(* only. Each of the other handlers that write stock_movements computes    *)
(* with a quantity it has read without the lock, and breaks both results:  *)
(* see the runs web_oversell and cancel_lost_update.                       *)
(***************************************************************************)

LockedHandlers == {"checkout", "owner_done"}

\* A session that has not ended has created no order yet, and asks for a cart.
Selling(s) ==
  /\ tx[s].kind = "checkout"
  /\ tx[s].pc \in {"idle", "lock", "commit", "closing", "done"}
  /\ tx[s].pc \in {"lock", "commit", "closing"} => tx[s].amount \in Carts
  /\ tx[s].pc # "done" => order[s].status = "none"

LInv == IInv /\ (\A s \in Sessions : Selling(s)) /\ LedgerBalances

LEMMA LInvInit == Init => LInv
<1>. SUFFICES ASSUME Init PROVE LInv
  OBVIOUS
<1>1. ASSUME NEW s \in Sessions PROVE Selling(s)
  BY FreshType DEF Init, Selling
<1>2. ASSUME NEW k \in Keys PROVE stock[k] = InitStock[k] + net[k]
  BY StockAssumption DEF Init, Nothing
<1>. QED
  BY <1>1, <1>2, IInvInit DEF LInv, LedgerBalances

\* The next-state relation without the handlers that do not run.
LEMMA LockedSteps ==
  ASSUME Handlers \subseteq LockedHandlers, LInv, [Next]_vars
  PROVE  \/ UNCHANGED vars
         \/ \E s \in Sessions :
              \/ BeginCheckout(s) \/ LockRow(s) \/ PlaceOrder(s) \/ OwnerDone(s)
              \/ Rollback(s)
<1>. SUFFICES ASSUME NEW s \in Sessions, Begin(s) \/ Progress(s) \/ Fail(s)
              PROVE  \/ BeginCheckout(s) \/ LockRow(s) \/ PlaceOrder(s) \/ OwnerDone(s)
                     \/ Rollback(s)
  BY DEF Next, Terminated
<1>1. Selling(s)
  BY DEF LInv
<1>2. CASE Begin(s)
  BY <1>2 DEF Begin, BeginWebOrder, BeginClientCancel, BeginOwnerCancel, BeginSetStock,
              LockedHandlers
<1>3. CASE Progress(s)
  BY <1>1, <1>3 DEF Progress, Selling, PreloadProduct, Precheck, ReadRow, WriteRow,
                    FinishCancel, FinishSetStock, CloseRefused, DeadlockAbort
<1>4. CASE Fail(s)
  BY <1>4 DEF Fail
<1>. QED
  BY <1>2, <1>3, <1>4

\* What each of these steps does to its own session.
LEMMA SellingOwn ==
  ASSUME LInv, NEW s \in Sessions,
         BeginCheckout(s) \/ LockRow(s) \/ PlaceOrder(s) \/ OwnerDone(s) \/ Rollback(s)
  PROVE  Selling(s)'
<1>0. TypeOK /\ IInv /\ tx[s] \in TxRecord /\ stock \in [Keys -> Nat] /\ Selling(s)
  BY DEF LInv, IInv, TypeOK
<1>1. CASE BeginCheckout(s)
  <2>. DEFINE T(c) == [tx[s] EXCEPT !.kind = "checkout", !.amount = c]
  <2>1. PICK c \in Carts : \E t \in StartLocking(T(c)) : Goto(s, t)
    BY <1>1 DEF BeginCheckout
  <2>2. T(c) \in TxRecord /\ T(c).kind = "checkout" /\ T(c).amount = c
    BY <1>0, CartsAssumption DEF TxRecord, AllHandlers
  <2>. HIDE DEF T
  <2>3. PICK u \in StartLocking(T(c)) : Goto(s, u)
    BY <2>1
  <2>4. /\ u \in TxRecord /\ u.kind = "checkout" /\ u.amount = c /\ u.pc \in {"lock", "commit"}
    BY <2>2, StartLockingType
  <2>5. tx'[s] = u
    BY <1>0, <2>3, <2>4, GotoType
  <2>6. order'[s] = order[s] /\ tx[s].pc = "idle"
    BY <1>1 DEF BeginCheckout, Rows
  <2>. QED
    BY <1>0, <2>4, <2>5, <2>6 DEF Selling
<1>2. CASE LockRow(s)
  <2>. DEFINE t == Select(tx[s], {tx[s].cur})
  <2>1. /\ t \in TxRecord /\ t.kind = tx[s].kind /\ t.amount = tx[s].amount
    BY <1>0, SelectType DEF TxRecord
  <2>2. Goto(s, [t EXCEPT !.pc = "closing"]) \/ \E u \in Step(t, "lock", "commit") : Goto(s, u)
    BY <1>2 DEF LockRow
  <2>. HIDE DEF t
  <2>3. /\ [t EXCEPT !.pc = "closing"] \in TxRecord
        /\ [t EXCEPT !.pc = "closing"].pc = "closing"
        /\ [t EXCEPT !.pc = "closing"].kind = t.kind
        /\ [t EXCEPT !.pc = "closing"].amount = t.amount
    BY <2>1 DEF TxRecord, Phases
  <2>4. ASSUME NEW u \in Step(t, "lock", "commit")
        PROVE  /\ u \in TxRecord /\ u.pc \in {"lock", "commit"}
               /\ u.kind = t.kind /\ u.amount = t.amount
    BY <2>1, StepType DEF Phases
  <2>5. PICK u \in TxRecord : /\ Goto(s, u) /\ u.pc \in {"lock", "commit", "closing"}
                             /\ u.kind = t.kind /\ u.amount = t.amount
    BY <2>2, <2>3, <2>4
  <2>6. tx'[s] = u
    BY <1>0, <2>5, GotoType
  <2>7. order'[s] = order[s] /\ tx[s].pc = "lock"
    BY <1>2 DEF LockRow
  <2>. QED
    BY <1>0, <2>1, <2>5, <2>6, <2>7 DEF Selling
<1>3. CASE PlaceOrder(s) \/ Rollback(s)
  <2>1. tx'[s].pc = "done" /\ tx'[s].kind = "checkout"
    BY <1>0, <1>3, EndType, FreshType DEF PlaceOrder, Rollback, CommitStock
  <2>. QED
    BY <2>1 DEF Selling
<1>4. CASE OwnerDone(s)
  <2>1. tx'[s].pc = "done" /\ tx'[s].kind = "checkout"
    BY <1>0, <1>4, GotoType, FreshType DEF OwnerDone
  <2>. QED
    BY <2>1 DEF Selling
<1>. QED
  BY <1>1, <1>2, <1>3, <1>4

\* These steps create no order for another session.
LEMMA SellingFrame ==
  ASSUME LInv, NEW s \in Sessions, OnlyOwn(s),
         BeginCheckout(s) \/ LockRow(s) \/ PlaceOrder(s) \/ OwnerDone(s) \/ Rollback(s),
         NEW r \in Sessions, r # s
  PROVE  Selling(r)'
<1>0. /\ order \in [Sessions -> [status : Statuses, items : [Keys -> Nat]]] /\ Selling(r)
  BY DEF LInv, IInv, TypeOK
<1>1. tx'[r] = tx[r]
  BY DEF OnlyOwn
<1>2. order[r].status = "none" => order'[r].status = "none"
  BY <1>0 DEF BeginCheckout, LockRow, PlaceOrder, OwnerDone, Rollback, Rows
<1>. QED
  BY <1>0, <1>1, <1>2 DEF Selling

LEMMA LInvNext ==
  ASSUME Handlers \subseteq LockedHandlers
  PROVE  LInv /\ [Next]_vars => LInv'
<1>. SUFFICES ASSUME LInv, [Next]_vars PROVE LInv'
  OBVIOUS
<1>0. IInv' /\ IInv
  BY IInvNext DEF LInv
<1>1. CASE UNCHANGED vars
  BY <1>0, <1>1 DEF LInv, Selling, LedgerBalances, vars
<1>2. ASSUME NEW s \in Sessions,
             BeginCheckout(s) \/ LockRow(s) \/ PlaceOrder(s) \/ OwnerDone(s) \/ Rollback(s)
      PROVE  LInv'
  <2>1. OnlyOwn(s)
    <3>1. CASE Rollback(s)
      BY <1>0, <3>1, EndsGood
    <3>. QED
      BY <1>0, <1>2, <3>1, SessionStep DEF Begin, Progress
  <2>2. \A r \in Sessions : Selling(r)'
    BY <1>2, <2>1, SellingOwn, SellingFrame
  <2>3. ASSUME NEW k \in Keys PROVE stock'[k] = InitStock[k] + net'[k]
    <3>0. stock[k] = InitStock[k] + net[k] /\ InitStock[k] \in Nat /\ net[k] \in Int
      BY StockAssumption DEF LInv, LedgerBalances, IInv, TypeOK
    <3>1. CASE PlaceOrder(s)
      <4>1. tx[s].kind = "checkout"
        BY DEF LInv, Selling
      <4>. QED
        BY <1>0, <3>0, <3>1, <4>1, CheckoutCommit
    <3>2. CASE BeginCheckout(s) \/ LockRow(s) \/ OwnerDone(s) \/ Rollback(s)
      BY <3>0, <3>2 DEF BeginCheckout, LockRow, OwnerDone, Rollback, Rows
    <3>. QED
      BY <1>2, <3>1, <3>2
  <2>. QED
    BY <1>0, <2>2, <2>3 DEF LInv, LedgerBalances
<1>. QED
  BY <1>1, <1>2, LockedSteps

\* The quantity on the shelf is the initial one plus all recorded movements, for
\* any number of concurrent checkouts, refusals, crashes and deadlock victims.
THEOREM LedgerAlwaysBalances ==
  ASSUME Handlers \subseteq LockedHandlers
  PROVE  Spec => []LedgerBalances
<1>1. LInv => LedgerBalances
  BY DEF LInv
<1>. QED
  BY <1>1, LInvInit, LInvNext, PTL DEF Spec

\* Orders not placed list nothing, and the pieces of the placed ones can be counted.
CInv ==
  /\ LInv
  /\ \A s \in Sessions : order[s].status = "none" => order[s].items = Nothing
  /\ \A k \in Keys : /\ IsFiniteSet(Ordered(k))
                     /\ stock[k] + Cardinality(Ordered(k)) = InitStock[k]

LEMMA CInvInit == Init => CInv
<1>. SUFFICES ASSUME Init PROVE CInv
  OBVIOUS
<1>1. \A s \in Sessions : order[s].items = Nothing
  BY DEF Init
<1>2. ASSUME NEW k \in Keys
      PROVE  IsFiniteSet(Ordered(k)) /\ stock[k] + Cardinality(Ordered(k)) = InitStock[k]
  <2>1. Ordered(k) = {}
    BY <1>1 DEF Ordered, Nothing
  <2>2. stock[k] = InitStock[k] /\ InitStock[k] \in Nat
    BY StockAssumption DEF Init
  <2>. QED
    BY <2>1, <2>2, FS_EmptySet
<1>. QED
  BY <1>1, <1>2, LInvInit DEF CInv

\* A new order adds its own pieces to those ordered.
LEMMA OrderedGrows ==
  ASSUME NEW s \in Sessions, NEW k \in Keys, NEW n \in Nat, IsFiniteSet(Ordered(k)),
         order[s].items[k] = 0, order'[s].items[k] = n,
         \A r \in Sessions \ {s} : order'[r].items = order[r].items
  PROVE  /\ IsFiniteSet(Ordered(k)')
         /\ Cardinality(Ordered(k)') = Cardinality(Ordered(k)) + n
<1>. DEFINE own == {s} \X (1..n)
            old == Ordered(k)
<1>1. Ordered(k)' = old \cup own /\ old \cap own = {}
  BY DEF Ordered
<1>2. IsFiniteSet({s}) /\ Cardinality({s}) = 1
  BY FS_Singleton
<1>3. IsFiniteSet(1..n) /\ Cardinality(1..n) = n
  BY FS_Interval
<1>4. IsFiniteSet(own) /\ Cardinality(own) = Cardinality({s}) * Cardinality(1..n)
  BY <1>2, <1>3, FS_Product
<1>5. Cardinality(own) = n
  BY <1>2, <1>4, <1>3
<1>6. Cardinality(old \cap own) = 0 /\ Cardinality(old) \in Nat
  BY <1>1, FS_EmptySet, FS_CardinalityType
<1>. HIDE DEF own, old
<1>7. IsFiniteSet(old \cup own) /\ Cardinality(old \cup own) = Cardinality(old) + n
  <2>1. IsFiniteSet(old)
    BY DEF old
  <2>2. /\ IsFiniteSet(old \cup own)
        /\ Cardinality(old \cup own) = Cardinality(old) + Cardinality(own) - Cardinality(old \cap own)
    BY <1>4, <2>1, FS_Union
  <2>. QED
    BY <1>5, <1>6, <2>2
<1>. QED
  BY <1>1, <1>6, <1>7 DEF old

LEMMA CInvNext ==
  ASSUME Handlers \subseteq LockedHandlers
  PROVE  CInv /\ [Next]_vars => CInv'
<1>. SUFFICES ASSUME CInv, [Next]_vars PROVE CInv'
  OBVIOUS
<1>0. LInv /\ LInv' /\ IInv
  BY LInvNext DEF CInv, LInv
<1>1. stock \in [Keys -> Nat] /\ order \in [Sessions -> [status : Statuses, items : [Keys -> Nat]]]
  BY <1>0 DEF IInv, TypeOK
<1>2. CASE UNCHANGED <<stock, order>>
  BY <1>0, <1>2 DEF CInv, Ordered
<1>3. ASSUME NEW s \in Sessions, PlaceOrder(s) PROVE CInv'
  <2>1. /\ tx[s].kind = "checkout" /\ tx[s].pc = "commit" /\ order[s].items = Nothing
        /\ tx[s].amount \in [Keys -> Nat]
    BY <1>0, <1>3, CartsAssumption DEF PlaceOrder, LInv, Selling, CInv
  <2>2. /\ order'[s] = [status |-> "new", items |-> tx[s].amount]
        /\ \A r \in Sessions \ {s} : order'[r] = order[r]
    BY <1>1, <1>3 DEF PlaceOrder
  <2>3. \A r \in Sessions : order'[r].status = "none" => order'[r].items = Nothing
    BY <2>2 DEF CInv
  <2>4. ASSUME NEW k \in Keys
        PROVE  IsFiniteSet(Ordered(k)') /\ stock'[k] + Cardinality(Ordered(k)') = InitStock[k]
    <3>1. /\ IsFiniteSet(Ordered(k)) /\ stock[k] + Cardinality(Ordered(k)) = InitStock[k]
          /\ InitStock[k] \in Nat
      BY StockAssumption DEF CInv
    <3>2. /\ order[s].items[k] = 0 /\ order'[s].items[k] = tx[s].amount[k]
          /\ tx[s].amount[k] \in Nat
      BY <2>1, <2>2 DEF Nothing
    <3>3. \A r \in Sessions \ {s} : order'[r].items = order[r].items
      BY <2>2
    <3>4. /\ IsFiniteSet(Ordered(k)')
          /\ Cardinality(Ordered(k)') = Cardinality(Ordered(k)) + tx[s].amount[k]
      BY <3>1, <3>2, <3>3, OrderedGrows
    <3>5. stock'[k] = stock[k] - tx[s].amount[k] /\ stock[k] \in Nat
      BY <1>0, <1>1, <1>3, <2>1, CheckoutCommit
    <3>6. Cardinality(Ordered(k)) \in Nat
      BY <3>1, FS_CardinalityType
    <3>. QED
      BY <3>1, <3>2, <3>4, <3>5, <3>6
  <2>. QED
    BY <1>0, <2>3, <2>4 DEF CInv
<1>4. ASSUME NEW s \in Sessions, OwnerDone(s) PROVE CInv'
  <2>1. PICK o \in Sessions :
          /\ order[o].status # "none" /\ order' = [order EXCEPT ![o].status = "completed"]
    BY <1>4 DEF OwnerDone
  <2>2. /\ \A r \in Sessions : order'[r].items = order[r].items
        /\ \A r \in Sessions : order'[r].status = "none" => order[r].status = "none"
    BY <1>1, <2>1
  <2>3. \A k \in Keys : Ordered(k)' = Ordered(k)
    BY <2>2 DEF Ordered
  <2>4. stock' = stock
    BY <1>4 DEF OwnerDone
  <2>. QED
    BY <1>0, <2>2, <2>3, <2>4 DEF CInv
<1>5. \/ UNCHANGED <<stock, order>>
      \/ \E s \in Sessions : PlaceOrder(s) \/ OwnerDone(s)
  BY <1>0, LockedSteps DEF vars, BeginCheckout, LockRow, Rollback, Rows
<1>. QED
  BY <1>2, <1>3, <1>4, <1>5

\* Every piece that has left the shelf is in one placed order, for any number of
\* concurrent checkouts, refusals, crashes and deadlock victims.
THEOREM GoodsConserved ==
  ASSUME Handlers \subseteq LockedHandlers
  PROVE  Spec => []Conservation
<1>1. CInv => Conservation
  BY DEF CInv, Conservation
<1>. QED
  BY <1>1, CInvInit, CInvNext, PTL DEF Spec

\* The many-step checkouts implement the atomic sales of Inventory: their commit
\* is Sell, the done button is Complete, every other step is invisible.
THEOREM CheckoutsImplementInventory ==
  ASSUME Handlers \subseteq LockedHandlers
  PROVE  Spec => ImplementsInventory
<1>1. Init => Shop!Init
  BY DEF Init, Shop!Init, Nothing
<1>2. ASSUME LInv, [Next]_vars PROVE [Shop!Next]_(Shop!ivars)
  <2>0. /\ stock \in [Keys -> Nat] /\ IInv
        /\ order \in [Sessions -> [status : Statuses, items : [Keys -> Nat]]]
    BY <1>2 DEF LInv, IInv, TypeOK
  <2>1. CASE UNCHANGED <<stock, order>>
    BY <2>1 DEF Shop!ivars
  <2>2. ASSUME NEW s \in Sessions, PlaceOrder(s) PROVE Shop!Next
    <3>. DEFINE c == tx[s].amount
    <3>1. /\ tx[s].pc = "commit" /\ tx[s].kind = "checkout" /\ c \in Carts
          /\ order[s].status = "none"
      BY <1>2, <2>2 DEF PlaceOrder, LInv, Selling
    <3>2. \A k \in Keys : c[k] <= stock[k] /\ stock'[k] = stock[k] - c[k]
      BY <2>0, <2>2, <3>1, CheckoutCommit
    <3>3. stock' = [k \in Keys |-> stock'[k]]
      BY <2>2 DEF PlaceOrder, CommitStock
    <3>4. stock' = [k \in Keys |-> stock[k] - c[k]]
      BY <3>2, <3>3
    <3>5. order' = [order EXCEPT ![s] = [status |-> "new", items |-> c]]
      BY <2>2 DEF PlaceOrder
    <3>6. Shop!Sell(s, c)
      BY <3>1, <3>2, <3>4, <3>5 DEF Shop!Sell
    <3>. QED
      BY <3>1, <3>6 DEF Shop!Next
  <2>3. ASSUME NEW s \in Sessions, OwnerDone(s) PROVE Shop!Next
    BY <2>3 DEF OwnerDone, Shop!Next, Shop!Complete
  <2>4. \/ UNCHANGED <<stock, order>>
        \/ \E s \in Sessions : PlaceOrder(s) \/ OwnerDone(s)
    BY <1>2, LockedSteps DEF vars, BeginCheckout, LockRow, Rollback, Rows
  <2>. QED
    BY <2>1, <2>2, <2>3, <2>4
<1>. QED
  BY <1>1, <1>2, LInvInit, LInvNext, PTL DEF Spec, ImplementsInventory, Shop!Spec

=============================================================================
