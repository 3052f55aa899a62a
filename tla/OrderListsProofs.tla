-------------------------- MODULE OrderListsProofs --------------------------
(***************************************************************************)
(* Proofs about the lists of orders, for any number of orders, handler     *)
(* runs and presses and any size of a page, and about the paging that      *)
(* every list screen shares.                                               *)
(***************************************************************************)
EXTENDS OrderLists, FiniteSetTheorems, SequenceTheorems, TLAPS

-----------------------------------------------------------------------------

\* What the floor of a quotient is, by its remainder.
LEMMA Quotient ==
  ASSUME NEW a \in Nat, NEW size \in Nat \ {0}
  PROVE  /\ a \div size \in Nat
         /\ size * (a \div size) <= a
         /\ a < size * (a \div size) + size
<1>1. a = size * (a \div size) + (a % size) BY SMTT(30)
<1>2. a % size \in 0..size - 1 BY SMTT(30)
<1>3. a \div size \in Nat BY SMTT(30)
<1> QED BY <1>1, <1>2, <1>3, SMTT(30)

LEMMA Cancels ==
  ASSUME NEW size \in Nat \ {0}, NEW a \in Int, NEW b \in Int, size * a < size * b
  PROVE  a < b
<1>1. SUFFICES ASSUME b <= a PROVE FALSE
  OBVIOUS
<1>2. PICK d \in Nat : a = b + d
  BY <1>1
<1>3. size * a = size * b + size * d
  BY <1>2, SMTT(30)
<1>4. size * d >= 0
  BY SMTT(30)
<1> QED BY <1>3, <1>4

\* The arrows of a header lead to every row, and to each on one page only,
\* whatever the length of the list and the size of a page: what the paging
\* of client.py and orders_stats.py promises while the list does not change.
THEOREM EveryRowOnOnePage ==
  ASSUME NEW n \in Nat, NEW size \in Nat \ {0}, NEW row \in 1..n
  PROVE  \E page \in 1..TotalPages(n, size) :
           /\ row \in OnPage(page, n, size)
           /\ \A other \in 1..TotalPages(n, size) :
                row \in OnPage(other, n, size) => other = page
<1> DEFINE before == (row - 1) \div size
           total == (n + size - 1) \div size
<1>1. /\ before \in Nat /\ total \in Nat
      /\ size * before <= row - 1 /\ row - 1 < size * before + size
      /\ n - 1 < size * total
  BY Quotient
<1> HIDE DEF before, total
<1>2. before < total
  BY <1>1, Cancels
<1>3. TotalPages(n, size) = total
  BY <1>1, <1>2 DEF TotalPages, Greatest, total
<1>4. \A page \in 1..total : row \in OnPage(page, n, size) <=>
        /\ size * (page - 1) < row
        /\ row <= size * (page - 1) + size
  <2> TAKE page \in 1..total
  <2>1. Offset(page, size) = size * (page - 1) /\ Offset(page, size) \in Int
    BY SMTT(30) DEF Offset
  <2> QED BY <2>1 DEF OnPage, Least
<1>5. before + 1 \in 1..total /\ row \in OnPage(before + 1, n, size)
  BY <1>1, <1>2, <1>4
<1>6. ASSUME NEW other \in 1..total, row \in OnPage(other, n, size)
      PROVE  other = before + 1
  <2> DEFINE k == other - 1
  <2>1. k \in Int /\ size * k < row /\ row <= size * k + size
    BY <1>4, <1>6
  <2> HIDE DEF k
  <2>2. size * (k + 1) = size * k + size /\ size * (before + 1) = size * before + size
    BY <1>1, <2>1, SMTT(30)
  <2>3. size * k \in Int /\ size * before \in Int
    BY <1>1, <2>1, SMTT(30)
  <2>4. size * k < size * (before + 1) /\ size * before < size * (k + 1)
    BY <1>1, <2>1, <2>2, <2>3
  <2>5. k < before + 1 /\ before < k + 1
    BY <1>1, <2>1, <2>4, Cancels
  <2> QED BY <1>1, <2>1, <2>5 DEF k
<1> QED BY <1>3, <1>5, <1>6

-----------------------------------------------------------------------------
(***************************************************************************)
(* Sequences sorted by rank, and the pages they are cut into.              *)
(***************************************************************************)

\* A sequence that has every element of a set at the element's rank.
LEMMA Arranged ==
  ASSUME NEW S, NEW n \in Nat, NEW rank \in Injection(S, 1..n), NEW f \in [1..n -> S],
         \A i \in 1..n : rank[f[i]] = i
  PROVE  /\ f \in Seq(S) /\ Len(f) = n
         /\ IsInjective(f) /\ ToSet(f) = S
<1>1. f \in Seq(S)
  BY SeqDef
<1>2. DOMAIN f = 1..n /\ Len(f) = n
  BY <1>1, LenProperties
<1>3. rank \in [S -> 1..n] /\ \A u, v \in S : rank[u] = rank[v] => u = v
  BY DEF Injection, IsInjective
<1>4. IsInjective(f)
  BY <1>2 DEF IsInjective
<1>5. \A x \in S : rank[x] \in 1..n /\ f[rank[x]] = x
  BY <1>3
<1>6. ToSet(f) = S
  BY <1>2, <1>5 DEF ToSet
<1>. QED
  BY <1>1, <1>2, <1>4, <1>6

\* Where the elements are ordered, every position has its element.
LEMMA Ranked ==
  ASSUME NEW S, IsFiniteSet(S), NEW above \in [S -> SUBSET S],
         \A x \in S : x \notin above[x],
         \A x, y \in S : x = y \/ x \in above[y] \/ y \in above[x],
         \A x, y \in S : x \in above[y] => above[x] \subseteq above[y],
         NEW f, f = [i \in 1..Cardinality(S) |-> f[i]],
         \A i \in 1..Cardinality(S) : (\E x \in S : Cardinality(above[x]) = i - 1) =>
                                     f[i] \in S /\ Cardinality(above[f[i]]) = i - 1
  PROVE  /\ f \in Seq(S) /\ Len(f) = Cardinality(S)
         /\ IsInjective(f) /\ ToSet(f) = S
<1>. DEFINE n == Cardinality(S)
            rank == [x \in S |-> Cardinality(above[x]) + 1]
<1>1. n \in Nat
  BY FS_CardinalityType
<1>2. \A x \in S : IsFiniteSet(above[x]) /\ Cardinality(above[x]) \in 0..n - 1
  <2>. TAKE x \in S
  <2>1. IsFiniteSet(S \ {x}) /\ Cardinality(S \ {x}) = n - 1
    BY FS_RemoveElement
  <2>2. above[x] \in SUBSET (S \ {x})
    OBVIOUS
  <2>3. IsFiniteSet(above[x]) /\ Cardinality(above[x]) <= n - 1
    BY <2>1, <2>2, FS_Subset
  <2>. QED
    BY <1>1, <2>3, FS_CardinalityType
<1>3. \A x, y \in S : x \in above[y] => Cardinality(above[x]) < Cardinality(above[y])
  <2>. SUFFICES ASSUME NEW x \in S, NEW y \in S, x \in above[y]
                PROVE  Cardinality(above[x]) < Cardinality(above[y])
    OBVIOUS
  <2>1. above[x] \in SUBSET above[y] /\ above[x] # above[y]
    OBVIOUS
  <2>2. /\ Cardinality(above[x]) <= Cardinality(above[y])
        /\ Cardinality(above[x]) # Cardinality(above[y])
    BY <1>2, <2>1, FS_Subset
  <2>. QED
    BY <1>2, <2>2
<1>4. rank \in Injection(S, 1..n)
  <2>1. rank \in [S -> 1..n]
    BY <1>1, <1>2
  <2>2. \A x, y \in S : rank[x] = rank[y] => x = y
    BY <1>2, <1>3
  <2>. QED
    BY <2>1, <2>2 DEF Injection, IsInjective
<1>5. rank \in Surjection(S, 1..n)
  BY <1>1, <1>4, FS_Interval, FS_Injection
<1>6. \A i \in 1..n : f[i] \in S /\ rank[f[i]] = i
  <2>. TAKE i \in 1..n
  <2>1. PICK x \in S : rank[x] = i
    BY <1>5 DEF Surjection
  <2>2. Cardinality(above[x]) = i - 1
    BY <1>2, <2>1
  <2>3. f[i] \in S /\ Cardinality(above[f[i]]) = i - 1
    BY <2>2
  <2>. QED
    BY <2>3
<1>7. f \in [1..n -> S]
  BY <1>6
<1>. HIDE DEF n, rank
<1>. QED
  BY <1>1, <1>4, <1>6, <1>7, Arranged DEF n

LEMMA Sorted ==
  ASSUME NEW S \in SUBSET Int, IsFiniteSet(S), NEW f \in {Ascending(S), Descending(S)}
  PROVE  /\ f \in Seq(S) /\ Len(f) = Cardinality(S)
         /\ IsInjective(f) /\ ToSet(f) = S
<1>1. CASE f = Ascending(S)
  <2>. DEFINE above == [x \in S |-> {y \in S : y < x}]
  <2>1. /\ f = [i \in 1..Cardinality(S) |-> f[i]]
        /\ \A i \in 1..Cardinality(S) :
             (\E x \in S : Cardinality(above[x]) = i - 1) =>
               f[i] \in S /\ Cardinality(above[f[i]]) = i - 1
    <3>1. f = [i \in 1..Cardinality(S) |->
                 CHOOSE x \in S : Cardinality({y \in S : y < x}) = i - 1]
      BY <1>1 DEF Ascending
    <3>2. ASSUME NEW i \in 1..Cardinality(S), \E x \in S : Cardinality(above[x]) = i - 1
          PROVE  f[i] \in S /\ Cardinality(above[f[i]]) = i - 1
      <4>1. f[i] = CHOOSE x \in S : Cardinality({y \in S : y < x}) = i - 1
        BY <3>1
      <4>2. \E x \in S : Cardinality({y \in S : y < x}) = i - 1
        BY <3>2
      <4>3. f[i] \in S /\ Cardinality({y \in S : y < f[i]}) = i - 1
        BY <4>1, <4>2
      <4>. QED
        BY <4>3
    <3>. QED
      BY <3>1, <3>2
  <2>2. /\ above \in [S -> SUBSET S]
        /\ \A x \in S : x \notin above[x]
        /\ \A x, y \in S : x = y \/ x \in above[y] \/ y \in above[x]
        /\ \A x, y \in S : x \in above[y] => above[x] \subseteq above[y]
    <3>1. above \in [S -> SUBSET S]
      OBVIOUS
    <3>2. \A x \in S : x \notin above[x]
      OBVIOUS
    <3>3. \A x, y \in S : x = y \/ x \in above[y] \/ y \in above[x]
      OBVIOUS
    <3>4. ASSUME NEW x \in S, NEW y \in S, x \in above[y]
          PROVE  above[x] \subseteq above[y]
      <4>1. \A z \in S : z \in above[x] => z \in above[y]
        BY <3>4
      <4>2. above[x] \subseteq S
        BY <3>1
      <4>. QED
        BY <4>1, <4>2
    <3>. QED
      BY <3>1, <3>2, <3>3, <3>4
  <2>. HIDE DEF above
  <2>. QED
    BY <2>1, <2>2, Ranked
<1>2. CASE f = Descending(S)
  <2>. DEFINE above == [x \in S |-> {y \in S : x < y}]
  <2>1. /\ f = [i \in 1..Cardinality(S) |-> f[i]]
        /\ \A i \in 1..Cardinality(S) :
             (\E x \in S : Cardinality(above[x]) = i - 1) =>
               f[i] \in S /\ Cardinality(above[f[i]]) = i - 1
    <3>1. f = [i \in 1..Cardinality(S) |->
                 CHOOSE x \in S : Cardinality({y \in S : x < y}) = i - 1]
      BY <1>2 DEF Descending
    <3>2. ASSUME NEW i \in 1..Cardinality(S), \E x \in S : Cardinality(above[x]) = i - 1
          PROVE  f[i] \in S /\ Cardinality(above[f[i]]) = i - 1
      <4>1. f[i] = CHOOSE x \in S : Cardinality({y \in S : x < y}) = i - 1
        BY <3>1
      <4>2. \E x \in S : Cardinality({y \in S : x < y}) = i - 1
        BY <3>2
      <4>3. f[i] \in S /\ Cardinality({y \in S : f[i] < y}) = i - 1
        BY <4>1, <4>2
      <4>. QED
        BY <4>3
    <3>. QED
      BY <3>1, <3>2
  <2>2. /\ above \in [S -> SUBSET S]
        /\ \A x \in S : x \notin above[x]
        /\ \A x, y \in S : x = y \/ x \in above[y] \/ y \in above[x]
        /\ \A x, y \in S : x \in above[y] => above[x] \subseteq above[y]
    <3>1. above \in [S -> SUBSET S]
      OBVIOUS
    <3>2. \A x \in S : x \notin above[x]
      OBVIOUS
    <3>3. \A x, y \in S : x = y \/ x \in above[y] \/ y \in above[x]
      OBVIOUS
    <3>4. ASSUME NEW x \in S, NEW y \in S, x \in above[y]
          PROVE  above[x] \subseteq above[y]
      <4>1. \A z \in S : z \in above[x] => z \in above[y]
        BY <3>4
      <4>2. above[x] \subseteq S
        BY <3>1
      <4>. QED
        BY <4>1, <4>2
    <3>. QED
      BY <3>1, <3>2, <3>3, <3>4
  <2>. HIDE DEF above
  <2>. QED
    BY <2>1, <2>2, Ranked
<1>. QED
  BY <1>1, <1>2

LEMMA PagesCount ==
  ASSUME NEW n \in Nat, NEW size \in Nat \ {0}
  PROVE  /\ TotalPages(n, size) \in Nat \ {0}
         /\ n <= size * TotalPages(n, size)
         /\ n > 0 => \A page \in 1..TotalPages(n, size) : size * (page - 1) < n
         /\ n = 0 => TotalPages(n, size) = 1
<1>. DEFINE k == (n + size - 1) \div size
<1>1. k \in Nat /\ size * k <= n + size - 1 /\ n - 1 < size * k /\ size * k \in Int
  <2>1. n + size - 1 \in Nat
    OBVIOUS
  <2>2. k \in Nat /\ size * k <= n + size - 1 /\ n + size - 1 < size * k + size
    BY <2>1, Quotient
  <2>. HIDE DEF k
  <2>3. size * k \in Int
    BY <2>2, SMTT(30)
  <2>. QED
    BY <2>2, <2>3
<1>. HIDE DEF k
<1>2. TotalPages(n, size) = IF 1 < k THEN k ELSE 1
  BY DEF TotalPages, Greatest, k
<1>3. k = 0 => size * k = 0
  BY SMTT(30)
<1>4. n = 0 => k = 0
  <2>. SUFFICES ASSUME n = 0, 0 < k PROVE FALSE
    BY <1>1
  <2>1. size * k < size * 1
    BY <1>1
  <2>. QED
    BY <1>1, <2>1, Cancels
<1>5. ASSUME NEW page \in 1..k PROVE size * (page - 1) < n
  <2>1. PICK d \in Nat : k = page + d
    BY <1>1
  <2>2. size * k = size * (page - 1) + size + size * d /\ size * (page - 1) \in Int /\ size * d \in Nat
    BY <2>1, SMTT(30)
  <2>. QED
    BY <1>1, <2>2
<1>6. size * 1 = size
  OBVIOUS
<1>7. n <= size * TotalPages(n, size)
  BY <1>1, <1>2, <1>3, <1>6
<1>8. n > 0 => k >= 1
  BY <1>1, <1>3
<1>. QED
  BY <1>1, <1>2, <1>4, <1>5, <1>7, <1>8

LEMMA Clamped_In ==
  ASSUME NEW page \in Int, NEW total \in Nat \ {0}
  PROVE  /\ Clamp(page, total) \in 1..total
         /\ page \in 1..total => Clamp(page, total) = page
BY DEF Clamp, Greatest, Least

LEMMA SliceRows ==
  ASSUME NEW S, NEW list \in Seq(S), NEW page \in Nat \ {0}, NEW size \in Nat \ {0}
  PROVE  LET from == size * (page - 1)
             rows == Slice(list, page, size) IN
         /\ from \in Nat
         /\ rows \in Seq(S)
         /\ Len(rows) = Greatest(0, Least(size, Len(list) - from))
         /\ \A i \in 1..Len(rows) : from + i \in 1..Len(list) /\ rows[i] = list[from + i]
<1>. DEFINE from == size * (page - 1)
            rows == Slice(list, page, size)
            upto == Least(Len(list), from + size)
<1>1. from \in Nat
  BY SMTT(30)
<1>2. Offset(page, size) = from
  BY SMTT(30) DEF Offset
<1>. HIDE DEF from
<1>3. rows = SubSeq(list, from + 1, upto)
  BY <1>2 DEF Slice
<1>4. Len(list) \in Nat /\ upto \in Int /\ upto <= Len(list)
  BY <1>1 DEF Least
<1>5. \A i \in from + 1..upto : list[i] \in S
  BY <1>1, <1>4
<1>6. /\ rows \in Seq(S)
      /\ Len(rows) = IF from + 1 <= upto THEN upto - (from + 1) + 1 ELSE 0
      /\ \A i \in 1..upto - (from + 1) + 1 : rows[i] = list[from + 1 + i - 1]
  BY <1>1, <1>3, <1>4, <1>5, SubSeqProperties, SMTT(30)
<1>. HIDE DEF rows
<1>7. Len(rows) = Greatest(0, Least(size, Len(list) - from))
  BY <1>1, <1>4, <1>6 DEF Greatest, Least
<1>8. \A i \in 1..Len(rows) : from + i \in 1..Len(list) /\ rows[i] = list[from + i]
  BY <1>1, <1>4, <1>6, SMTT(30)
<1>. QED
  BY <1>1, <1>6, <1>7, <1>8 DEF from, rows
-----------------------------------------------------------------------------
(***************************************************************************)
(* The inductive invariant.                                                *)
(***************************************************************************)

Lists == Tracked \cup {"orders"}

DataRecords == [ids : [Tracked -> SUBSET Nat], date : 0..MaxDay]

\* The stages of a rendering: before its rows are read; while they are; after;
\* and those of these in which the cards are not what the FSM data says.
Early == {"queued", "none", "pick", "date", "default", "count", "page"}
Late == {"old", "delete", "forget", "head", "cards", "keep"}
Loose == {"forget", "head", "cards", "keep"}

\* The stages in which a run holds FSM data it has read.
Holding == {"none", "pick", "default", "forget", "keep"}

RunRecords ==
  [at : {"idle", "report"} \cup Early \cup Late, list : Lists, src : Nat, page : Int,
   pick : 0..MaxDay, day : 0..MaxDay, total : Nat, rows : Seq(Orders), report : SUBSET Orders,
   clean : BOOLEAN, ids : SUBSET Nat, sent : SUBSET Nat, mem : DataRecords]

WalkRecords == [page : Nat, seen : Seq(Orders), total : Nat, day : 0..MaxDay]

Types ==
  /\ status \in [Orders -> Statuses] /\ placed \in [Orders -> 0..MaxDay] /\ today \in 1..MaxDay
  /\ data \in [People -> DataRecords]
  /\ chat \in [People -> SUBSET Messages] /\ next \in [People -> Nat \ {0}]
  /\ run \in [Runs -> RunRecords]
  /\ shown \in [Tracked -> Seq(Orders)] /\ walk \in [Tracked -> WalkRecords]
  /\ spoilt \in SUBSET Tracked

Dated == \A o \in Orders : placed[o] \in 0..today /\ (placed[o] = 0 <=> status[o] = "none")

Chats ==
  \A p \in People : \A m \in chat[p] :
    /\ m.id < next[p] /\ \A n \in chat[p] : m.id = n.id => m = n
    /\ m.kind = "header" => m.list \in Tracked /\ Person(m.list) = p
    /\ m.kind = "card" => Len(m.rows) = 1

\* Ids that were given out, of which only cards of the list l are left.
Own(p, l, ids) ==
  /\ ids \subseteq 1..next[p] - 1
  /\ \A m \in chat[p] : m.id \in ids => m.kind = "card" /\ m.list = l

\* The message a button was on is no card.
Pressable(p, id) == id < next[p] /\ \A m \in chat[p] : m.id = id => m.kind # "card"

OwnRun(x) ==
  LET p == Person(x.list) IN
  /\ \A l \in Tracked : Own(p, l, x.mem.ids[l])
  /\ Own(p, x.list, x.ids) /\ Own(p, x.list, x.sent) /\ IsFiniteSet(x.sent)
  /\ x.src # 0 => Pressable(p, x.src)

DataOwn == \A p \in People, l \in Tracked : Own(p, l, data[p].ids[l])

Ids ==
  /\ DataOwn
  /\ \A r \in Runs : OwnRun(run[r])

\* The control of a rendering.
ControlOf(x) ==
  /\ x.at = "none" => x.list \in {"history", "active"}
  /\ x.at \in {"pick", "date", "default", "count", "page", "report"} => x.list = "report"
  /\ x.at \in Late \ {"cards"} => x.list \in Tracked
  /\ x.at \in {"default", "count", "page", "report"} \cup Late /\ x.list = "report" => x.day # 0
  /\ x.at \in Early => x.rows = <<>> /\ x.report = {}
  /\ x.at \in Early \cup {"report", "old", "delete", "forget", "head"} => x.sent = {}
  /\ x.at = "cards" => Cardinality(x.sent) < Len(x.rows)
  /\ x.at = "keep" => Cardinality(x.sent) = Len(x.rows)

Control == \A r \in Runs : ControlOf(run[r])

\* What a header may say: of m's page, orders and sums.
Honest(m) ==
  /\ Exists(m)
  /\ m.list = "report" => m.day # 0 /\ \A o \in ToSet(m.rows) \cup m.report : placed[o] = m.day
  /\ m.clean => /\ Filled(m)
                /\ m.list = "report" => /\ ToSet(m.rows) \subseteq m.report
                                        /\ Cardinality(m.report) = m.total

\* Orders that have been placed.
Told(m) == \A o \in ToSet(m.rows) : placed[o] # 0

\* What a rendering has read, to the stage it is at.
ReadingOf(x) ==
  LET now == Members("report", x.day) IN
  /\ Told(x)
  /\ x.at \in {"page", "report"} =>
       /\ Exists(x) /\ (x.clean => x.total = Cardinality(now))
       /\ \A o \in ToSet(x.rows) : placed[o] = x.day
  /\ x.at = "report" => x.report = {} /\ (x.clean => Filled(x) /\ ToSet(x.rows) \subseteq now)
  /\ x.at \in Late /\ x.list \in Tracked => Honest(x)

Readings == \A r \in Runs : ReadingOf(run[r])

\* Headers tell the truth; cards are of orders that have been placed.
Headers ==
  \A p \in People : \A m \in chat[p] :
    (m.kind = "header" => Honest(m)) /\ (m.kind = "card" => Told(m))

\* The walk from the first page to another has seen the listing so far.
WalkOf(l, w) ==
  LET list == Listing(l, w.day) IN
  w.page > 0 =>
    /\ w.total = Len(list) /\ Exists(w)
    /\ Len(w.seen) = Least(Len(list), PageSize * w.page)
    /\ \A i \in 1..Len(w.seen) : w.seen[i] = list[i]

Walks == \A l \in Tracked : WalkOf(l, walk[l])

CardIds(l) == {m.id : m \in Cards(l)}
CardRows(l) == {m.rows[1] : m \in Cards(l)}

\* A list is at rest when no run has begun to replace its cards.
Resting(l) == \A r \in Runs : run[r].list = l => run[r].at \notin Loose
Settled(l) ==
  /\ IsFiniteSet(CardIds(l)) /\ CardIds(l) = data[Person(l)].ids[l]
  /\ Cardinality(CardIds(l)) = Len(shown[l]) /\ CardRows(l) = ToSet(shown[l])

IsBusy(x) == x.at \notin {"idle", "queued"}
Beside(x, y) ==
  /\ IsBusy(x) /\ IsBusy(y) /\ x.list \in Tracked /\ y.list \in Tracked
  /\ Person(x.list) = Person(y.list)

\* The FSM data a run holds knows the ids of a list.
Knows(x, l) ==
  x.at \in Holding /\ Person(x.list) = Person(l) => x.mem.ids[l] = data[Person(l)].ids[l]

\* The cards of its list are those a run says, once it has deleted the old ones.
Renders(x) ==
  LET l == x.list IN
  /\ x.at = "delete" => x.ids = data[Person(l)].ids[l]
  /\ x.at \in {"forget", "head"} => CardIds(l) = {}
  /\ x.at \in {"cards", "keep"} =>
       CardIds(l) = x.sent /\ CardRows(l) = {x.rows[i] : i \in 1..Cardinality(x.sent)}

\* Two renderings for one person at once excuse their lists.
Alone == \A r, q \in Runs : r # q /\ Beside(run[r], run[q]) => run[r].list \in spoilt

Cardlists ==
  \A l \in Tracked \ spoilt :
    /\ Resting(l) => Settled(l)
    /\ \A r \in Runs : Knows(run[r], l) /\ (run[r].list = l => Renders(run[r]))

IInv ==
  /\ Types /\ Dated /\ Chats /\ Ids /\ Control /\ Readings /\ Headers /\ Walks
  /\ Alone /\ Cardlists
-----------------------------------------------------------------------------
(***************************************************************************)
(* Types, and what one step leaves as it is.                               *)
(***************************************************************************)

LEMMA NoRunType == NoData \in DataRecords /\ NoRun \in RunRecords
<1>1. 0 \in 0..MaxDay
  BY BoundsAssumption
<1>2. NoData \in DataRecords
  BY <1>1 DEF NoData, DataRecords
<1>3. <<>> \in Seq(Orders)
  OBVIOUS
<1>. QED
  BY <1>1, <1>2, <1>3 DEF NoRun, RunRecords, Lists, Tracked, Early, Late

LEMMA PersonType == \A l \in Lists : Person(l) \in People
BY DEF Person, People, Lists, Tracked

LEMMA MessageType ==
  ASSUME NEW id \in Nat \ {0}, NEW kind \in {"header", "card", "calendar", "note"},
         NEW x \in RunRecords, x.page \in Nat \ {0}
  PROVE  /\ Message(id, kind, x) \in Messages
         /\ \A f \in {"plain", "filter", "asks", "closed"} :
              [Message(id, kind, x) EXCEPT !.flag = f] \in Messages
BY DEF Message, Messages, RunRecords, Lists

LEMMA CardType ==
  ASSUME NEW id \in Nat \ {0}, NEW l \in Lists, NEW o \in Orders
  PROVE  /\ Card(id, l, o) \in Messages
         /\ Card(id, l, o).id = id /\ Card(id, l, o).kind = "card" /\ Card(id, l, o).list = l
         /\ Card(id, l, o).rows = <<o>>
<1>1. <<o>> \in Seq(Orders)
  OBVIOUS
<1>2. [NoRun EXCEPT !.list = l, !.rows = <<o>>] \in RunRecords
  BY <1>1, NoRunType DEF RunRecords
<1>3. [NoRun EXCEPT !.list = l, !.rows = <<o>>].page = 1
  BY DEF NoRun
<1>4. Message(id, "card", [NoRun EXCEPT !.list = l, !.rows = <<o>>]) \in Messages
  <2>1. PICK x \in RunRecords : x = [NoRun EXCEPT !.list = l, !.rows = <<o>>]
    BY <1>2
  <2>2. x.page \in Nat \ {0}
    BY <1>3, <2>1
  <2>3. Message(id, "card", x) \in Messages
    BY <2>2, MessageType
  <2>. QED
    BY <2>1, <2>3
<1>5. NoRun.list \in Lists /\ NoRun.rows = <<>>
  BY DEF NoRun, Lists, Tracked
<1>. QED
  BY <1>4 DEF Card, Message, NoRun

LEMMA OneRun ==
  ASSUME run \in [Runs -> RunRecords], NEW r \in Runs, NEW y \in RunRecords,
         run' = [run EXCEPT ![r] = y]
  PROVE  run' \in [Runs -> RunRecords] /\ run'[r] = y /\ \A q \in Runs \ {r} : run'[q] = run[q]
OBVIOUS

LEMMA ControlStep ==
  ASSUME run \in [Runs -> RunRecords], Control, NEW r \in Runs, NEW y \in RunRecords,
         run' = [run EXCEPT ![r] = y], ControlOf(y)
  PROVE  Control'
BY DEF Control

LEMMA ReadingsStep ==
  ASSUME run \in [Runs -> RunRecords], Readings, NEW r \in Runs, NEW CONSTANT y \in RunRecords,
         run' = [run EXCEPT ![r] = y], ReadingOf(y), UNCHANGED <<status, placed>>
  PROVE  Readings'
<1>1. \A l, d : Members(l, d)' = Members(l, d)
  BY DEF Members
<1>2. \A m : Honest(m)' = Honest(m) /\ Told(m)' = Told(m)
  BY DEF Honest, Told
<1>3. \A x : ReadingOf(x) => ReadingOf(x)'
  BY <1>1, <1>2 DEF ReadingOf
<1>. QED
  BY <1>3 DEF Readings
\* What every later step may rely on: ids stay those of cards, buttons those of
\* other messages.
Steady ==
  /\ \A p \in People, l \in Lists : \A ids \in SUBSET Nat : Own(p, l, ids) => Own(p, l, ids)'
  /\ \A p \in People, i \in Nat : Pressable(p, i) => Pressable(p, i)'

CardsKept == \A l \in Tracked : CardIds(l)' = CardIds(l) /\ CardRows(l)' = CardRows(l)

LEMMA SameChat ==
  ASSUME Chats, UNCHANGED <<chat, next>>
  PROVE  Chats' /\ Steady /\ CardsKept
<1>1. Chats'
  BY DEF Chats
<1>2. Steady
  BY DEF Steady, Own, Pressable
<1>3. CardsKept
  BY DEF CardsKept, CardIds, CardRows, Cards
<1>. QED
  BY <1>1, <1>2, <1>3

Fits(p, m) ==
  /\ m.kind = "header" => m.list \in Tracked /\ Person(m.list) = p
  /\ m.kind = "card" => Len(m.rows) = 1

LEMMA Added ==
  ASSUME Types, Chats, NEW p \in People, NEW CONSTANT m \in Messages, m.id = next[p], Fits(p, m),
         chat' = [chat EXCEPT ![p] = @ \cup {m}], next' = [next EXCEPT ![p] = @ + 1]
  PROVE  /\ chat' \in [People -> SUBSET Messages] /\ next' \in [People -> Nat \ {0}]
         /\ Chats' /\ Steady
         /\ \A l \in Tracked :
              IF m.kind = "card" /\ m.list = l /\ Person(l) = p
              THEN CardIds(l)' = CardIds(l) \cup {m.id} /\ CardRows(l)' = CardRows(l) \cup {m.rows[1]}
              ELSE CardIds(l)' = CardIds(l) /\ CardRows(l)' = CardRows(l)
<1>1. chat \in [People -> SUBSET Messages] /\ next \in [People -> Nat \ {0}]
  BY DEF Types
<1>2. /\ chat' \in [People -> SUBSET Messages] /\ next' \in [People -> Nat \ {0}]
      /\ chat'[p] = chat[p] \cup {m} /\ next'[p] = next[p] + 1
      /\ \A q \in People \ {p} : chat'[q] = chat[q] /\ next'[q] = next[q]
  BY <1>1
<1>3. \A q \in People : \A n \in chat[q] : n \in Messages /\ n.id \in Nat /\ n.id < next[q]
  BY <1>1 DEF Chats, Messages
<1>4. Chats'
  <2>1. ASSUME NEW q \in People, NEW n \in chat'[q]
        PROVE  n.id < next'[q] /\ Fits(q, n)
    BY <1>1, <1>2, <1>3, <2>1 DEF Chats, Fits
  <2>2. ASSUME NEW q \in People, NEW n \in chat'[q], NEW k \in chat'[q], n.id = k.id
        PROVE  n = k
    <3>1. CASE q # p
      BY <1>2, <2>2, <3>1 DEF Chats
    <3>2. CASE q = p
      BY <1>1, <1>2, <1>3, <2>2, <3>2 DEF Chats
    <3>. QED
      BY <3>1, <3>2
  <2>. QED
    BY <2>1, <2>2 DEF Chats, Fits
<1>5. Steady
  <2>1. ASSUME NEW q \in People, NEW l \in Lists, NEW ids \in SUBSET Nat, Own(q, l, ids)
        PROVE  Own(q, l, ids)'
    <3>1. ids \subseteq 1..next[q] - 1
      BY <2>1 DEF Own
    <3>2. next'[q] = next[q] \/ next'[q] = next[q] + 1
      BY <1>2
    <3>3. ids \subseteq 1..next'[q] - 1
      BY <1>1, <3>1, <3>2
    <3>4. ASSUME NEW n \in chat'[q], n.id \in ids PROVE n.kind = "card" /\ n.list = l
      <4>1. n \in chat[q]
        BY <1>1, <1>2, <3>1, <3>4
      <4>. QED
        BY <2>1, <3>4, <4>1 DEF Own
    <3>. QED
      BY <3>3, <3>4 DEF Own
  <2>2. ASSUME NEW q \in People, NEW i \in Nat, Pressable(q, i)
        PROVE  Pressable(q, i)'
    <3>1. i < next[q] /\ i < next'[q]
      BY <1>1, <1>2, <2>2 DEF Pressable
    <3>2. ASSUME NEW n \in chat'[q], n.id = i PROVE n.kind # "card"
      <4>1. n \in chat[q]
        BY <1>1, <1>2, <3>1, <3>2
      <4>. QED
        BY <2>2, <3>2, <4>1 DEF Pressable
    <3>. QED
      BY <3>1, <3>2 DEF Pressable
  <2>. QED
    BY <2>1, <2>2 DEF Steady
<1>6. ASSUME NEW l \in Tracked
      PROVE  Cards(l)' = IF m.kind = "card" /\ m.list = l /\ Person(l) = p
                         THEN Cards(l) \cup {m} ELSE Cards(l)
  <2>1. Person(l) \in People
    BY PersonType DEF Lists
  <2>. QED
    BY <1>2, <2>1 DEF Cards
<1>7. ASSUME NEW l \in Tracked
      PROVE  IF m.kind = "card" /\ m.list = l /\ Person(l) = p
             THEN CardIds(l)' = CardIds(l) \cup {m.id} /\ CardRows(l)' = CardRows(l) \cup {m.rows[1]}
             ELSE CardIds(l)' = CardIds(l) /\ CardRows(l)' = CardRows(l)
  BY <1>6 DEF CardIds, CardRows
<1>. QED
  BY <1>2, <1>4, <1>5, <1>7

\* An edit: a card stays a card of its list and its order, no other becomes one.
LEMMA Edited ==
  ASSUME Types, Chats, NEW p \in People, NEW CONSTANT m \in chat[p], NEW CONSTANT new \in Messages,
         new.id = m.id, Fits(p, new), new.kind = "card" <=> m.kind = "card",
         m.kind = "card" => new.list = m.list /\ new.rows = m.rows,
         chat' = [chat EXCEPT ![p] = (@ \ {m}) \cup {new}], next' = next
  PROVE  /\ chat' \in [People -> SUBSET Messages]
         /\ Chats' /\ Steady /\ CardsKept
<1>1. chat \in [People -> SUBSET Messages] /\ next \in [People -> Nat \ {0}]
  BY DEF Types
<1>2. /\ chat' \in [People -> SUBSET Messages]
      /\ chat'[p] = (chat[p] \ {m}) \cup {new}
      /\ \A q \in People \ {p} : chat'[q] = chat[q]
  BY <1>1
<1>3. ASSUME NEW q \in People, NEW n \in chat'[q]
      PROVE  \E k \in chat[q] : /\ k.id = n.id /\ (n.kind = "card" <=> k.kind = "card")
                                /\ k.kind = "card" => n.list = k.list /\ n.rows = k.rows
                                /\ n = k \/ (q = p /\ k = m /\ n = new)
  BY <1>2, <1>3
<1>4. Chats'
  <2>1. ASSUME NEW q \in People, NEW n \in chat'[q]
        PROVE  n.id < next'[q] /\ Fits(q, n)
    BY <1>3, <2>1 DEF Chats, Fits
  <2>2. ASSUME NEW q \in People, NEW n \in chat'[q], NEW k \in chat'[q], n.id = k.id
        PROVE  n = k
    <3>1. CASE q # p
      BY <1>2, <2>2, <3>1 DEF Chats
    <3>2. CASE q = p
      BY <1>1, <1>2, <2>2, <3>2 DEF Chats
    <3>. QED
      BY <3>1, <3>2
  <2>. QED
    BY <2>1, <2>2 DEF Chats, Fits
<1>5. Steady
  BY <1>3 DEF Steady, Own, Pressable
<1>6. ASSUME NEW l \in Tracked
      PROVE  /\ \A n \in Cards(l)' : \E k \in Cards(l) : k.id = n.id /\ k.rows = n.rows
             /\ \A k \in Cards(l) : \E n \in Cards(l)' : k.id = n.id /\ k.rows = n.rows
  <2>1. Person(l) \in People
    BY PersonType DEF Lists
  <2>2. \A n \in Cards(l)' : \E k \in Cards(l) : k.id = n.id /\ k.rows = n.rows
    BY <1>3, <2>1 DEF Cards
  <2>3. ASSUME NEW k \in Cards(l) PROVE \E n \in Cards(l)' : k.id = n.id /\ k.rows = n.rows
    <3>1. CASE k = m /\ Person(l) = p
      <4>1. new \in Cards(l)'
        BY <1>2, <3>1, <2>3 DEF Cards
      <4>. QED
        BY <2>3, <3>1, <4>1 DEF Cards
    <3>2. CASE ~(k = m /\ Person(l) = p)
      BY <1>2, <2>1, <2>3, <3>2 DEF Cards
    <3>. QED
      BY <3>1, <3>2
  <2>. QED
    BY <2>2, <2>3
<1>7. CardsKept
  BY <1>6 DEF CardsKept, CardIds, CardRows
<1>. QED
  BY <1>2, <1>4, <1>5, <1>7

LEMMA Removed ==
  ASSUME Types, Chats, NEW p \in People, NEW CONSTANT gone,
         chat' = [chat EXCEPT ![p] = {m \in @ : m \notin gone}], next' = next
  PROVE  /\ chat' \in [People -> SUBSET Messages]
         /\ Chats' /\ Steady
         /\ \A l \in Tracked : (\A m \in gone : m \in Cards(l) => Person(l) # p) =>
              CardIds(l)' = CardIds(l) /\ CardRows(l)' = CardRows(l)
<1>1. chat \in [People -> SUBSET Messages] /\ next \in [People -> Nat \ {0}]
  BY DEF Types
<1>2. /\ chat' \in [People -> SUBSET Messages]
      /\ chat'[p] = {m \in chat[p] : m \notin gone}
      /\ \A q \in People \ {p} : chat'[q] = chat[q]
  BY <1>1
<1>3. \A q \in People : chat'[q] \subseteq chat[q]
  BY <1>2
<1>4. Chats'
  BY <1>3 DEF Chats
<1>5. Steady
  BY <1>3 DEF Steady, Own, Pressable
<1>6. ASSUME NEW l \in Tracked, \A m \in gone : m \in Cards(l) => Person(l) # p
      PROVE  Cards(l)' = Cards(l)
  <2>1. Person(l) \in People
    BY PersonType DEF Lists
  <2>. QED
    BY <1>2, <1>6, <2>1 DEF Cards
<1>7. ASSUME NEW l \in Tracked, \A m \in gone : m \in Cards(l) => Person(l) # p
      PROVE  CardIds(l)' = CardIds(l) /\ CardRows(l)' = CardRows(l)
  BY <1>6, <1>7 DEF CardIds, CardRows
<1>. QED
  BY <1>2, <1>4, <1>5, <1>7
LEMMA OwnKept ==
  ASSUME Types, Steady, NEW CONSTANT x \in RunRecords, OwnRun(x)
  PROVE  OwnRun(x)'
<1>1. Person(x.list) \in People /\ x.list \in Lists
  BY PersonType DEF RunRecords
<1>2. \A l \in Tracked : x.mem.ids[l] \in SUBSET Nat /\ l \in Lists
  BY DEF RunRecords, DataRecords, Lists
<1>3. x.ids \in SUBSET Nat /\ x.sent \in SUBSET Nat /\ x.src \in Nat
  BY DEF RunRecords
<1>. QED
  BY <1>1, <1>2, <1>3 DEF OwnRun, Steady

LEMMA NoRunOwn == OwnRun(NoRun) /\ OwnRun(NoRun)'
<1>1. \A l \in Tracked : NoRun.mem.ids[l] = {}
  BY DEF NoRun, NoData
<1>2. NoRun.ids = {} /\ NoRun.sent = {} /\ NoRun.src = 0
  BY DEF NoRun
<1>. QED
  BY <1>1, <1>2, FS_EmptySet DEF OwnRun, Own

LEMMA DataSame ==
  ASSUME Types, Ids, Steady, UNCHANGED data
  PROVE  DataOwn'
<1>1. \A p \in People, l \in Tracked : data[p].ids[l] \in SUBSET Nat /\ l \in Lists
  BY DEF Types, DataRecords, Lists
<1>. QED
  BY <1>1 DEF Ids, DataOwn, Steady

LEMMA DataSet ==
  ASSUME Types, Ids, Steady, NEW p \in People, NEW CONSTANT d \in DataRecords,
         data' = [data EXCEPT ![p] = d], \A l \in Tracked : Own(p, l, d.ids[l])
  PROVE  data' \in [People -> DataRecords] /\ DataOwn'
<1>1. \A q \in People, l \in Tracked :
        data[q].ids[l] \in SUBSET Nat /\ d.ids[l] \in SUBSET Nat /\ l \in Lists
  BY DEF Types, DataRecords, Lists
<1>2. data' \in [People -> DataRecords] /\ \A q \in People : data'[q] = IF q = p THEN d ELSE data[q]
  BY DEF Types
<1>3. ASSUME NEW q \in People, NEW l \in Tracked PROVE Own(q, l, data[q].ids[l])'
  <2>1. CASE q = p
    <3>1. Own(q, l, d.ids[l])'
      BY <1>1, <2>1 DEF Steady
    <3>. QED
      BY <1>2, <2>1, <3>1 DEF Own
  <2>2. CASE q # p
    <3>1. Own(q, l, data[q].ids[l])
      BY DEF Ids, DataOwn
    <3>2. PICK ids \in SUBSET Nat : ids = data[q].ids[l]
      BY <1>1
    <3>3. Own(q, l, ids)'
      BY <1>1, <3>1, <3>2 DEF Steady
    <3>. QED
      BY <1>2, <2>2, <3>2, <3>3 DEF Own
  <2>. QED
    BY <2>1, <2>2
<1>. QED
  BY <1>2, <1>3 DEF DataOwn, Own

LEMMA IdsStep ==
  ASSUME Types, Ids, Steady, DataOwn', NEW r \in Runs, NEW CONSTANT y \in RunRecords,
         run' = [run EXCEPT ![r] = y], OwnRun(y)'
  PROVE  Ids'
<1>1. ASSUME NEW q \in Runs PROVE OwnRun(run[q])'
  <2>1. CASE q = r
    <3>1. run'[q] = y
      BY <2>1 DEF Types
    <3>. QED
      BY <3>1
  <2>2. CASE q # r
    <3>1. PICK x \in RunRecords : x = run[q]
      BY DEF Types
    <3>2. OwnRun(x)'
      BY <3>1, OwnKept DEF Ids
    <3>3. run'[q] = x
      BY <2>2, <3>1 DEF Types
    <3>. QED
      BY <3>2, <3>3
  <2>. QED
    BY <2>1, <2>2
<1>. QED
  BY <1>1 DEF Ids

LEMMA IdsSame ==
  ASSUME Types, Ids, Steady, DataOwn', \A r \in Runs : run'[r] \in RunRecords,
         \A r \in Runs : run'[r].list = run[r].list /\ run'[r].mem = run[r].mem
           /\ run'[r].ids = run[r].ids /\ run'[r].sent = run[r].sent /\ run'[r].src = run[r].src
  PROVE  Ids'
<1>1. ASSUME NEW q \in Runs PROVE OwnRun(run[q])'
  <2>1. PICK x \in RunRecords : x = run[q]
    BY DEF Types
  <2>2. OwnRun(x)'
    BY <2>1, OwnKept DEF Ids
  <2>. QED
    BY <2>1, <2>2 DEF OwnRun
<1>. QED
  BY <1>1 DEF Ids

LEMMA HonestKept ==
  ASSUME Types, \A o \in Orders : placed[o] # 0 => placed'[o] = placed[o],
         NEW CONSTANT m, m.rows \in Seq(Orders), m.report \subseteq Orders
  PROVE  (Honest(m) => Honest(m)') /\ (Told(m) => Told(m)')
<1>1. ToSet(m.rows) \subseteq Orders
  <2>1. DOMAIN m.rows = 1..Len(m.rows) /\ \A i \in 1..Len(m.rows) : m.rows[i] \in Orders
    BY LenProperties, ElementOfSeq
  <2>. QED
    BY <2>1 DEF ToSet
<1>2. Told(m) => Told(m)'
  BY <1>1 DEF Told
<1>3. Honest(m) => Honest(m)'
  BY <1>1 DEF Honest
<1>. QED
  BY <1>2, <1>3

LEMMA HeadersStep ==
  ASSUME Types, Headers, \A o \in Orders : placed[o] # 0 => placed'[o] = placed[o],
         \A p \in People : \A m \in chat'[p] :
           m \in chat[p] \/ ((m.kind = "header" => Honest(m)') /\ (m.kind = "card" => Told(m)'))
  PROVE  Headers'
<1>1. SUFFICES ASSUME NEW p \in People, NEW m \in chat[p]
               PROVE  (m.kind = "header" => Honest(m)') /\ (m.kind = "card" => Told(m)')
  BY DEF Headers
<1>2. PICK n \in Messages : n = m
  BY DEF Types
<1>3. /\ (n.kind = "header" => Honest(n)) /\ (n.kind = "card" => Told(n))
      /\ n.rows \in Seq(Orders) /\ n.report \subseteq Orders
  BY <1>1, <1>2 DEF Headers, Messages
<1>4. (Honest(n) => Honest(n)') /\ (Told(n) => Told(n)')
  BY <1>3, HonestKept
<1>. QED
  BY <1>2, <1>3, <1>4

LEMMA WalksStep ==
  ASSUME Types, Walks, UNCHANGED <<status, placed>>, NEW l \in Tracked,
         NEW CONSTANT w \in WalkRecords, WalkOf(l, w), walk' = [walk EXCEPT ![l] = w]
  PROVE  walk' \in [Tracked -> WalkRecords] /\ Walks'
<1>1. \A k, d : Listing(k, d)' = Listing(k, d)
  BY DEF Listing, Members
<1>2. \A k, v : WalkOf(k, v)' = WalkOf(k, v)
  BY <1>1 DEF WalkOf
<1>. QED
  BY <1>2 DEF Walks, Types

LEMMA WalksSame ==
  ASSUME Walks, UNCHANGED <<status, placed, walk>>
  PROVE  Walks'
<1>1. \A k, d : Listing(k, d)' = Listing(k, d)
  BY DEF Listing, Members
<1>2. \A k, v : WalkOf(k, v)' = WalkOf(k, v)
  BY <1>1 DEF WalkOf
<1>. QED
  BY <1>2 DEF Walks
\* A list that a step leaves as it is.
ListKept(l) ==
  /\ CardIds(l)' = CardIds(l) /\ CardRows(l)' = CardRows(l)
  /\ shown'[l] = shown[l] /\ data'[Person(l)].ids[l] = data[Person(l)].ids[l]

LEMMA SettledKept ==
  ASSUME NEW l \in Tracked, ListKept(l), Settled(l)
  PROVE  Settled(l)'
BY DEF ListKept, Settled

LEMMA RendersKept ==
  ASSUME NEW CONSTANT x \in RunRecords, ListKept(x.list), Renders(x)
  PROVE  Renders(x)'
BY DEF ListKept, Renders

LEMMA KnowsKept ==
  ASSUME NEW CONSTANT x \in RunRecords, NEW l \in Tracked, ListKept(l), Knows(x, l)
  PROVE  Knows(x, l)'
BY DEF ListKept, Knows

\* A step of a run that is busy with its list, and may end with it.
LEMMA BusyStep ==
  ASSUME Types, Control, Alone, Cardlists, NEW r \in Runs, NEW CONSTANT y \in RunRecords,
         NEW CONSTANT k \in Tracked, run[r].list = k, IsBusy(run[r]),
         run' = [run EXCEPT ![r] = y], y.list = k \/ y = NoRun,
         spoilt \subseteq spoilt', \A l \in Tracked \ spoilt' : l # k => ListKept(l),
         k \notin spoilt' /\ y.at \notin Loose => Settled(k)',
         k \notin spoilt' /\ y.list = k => Renders(y)',
         \A l \in Tracked \ spoilt' : Knows(y, l)'
  PROVE  Alone' /\ Cardlists'
<1>1. /\ run' \in [Runs -> RunRecords] /\ run'[r] = y
      /\ \A q \in Runs \ {r} : run'[q] = run[q] /\ run[q] \in RunRecords
  BY DEF Types
<1>2. IsBusy(y) => y.list = k
  BY DEF IsBusy, NoRun
<1>3. Alone'
  <2>1. ASSUME NEW a \in Runs, NEW b \in Runs, a # b, Beside(run'[a], run'[b])
        PROVE  run'[a].list \in spoilt'
    <3>1. run'[a].list = run[a].list /\ run'[b].list = run[b].list
      BY <1>1, <1>2, <2>1 DEF Beside
    <3>2. Beside(run[a], run[b])
      BY <1>1, <2>1, <3>1 DEF Beside
    <3>. QED
      BY <2>1, <3>1, <3>2 DEF Alone
  <2>. QED
    BY <2>1 DEF Alone
<1>4. ASSUME NEW q \in Runs \ {r}, IsBusy(run[q]), run[q].list \in Tracked,
             Person(run[q].list) = Person(k)
      PROVE  k \in spoilt'
  <2>1. Beside(run[r], run[q])
    BY <1>4 DEF Beside
  <2>. QED
    BY <2>1 DEF Alone
<1>5. ASSUME NEW l \in Tracked \ spoilt', Resting(l)'
      PROVE  Settled(l)'
  <2>1. CASE l = k
    <3>1. y.at \notin Loose
      <4>1. CASE y.list = k
        BY <1>1, <1>5, <2>1, <4>1 DEF Resting
      <4>2. CASE y = NoRun
        BY <4>2 DEF NoRun, Loose
      <4>. QED
        BY <4>1, <4>2
    <3>. QED
      BY <2>1, <3>1
  <2>2. CASE l # k
    <3>1. Resting(l)
      BY <1>1, <1>5, <2>2 DEF Resting
    <3>2. Settled(l) /\ ListKept(l)
      BY <2>2, <3>1 DEF Cardlists
    <3>. QED
      BY <3>2, SettledKept
  <2>. QED
    BY <2>1, <2>2
<1>6. ASSUME NEW l \in Tracked \ spoilt', NEW q \in Runs
      PROVE  Knows(run[q], l)' /\ (run'[q].list = l => Renders(run[q])')
  <2>1. CASE q = r
    <3>1. Knows(run[q], l)'
      BY <1>1, <2>1 DEF Knows
    <3>2. y.list = l => Renders(run[q])'
      <4>1. ASSUME y.list = l, l = k PROVE Renders(run[q])'
        BY <1>1, <2>1, <4>1 DEF Renders
      <4>2. ASSUME y.list = l, y = NoRun PROVE Renders(run[q])'
        BY <1>1, <2>1, <4>2 DEF Renders, NoRun
      <4>. QED
        BY <4>1, <4>2
    <3>. QED
      BY <1>1, <2>1, <3>1, <3>2
  <2>2. CASE q # r
    <3>1. PICK x \in RunRecords : x = run[q] /\ x = run'[q]
      BY <1>1, <2>2
    <3>2. Knows(x, l) /\ (x.list = l => Renders(x))
      BY <3>1 DEF Cardlists
    <3>3. Knows(x, l)'
      <4>1. CASE l # k
        BY <3>2, <4>1, KnowsKept
      <4>2. CASE l = k
        <5>1. x.at \in Holding => IsBusy(x) /\ x.list \in Tracked
          BY <3>1 DEF Control, ControlOf, Holding, IsBusy, Late, Tracked
        <5>2. ~(x.at \in Holding /\ Person(x.list) = Person(l))
          BY <1>4, <2>2, <3>1, <4>2, <5>1
        <5>. QED
          BY <5>2 DEF Knows
      <4>. QED
        BY <4>1, <4>2
    <3>4. x.list = l => Renders(x)'
      <4>1. CASE l # k
        BY <3>2, <4>1, RendersKept
      <4>2. CASE l = k /\ x.list = l
        <5>1. ~IsBusy(x)
          BY <1>4, <2>2, <3>1, <4>2
        <5>. QED
          BY <5>1 DEF Renders, IsBusy
      <4>. QED
        BY <4>1, <4>2
    <3>. QED
      BY <3>1, <3>3, <3>4 DEF Knows, Renders
  <2>. QED
    BY <2>1, <2>2
<1>. QED
  BY <1>3, <1>5, <1>6 DEF Cardlists

\* A step that leaves every list as it is, of a run that does not render one.
LEMMA QuietStep ==
  ASSUME Types, Alone, Cardlists, NEW r \in Runs, NEW CONSTANT y \in RunRecords,
         run' = [run EXCEPT ![r] = y], spoilt \subseteq spoilt',
         \A l \in Tracked \ spoilt' : ListKept(l),
         run[r].at \in Loose => run[r].list \notin Tracked \/ run[r].list \in spoilt',
         \A q \in Runs \ {r} : Beside(y, run[q]) => y.list \in spoilt' /\ run[q].list \in spoilt',
         y.list \in Tracked \ spoilt' => y.at \notin Loose \cup {"delete"},
         \A l \in Tracked \ spoilt' : Knows(y, l)'
  PROVE  Alone' /\ Cardlists'
<1>1. /\ run' \in [Runs -> RunRecords] /\ run'[r] = y
      /\ \A q \in Runs \ {r} : run'[q] = run[q] /\ run[q] \in RunRecords
  BY DEF Types
<1>3. Alone'
  <2>1. ASSUME NEW a \in Runs, NEW b \in Runs, a # b, Beside(run'[a], run'[b])
        PROVE  run'[a].list \in spoilt'
    <3>1. CASE a = r
      BY <1>1, <2>1, <3>1
    <3>2. CASE b = r
      <4>1. Beside(y, run[a])
        BY <1>1, <2>1, <3>2 DEF Beside
      <4>. QED
        BY <1>1, <2>1, <3>2, <4>1
    <3>3. CASE a # r /\ b # r
      BY <1>1, <2>1, <3>3 DEF Alone
    <3>. QED
      BY <3>1, <3>2, <3>3
  <2>. QED
    BY <2>1 DEF Alone
<1>5. ASSUME NEW l \in Tracked \ spoilt', Resting(l)'
      PROVE  Settled(l)'
  <2>1. Resting(l)
    BY <1>1, <1>5 DEF Resting
  <2>2. Settled(l) /\ ListKept(l)
    BY <2>1 DEF Cardlists
  <2>. QED
    BY <2>2, SettledKept
<1>6. ASSUME NEW l \in Tracked \ spoilt', NEW q \in Runs
      PROVE  Knows(run[q], l)' /\ (run'[q].list = l => Renders(run[q])')
  <2>1. CASE q = r
    <3>1. Knows(run[q], l)'
      BY <1>1, <2>1 DEF Knows
    <3>2. y.list = l => Renders(run[q])'
      BY <1>1, <2>1 DEF Renders, Loose
    <3>. QED
      BY <1>1, <2>1, <3>1, <3>2
  <2>2. CASE q # r
    <3>1. PICK x \in RunRecords : x = run[q] /\ x = run'[q]
      BY <1>1, <2>2
    <3>2. Knows(x, l) /\ (x.list = l => Renders(x))
      BY <3>1 DEF Cardlists
    <3>3. Knows(x, l)'
      BY <3>2, KnowsKept
    <3>4. x.list = l => Renders(x)'
      BY <3>2, RendersKept
    <3>. QED
      BY <3>1, <3>3, <3>4 DEF Knows, Renders
  <2>. QED
    BY <2>1, <2>2
<1>. QED
  BY <1>3, <1>5, <1>6 DEF Cardlists

\* A step of the staff, a customer or the database.
LEMMA OutsideStep ==
  ASSUME Types, Alone, Cardlists, spoilt \subseteq spoilt', \A l \in Tracked \ spoilt' : ListKept(l),
         \A q \in Runs : run'[q] \in RunRecords,
         \A q \in Runs : /\ run'[q].at = run[q].at /\ run'[q].list = run[q].list
                        /\ run'[q].mem = run[q].mem /\ run'[q].ids = run[q].ids
                        /\ run'[q].sent = run[q].sent /\ run'[q].rows = run[q].rows
  PROVE  Alone' /\ Cardlists'
<1>2. Alone'
  BY DEF Alone, Beside, IsBusy
<1>3. ASSUME NEW l \in Tracked \ spoilt', Resting(l)'
      PROVE  Settled(l)'
  <2>1. Resting(l)
    BY <1>3 DEF Resting
  <2>2. Settled(l) /\ ListKept(l)
    BY <2>1 DEF Cardlists
  <2>. QED
    BY <2>2, SettledKept
<1>4. ASSUME NEW l \in Tracked \ spoilt', NEW q \in Runs
      PROVE  Knows(run[q], l)' /\ (run'[q].list = l => Renders(run[q])')
  <2>1. PICK x \in RunRecords : x = run[q]
    BY DEF Types
  <2>2. ListKept(l) /\ Knows(x, l) /\ (x.list = l => Renders(x))
    BY <2>1 DEF Cardlists
  <2>3. Knows(x, l)' /\ (x.list = l => Renders(x)')
    BY <2>2, KnowsKept, RendersKept
  <2>4. Knows(run[q], l)'
    BY <2>1, <2>3 DEF Knows
  <2>5. run'[q].list = l => Renders(run[q])'
    BY <2>1, <2>3 DEF Renders
  <2>. QED
    BY <2>4, <2>5
<1>. QED
  BY <1>2, <1>3, <1>4 DEF Cardlists
-----------------------------------------------------------------------------
(***************************************************************************)
(* The listings.                                                           *)
(***************************************************************************)

LEMMA MembersType ==
  ASSUME NEW l, NEW day
  PROVE  Members(l, day) \in SUBSET Orders /\ IsFiniteSet(Members(l, day))
<1>1. Members(l, day) \in SUBSET Orders
  BY DEF Members
<1>. QED
  BY <1>1, OrdersAssumption, FS_Subset

LEMMA ListingType ==
  ASSUME NEW l, NEW day
  PROVE  /\ Listing(l, day) \in Seq(Orders) /\ Len(Listing(l, day)) = Cardinality(Members(l, day))
         /\ Len(Listing(l, day)) \in Nat
         /\ IsInjective(Listing(l, day)) /\ ToSet(Listing(l, day)) = Members(l, day)
<1>. DEFINE S == Members(l, day)
            f == Listing(l, day)
<1>1. S \in SUBSET Orders /\ IsFiniteSet(S)
  BY MembersType
<1>2. Orders \in SUBSET Int
  <2>1. Cardinality(Orders) \in Nat
    BY OrdersAssumption, FS_CardinalityType
  <2>. QED
    BY <2>1, OrdersAssumption
<1>3. f = Descending(S)
  BY DEF Listing
<1>. HIDE DEF S, f
<1>4. f \in Seq(S) /\ Len(f) = Cardinality(S) /\ IsInjective(f) /\ ToSet(f) = S
  <2>1. S \in SUBSET Int
    BY <1>1, <1>2
  <2>. QED
    BY <1>1, <1>3, <2>1, Sorted
<1>5. f \in Seq(Orders)
  BY <1>1, <1>4, SeqMonotonic
<1>6. Cardinality(S) \in Nat
  BY <1>1, FS_CardinalityType
<1>. QED
  BY <1>4, <1>5, <1>6 DEF S, f

\* A page of a listing.
LEMMA PageRows ==
  ASSUME NEW l, NEW day, NEW page \in 1..TotalPages(Len(Listing(l, day)), PageSize)
  PROVE  LET list == Listing(l, day)
             rows == Slice(list, page, PageSize)
             from == PageSize * (page - 1) IN
         /\ from \in Nat /\ from <= Len(list) /\ (page > 1 => from < Len(list))
         /\ rows \in Seq(Orders) /\ ToSet(rows) \subseteq Members(l, day)
         /\ Len(rows) = Least(PageSize, Len(list) - from)
         /\ \A i \in 1..Len(rows) : from + i \in 1..Len(list) /\ rows[i] = list[from + i]
<1>. DEFINE list == Listing(l, day)
            rows == Slice(list, page, PageSize)
            from == PageSize * (page - 1)
<1>1. list \in Seq(Orders) /\ Len(list) \in Nat /\ ToSet(list) = Members(l, day)
  BY ListingType
<1>2. PageSize \in Nat \ {0}
  BY BoundsAssumption
<1>3. TotalPages(Len(list), PageSize) \in Nat \ {0} /\ page \in 1..TotalPages(Len(list), PageSize)
  BY <1>1, <1>2, PagesCount
<1>. HIDE DEF list
<1>4. /\ page \in Nat \ {0}
      /\ Len(list) > 0 => PageSize * (page - 1) < Len(list)
      /\ Len(list) = 0 => page = 1
  <2>1. PICK n \in Nat : n = Len(list)
    BY <1>1
  <2>2. PICK total \in Nat \ {0} : total = TotalPages(n, PageSize)
    BY <1>3, <2>1
  <2>3. n > 0 => \A k \in 1..total : PageSize * (k - 1) < n
    BY <1>2, <2>2, PagesCount
  <2>4. n = 0 => total = 1
    BY <1>2, <2>2, PagesCount
  <2>5. page \in 1..total
    BY <1>3, <2>1, <2>2
  <2>. QED
    BY <2>1, <2>3, <2>4, <2>5
<1>5. /\ from \in Nat /\ rows \in Seq(Orders)
      /\ Len(rows) = Greatest(0, Least(PageSize, Len(list) - from))
      /\ \A i \in 1..Len(rows) : from + i \in 1..Len(list) /\ rows[i] = list[from + i]
  BY <1>1, <1>2, <1>4, SliceRows
<1>6. page = 1 => from = 0
  BY <1>2
<1>7. Len(list) > 0 => from < Len(list)
  BY <1>4
<1>. HIDE DEF rows, from
<1>8. from <= Len(list) /\ (page > 1 => from < Len(list))
  BY <1>1, <1>4, <1>5, <1>6, <1>7
<1>9. Len(rows) = Least(PageSize, Len(list) - from)
  BY <1>1, <1>2, <1>5, <1>8 DEF Greatest, Least
<1>10. ToSet(rows) \subseteq Members(l, day)
  <2>1. DOMAIN rows = 1..Len(rows) /\ DOMAIN list = 1..Len(list)
    BY <1>1, <1>5, LenProperties
  <2>. QED
    BY <1>1, <1>5, <2>1 DEF ToSet
<1>. QED
  BY <1>5, <1>8, <1>9, <1>10 DEF list, rows, from

LEMMA WalkedOn ==
  ASSUME Types, Walks, NEW l \in Tracked, NEW day \in 0..MaxDay, NEW total \in Nat,
         NEW page \in 1..TotalPages(total, PageSize), NEW rows \in Seq(Orders), NEW clean \in BOOLEAN,
         clean => total = Len(Listing(l, day)) /\ rows = Slice(Listing(l, day), page, PageSize)
  PROVE  /\ Walked(l, page, rows, total, day, clean) \in WalkRecords
         /\ WalkOf(l, Walked(l, page, rows, total, day, clean))
<1>. DEFINE list == Listing(l, day)
            w == walk[l]
            from == PageSize * (page - 1)
<1>1. w \in WalkRecords /\ WalkOf(l, w)
  BY DEF Types, Walks
<1>2. PageSize \in Nat \ {0} /\ TotalPages(total, PageSize) \in Nat \ {0} /\ page \in Nat \ {0}
  BY BoundsAssumption, PagesCount
<1>3. Len(list) \in Nat /\ list \in Seq(Orders)
  BY ListingType
<1>4. clean => /\ from \in Nat /\ from <= Len(list) /\ (page > 1 => from < Len(list))
               /\ Len(rows) = Least(PageSize, Len(list) - from)
               /\ \A i \in 1..Len(rows) : from + i \in 1..Len(list) /\ rows[i] = list[from + i]
  BY PageRows
<1>5. NoWalk \in WalkRecords /\ WalkOf(l, NoWalk)
  <2>1. <<>> \in Seq(Orders) /\ 0 \in 0..MaxDay
    BY BoundsAssumption
  <2>. QED
    BY <2>1 DEF NoWalk, WalkRecords, WalkOf
<1>. HIDE DEF list, w, from
<1>6. CASE clean /\ page = 1
  <2>. DEFINE v == [page |-> 1, seen |-> rows, total |-> total, day |-> day]
  <2>1. Walked(l, page, rows, total, day, clean) = v
    BY <1>6 DEF Walked
  <2>2. v \in WalkRecords
    BY DEF WalkRecords
  <2>3. from = 0
    BY <1>2, <1>6 DEF from
  <2>4. Len(rows) = Least(Len(list), PageSize * 1)
    BY <1>2, <1>3, <1>4, <1>6, <2>3 DEF Least
  <2>5. WalkOf(l, v)
    BY <1>4, <1>6, <2>3, <2>4 DEF WalkOf, Exists, list
  <2>. QED
    BY <2>1, <2>2, <2>5
<1>7. CASE clean /\ page # 1 /\ w.page > 0 /\ page = w.page + 1 /\ w.day = day
  <2>. DEFINE v == [w EXCEPT !.page = page, !.seen = @ \o rows]
  <2>1. Walked(l, page, rows, total, day, clean) = v
    BY <1>7 DEF Walked, w
  <2>2. /\ w.seen \in Seq(Orders) /\ w.page \in Nat /\ w.total = Len(list)
        /\ Len(w.seen) = Least(Len(list), PageSize * w.page)
        /\ \A i \in 1..Len(w.seen) : w.seen[i] = list[i]
    BY <1>1, <1>7 DEF WalkOf, WalkRecords, list
  <2>3. /\ w.seen \o rows \in Seq(Orders) /\ Len(w.seen \o rows) = Len(w.seen) + Len(rows)
        /\ \A i \in 1..Len(w.seen) + Len(rows) :
             (w.seen \o rows)[i] = IF i <= Len(w.seen) THEN w.seen[i] ELSE rows[i - Len(w.seen)]
    BY <2>2, ConcatProperties
  <2>4. from = PageSize * w.page /\ PageSize * page = from + PageSize
    <3>1. page - 1 = w.page
      BY <1>7, <2>2
    <3>2. PageSize * page = PageSize * (page - 1) + PageSize
      BY <1>2, SMTT(30)
    <3>. QED
      BY <3>1, <3>2 DEF from
  <2>5. /\ from \in Nat /\ from < Len(list) /\ Len(rows) = Least(PageSize, Len(list) - from)
        /\ \A i \in 1..Len(rows) : from + i \in 1..Len(list) /\ rows[i] = list[from + i]
    BY <1>2, <1>4, <1>7
  <2>6. Len(w.seen) = from
    BY <1>3, <2>2, <2>4, <2>5 DEF Least
  <2>7. Len(w.seen \o rows) = Least(Len(list), PageSize * page)
    <3>1. PICK k \in Nat : k = Len(rows)
      BY LenProperties
    <3>2. PICK n \in Nat : n = Len(list)
      BY <1>3
    <3>3. k = IF PageSize < n - from THEN PageSize ELSE n - from
      BY <2>5, <3>1, <3>2 DEF Least
    <3>4. Len(w.seen \o rows) = from + k
      BY <2>3, <2>6, <3>1
    <3>5. PageSize * page = from + PageSize
      BY <2>4
    <3>6. from + k = IF n < from + PageSize THEN n ELSE from + PageSize
      BY <1>2, <2>5, <3>2, <3>3, SMTT(30)
    <3>. QED
      BY <3>2, <3>4, <3>5, <3>6 DEF Least
  <2>8. \A i \in 1..Len(w.seen \o rows) : (w.seen \o rows)[i] = list[i]
    <3>. TAKE i \in 1..Len(w.seen \o rows)
    <3>1. Len(rows) \in Nat
      BY LenProperties
    <3>2. i \in 1..from + Len(rows)
      BY <2>3, <2>6
    <3>3. CASE i <= from
      BY <2>2, <2>3, <2>5, <2>6, <3>1, <3>2, <3>3
    <3>4. CASE from < i
      <4>1. i - from \in 1..Len(rows)
        BY <2>5, <3>1, <3>2, <3>4
      <4>2. rows[i - from] = list[from + (i - from)] /\ from + (i - from) = i
        BY <2>5, <3>2, <4>1
      <4>3. (w.seen \o rows)[i] = rows[i - from]
        <5>1. i \in 1..Len(w.seen) + Len(rows) /\ ~(i <= Len(w.seen))
          BY <2>5, <2>6, <3>1, <3>2, <3>4
        <5>. QED
          BY <2>3, <2>6, <5>1
      <4>. QED
        BY <4>2, <4>3
    <3>. QED
      BY <2>5, <3>2, <3>3, <3>4
  <2>9. v \in WalkRecords /\ v.page = page /\ v.seen = w.seen \o rows /\ v.total = w.total /\ v.day = day
    BY <1>1, <1>2, <1>7, <2>3 DEF WalkRecords
  <2>10. total = Len(list)
    BY <1>7 DEF list
  <2>. HIDE DEF v
  <2>11. WalkOf(l, v)
    BY <2>2, <2>7, <2>8, <2>9, <2>10 DEF WalkOf, Exists, list
  <2>. QED
    BY <2>1, <2>9, <2>11
<1>8. CASE ~(clean /\ page = 1) /\ ~(clean /\ page # 1 /\ w.page > 0 /\ page = w.page + 1 /\ w.day = day)
  <2>1. Walked(l, page, rows, total, day, clean) = NoWalk
    BY <1>8 DEF Walked, w
  <2>. QED
    BY <1>5, <2>1
<1>. QED
  BY <1>6, <1>7, <1>8

-----------------------------------------------------------------------------
(***************************************************************************)
(* A step of one run.                                                      *)
(***************************************************************************)

\* All but the cards, from what the step does to the messages and the data.
LEMMA RunStep ==
  ASSUME IInv, NEW r \in Runs, NEW CONSTANT y \in RunRecords,
         run' = [run EXCEPT ![r] = y], OwnRun(y)', ControlOf(y), ReadingOf(y),
         UNCHANGED <<status, placed, today>>,
         Steady, chat' \in [People -> SUBSET Messages], next' \in [People -> Nat \ {0}],
         \A p \in People : \A m \in chat'[p] :
           m \in chat[p] \/ ((m.kind = "header" => Honest(m)) /\ (m.kind = "card" => Told(m))),
         data' \in [People -> DataRecords], DataOwn',
         shown' \in [Tracked -> Seq(Orders)], walk' \in [Tracked -> WalkRecords],
         spoilt' \in SUBSET Tracked
  PROVE  Types' /\ Dated' /\ Ids' /\ Control' /\ Readings' /\ Headers'
<1>1. Types /\ Dated /\ Ids /\ Control /\ Readings /\ Headers
  BY DEF IInv
<1>2. Types'
  BY <1>1, OneRun DEF Types
<1>3. Dated'
  BY <1>1 DEF Dated
<1>4. Ids'
  BY <1>1, IdsStep
<1>5. Control'
  BY <1>1, ControlStep DEF Types
<1>6. Readings'
  BY <1>1, ReadingsStep DEF Types
<1>7. \A m : Honest(m)' = Honest(m) /\ Told(m)' = Told(m)
  BY DEF Honest, Told
<1>8. Headers'
  BY <1>1, <1>7, HeadersStep
<1>. QED
  BY <1>2, <1>3, <1>4, <1>5, <1>6, <1>8

\* A run reads, and the messages and the data stay as they are.
LEMMA SilentStep ==
  ASSUME IInv, NEW r \in Runs, NEW CONSTANT y \in RunRecords,
         run' = [run EXCEPT ![r] = y], OwnRun(y), ControlOf(y), ReadingOf(y),
         UNCHANGED <<status, placed, today, data, chat, next, shown>>,
         walk' \in [Tracked -> WalkRecords], spoilt' \in SUBSET Tracked
  PROVE  /\ Types' /\ Dated' /\ Chats' /\ Ids' /\ Control' /\ Readings' /\ Headers'
         /\ \A l \in Tracked : ListKept(l)
<1>1. Types /\ Chats /\ Ids
  BY DEF IInv
<1>2. Chats' /\ Steady /\ CardsKept
  BY <1>1, SameChat
<1>3. DataOwn' /\ OwnRun(y)'
  BY <1>1, <1>2, DataSame, OwnKept
<1>4. Types' /\ Dated' /\ Ids' /\ Control' /\ Readings' /\ Headers'
  BY <1>1, <1>2, <1>3, RunStep DEF Types
<1>5. \A l \in Tracked : ListKept(l)
  BY <1>2 DEF CardsKept, ListKept
<1>. QED
  BY <1>2, <1>4, <1>5

\* A rendering that begins, or begins again, excuses those it meets.
LEMMA OverlapSpoils ==
  ASSUME Types, NEW r \in Runs, Overlap(r), NEW CONSTANT y, y.list = run[r].list
  PROVE  /\ spoilt \subseteq spoilt' /\ spoilt' \in SUBSET Tracked
         /\ \A q \in Runs \ {r} : Beside(y, run[q]) => y.list \in spoilt' /\ run[q].list \in spoilt'
<1>1. spoilt' = spoilt \cup Enter(r) \cup (IF Enter(r) = {} THEN {} ELSE {run[r].list})
  BY DEF Overlap
<1>2. Enter(r) \subseteq Tracked /\ (Enter(r) # {} => run[r].list \in Tracked)
  BY DEF Enter
<1>3. spoilt \in SUBSET Tracked
  BY DEF Types
<1>4. ASSUME NEW q \in Runs \ {r}, Beside(y, run[q]) PROVE run[q].list \in Enter(r)
  BY <1>4 DEF Beside, IsBusy, Enter, Busy
<1>. QED
  BY <1>1, <1>2, <1>3, <1>4

\* A rendering that goes on has met those it is with before.
LEMMA BusyMet ==
  ASSUME Alone, NEW r \in Runs, IsBusy(run[r]), NEW CONSTANT y, y.list = run[r].list
  PROVE  \A q \in Runs \ {r} : Beside(y, run[q]) => y.list \in spoilt /\ run[q].list \in spoilt
<1>1. ASSUME NEW q \in Runs \ {r}, Beside(y, run[q])
      PROVE  Beside(run[r], run[q]) /\ Beside(run[q], run[r])
  BY <1>1 DEF Beside
<1>. QED
  BY <1>1 DEF Alone

LEMMA BusyRests ==
  ASSUME Types, Alone, Cardlists, NEW r \in Runs, IsBusy(run[r]), run[r].at \notin Loose,
         run[r].list \in Tracked \ spoilt
  PROVE  Settled(run[r].list)
<1>1. ASSUME NEW q \in Runs, run[q].list = run[r].list, run[q].at \in Loose
      PROVE  FALSE
  <2>1. q # r /\ Beside(run[r], run[q])
    BY <1>1 DEF Beside, IsBusy, Loose
  <2>. QED
    BY <2>1 DEF Alone
<1>. QED
  BY <1>1 DEF Cardlists, Resting

-----------------------------------------------------------------------------
(***************************************************************************)
(* Each action keeps the invariant. Buttons that start a run.              *)
(***************************************************************************)

LEMMA PressKeeps ==
  ASSUME IInv, NEW r \in Runs, NEW l \in Lists, NEW src \in Nat, NEW page \in Int,
         NEW pick \in 0..MaxDay, src # 0 => Pressable(Person(l), src), Press(r, l, src, page, pick)
  PROVE  IInv'
<1>1. PICK y : y = [NoRun EXCEPT !.at = "queued", !.list = l, !.src = src, !.page = page,
                                 !.pick = pick]
  OBVIOUS
<1>2. /\ run' = [run EXCEPT ![r] = y] /\ run[r].at = "idle"
      /\ UNCHANGED <<db, data, chat, next, ghosts>>
  BY <1>1 DEF Press
<1>3. y \in RunRecords
  BY <1>1, NoRunType DEF RunRecords, Early
<1>4. /\ y.at = "queued" /\ y.list = l /\ y.src = src /\ y.rows = <<>> /\ y.report = {}
      /\ y.sent = {} /\ y.ids = {} /\ y.mem = NoData
  BY <1>1 DEF NoRun
<1>5. OwnRun(y)
  BY <1>4, FS_EmptySet DEF OwnRun, Own, NoData
<1>6. ControlOf(y)
  BY <1>4 DEF ControlOf, Early, Late
<1>7. ReadingOf(y)
  BY <1>4 DEF ReadingOf, Late, Told, ToSet
<1>8. Types /\ Alone /\ Cardlists /\ Walks
  BY DEF IInv
<1>9. /\ Types' /\ Dated' /\ Chats' /\ Ids' /\ Control' /\ Readings' /\ Headers'
      /\ \A k \in Tracked : ListKept(k)
  BY <1>2, <1>3, <1>5, <1>6, <1>7, <1>8, SilentStep DEF Types, db, ghosts
<1>10. Walks'
  BY <1>2, <1>8, WalksSame DEF db, ghosts
<1>11. Alone' /\ Cardlists'
  <2>1. \A q : ~Beside(y, run[q])
    BY <1>4 DEF Beside, IsBusy
  <2>2. \A k : Knows(y, k)'
    BY <1>4 DEF Knows, Holding
  <2>3. y.at \notin Loose \cup {"delete"} /\ run[r].at \notin Loose
    BY <1>2, <1>4 DEF Loose
  <2>. QED
    BY <1>2, <1>3, <1>8, <1>9, <2>1, <2>2, <2>3, QuietStep DEF ghosts
<1>. QED
  BY <1>9, <1>10, <1>11 DEF IInv

LEMMA OpenListKeeps ==
  ASSUME IInv, NEW r \in Runs, OpenList(r)
  PROVE  IInv'
<1>1. PICK l \in Lists : Press(r, l, 0, 1, 0)
  BY DEF OpenList, Lists
<1>2. 0 \in 0..MaxDay
  BY BoundsAssumption
<1>. QED
  BY <1>1, <1>2, PressKeeps

LEMMA MessagePressable ==
  ASSUME Types, Chats, NEW p \in People, NEW m \in chat[p], m.kind # "card"
  PROVE  m \in Messages /\ m.id \in Nat /\ Pressable(p, m.id)
BY DEF Types, Chats, Pressable, Messages

LEMMA TurnPageKeeps ==
  ASSUME IInv, NEW r \in Runs, TurnPage(r)
  PROVE  IInv'
<1>1. PICK p \in People : \E m \in chat[p] :
        /\ m.kind = "header"
        /\ \E page \in {m.page - 1, m.page + 1} \cap (1..TotalPages(m.total, PageSize)) :
             Press(r, m.list, m.id, page, 0)
  BY DEF TurnPage
<1>2. PICK m \in chat[p] :
        /\ m.kind = "header"
        /\ \E page \in {m.page - 1, m.page + 1} \cap (1..TotalPages(m.total, PageSize)) :
             Press(r, m.list, m.id, page, 0)
  BY <1>1
<1>3. m \in Messages /\ m.id \in Nat /\ Pressable(p, m.id) /\ m.list \in Tracked /\ Person(m.list) = p
  BY <1>2, MessagePressable DEF IInv, Chats
<1>4. PICK page \in Int : Press(r, m.list, m.id, page, 0)
  BY <1>2
<1>5. 0 \in 0..MaxDay
  BY BoundsAssumption
<1>. QED
  BY <1>3, <1>4, <1>5, PressKeeps DEF Lists

LEMMA PickDayKeeps ==
  ASSUME IInv, NEW r \in Runs, PickDay(r)
  PROVE  IInv'
<1>1. PICK m \in chat.staff, day \in 1..MaxDay :
        m.kind = "calendar" /\ Press(r, "report", m.id, 1, day)
  BY DEF PickDay
<1>2. Person("report") = "staff" /\ "staff" \in People /\ "report" \in Lists
  BY DEF Person, People, Lists, Tracked
<1>3. m.id \in Nat /\ Pressable("staff", m.id)
  BY <1>1, <1>2, MessagePressable DEF IInv
<1>4. day \in 0..MaxDay
  BY BoundsAssumption
<1>. QED
  BY <1>1, <1>2, <1>3, <1>4, PressKeeps

LEMMA ResetDayKeeps ==
  ASSUME IInv, NEW r \in Runs, ResetDay(r)
  PROVE  IInv'
<1>1. PICK m \in chat.staff : m.kind = "header" /\ Press(r, "report", m.id, 1, today)
  BY DEF ResetDay
<1>2. Person("report") = "staff" /\ "staff" \in People /\ "report" \in Lists
  BY DEF Person, People, Lists, Tracked
<1>3. m.id \in Nat /\ Pressable("staff", m.id)
  BY <1>1, <1>2, MessagePressable DEF IInv
<1>4. PICK day \in 0..MaxDay : day = today
  BY BoundsAssumption DEF IInv, Types
<1>. QED
  BY <1>1, <1>2, <1>3, <1>4, PressKeeps

-----------------------------------------------------------------------------
(***************************************************************************)
(* The readings of a rendering.                                            *)
(***************************************************************************)

LEMMA MembersPlaced ==
  ASSUME Types, Dated, NEW l, NEW day
  PROVE  \A o \in Members(l, day) : o \in Orders /\ placed[o] # 0 /\ (l = "report" => placed[o] = day)
BY DEF Members, Dated, Types

\* What a run that is about to read knows, and what it says of its data.
LEMMA RunParts ==
  ASSUME IInv, NEW r \in Runs, NEW CONSTANT x \in RunRecords, x = run[r]
  PROVE  /\ OwnRun(x) /\ ControlOf(x) /\ ReadingOf(x)
         /\ x.list \in Lists /\ Person(x.list) \in People
         /\ \A l \in Tracked \ spoilt : Knows(x, l) /\ (x.list = l => Renders(x))
         /\ data[Person(x.list)] \in DataRecords
         /\ \A l \in Tracked : Own(Person(x.list), l, data[Person(x.list)].ids[l])
<1>1. x.list \in Lists /\ Person(x.list) \in People
  BY PersonType DEF RunRecords
<1>2. OwnRun(x) /\ ControlOf(x) /\ ReadingOf(x)
  BY DEF IInv, Ids, Control, Readings
<1>3. \A l \in Tracked \ spoilt : Knows(x, l) /\ (x.list = l => Renders(x))
  BY DEF IInv, Cardlists
<1>4. data[Person(x.list)] \in DataRecords
  BY <1>1 DEF IInv, Types
<1>5. \A l \in Tracked : Own(Person(x.list), l, data[Person(x.list)].ids[l])
  BY <1>1 DEF IInv, Ids, DataOwn
<1>. QED
  BY <1>1, <1>2, <1>3, <1>4, <1>5

\* A run that reads its person's data, or none, knows the ids of every list.
LEMMA KnowsRead ==
  ASSUME NEW CONSTANT y, UNCHANGED data, y.at \in Holding => y.mem = data[Person(y.list)]
  PROVE  \A l \in Tracked : Knows(y, l)'
BY DEF Knows

LEMMA ReadActiveKeeps ==
  ASSUME IInv, NEW r \in Runs, ReadActive(r)
  PROVE  IInv'
<1>1. PICK x \in RunRecords : x = run[r]
  BY DEF IInv, Types
<1>2. PICK rows \in Seq(Orders) : rows = Listing("orders", 0)
  BY ListingType
<1>3. PICK y : y = IF rows = <<>> THEN NoRun ELSE [x EXCEPT !.at = "cards", !.rows = rows]
  OBVIOUS
<1>4. /\ x.at = "queued" /\ x.list = "orders" /\ run' = [run EXCEPT ![r] = y]
      /\ UNCHANGED <<db, data, chat, next, ghosts>>
  BY <1>1, <1>2, <1>3 DEF ReadActive
<1>5. y \in RunRecords
  BY <1>3, NoRunType DEF RunRecords, Late
<1>6. OwnRun(x) /\ ControlOf(x)
  BY <1>1, RunParts
<1>7. OwnRun(y)
  <2>1. CASE rows = <<>>
    BY <1>3, <2>1, NoRunOwn
  <2>2. CASE rows # <<>>
    BY <1>3, <1>6, <2>2 DEF OwnRun, RunRecords
  <2>. QED
    BY <2>1, <2>2
<1>8. ControlOf(y)
  <2>1. CASE rows = <<>>
    BY <1>3, <2>1 DEF NoRun, ControlOf, Early, Late
  <2>2. CASE rows # <<>>
    <3>1. y.at = "cards" /\ y.list = "orders" /\ y.rows = rows /\ y.sent = {}
      BY <1>3, <1>4, <1>6, <2>2 DEF RunRecords, ControlOf, Early
    <3>2. Len(rows) \in Nat /\ Len(rows) # 0
      BY <2>2, LenProperties, EmptySeq
    <3>3. Cardinality({}) = 0
      BY FS_EmptySet
    <3>. QED
      BY <3>1, <3>2, <3>3 DEF ControlOf, Early, Late, Tracked
  <2>. QED
    BY <2>1, <2>2
<1>9. ReadingOf(y)
  <2>1. CASE rows = <<>>
    BY <1>3, <2>1 DEF NoRun, ReadingOf, Told, ToSet, Late
  <2>2. CASE rows # <<>>
    <3>1. y.at = "cards" /\ y.list = "orders" /\ y.rows = rows
      BY <1>3, <1>4, <2>2 DEF RunRecords
    <3>2. ToSet(rows) = Members("orders", 0)
      BY <1>2, ListingType
    <3>. QED
      BY <3>1, <3>2, MembersPlaced DEF ReadingOf, Told, Tracked, IInv
  <2>. QED
    BY <2>1, <2>2
<1>10. Types /\ Alone /\ Cardlists /\ Walks
  BY DEF IInv
<1>11. /\ Types' /\ Dated' /\ Chats' /\ Ids' /\ Control' /\ Readings' /\ Headers'
       /\ \A k \in Tracked : ListKept(k)
  BY <1>4, <1>5, <1>7, <1>8, <1>9, <1>10, SilentStep DEF Types, db, ghosts
<1>12. Walks'
  BY <1>4, <1>10, WalksSame DEF db, ghosts
<1>13. Alone' /\ Cardlists'
  <2>1. \A q : ~Beside(y, run[q])
    BY <1>3, <1>4 DEF Beside, IsBusy, NoRun, Tracked, RunRecords
  <2>2. \A k \in Tracked : Knows(y, k)'
    BY <1>3, <1>4 DEF Knows, Holding, NoRun, RunRecords
  <2>3. /\ run[r].at \notin Loose
        /\ y.list \in Tracked => y.at \notin Loose \cup {"delete"}
    BY <1>1, <1>3, <1>4 DEF Loose, NoRun, RunRecords, Tracked
  <2>. QED
    BY <1>4, <1>5, <1>10, <1>11, <2>1, <2>2, <2>3, QuietStep DEF ghosts
<1>. QED
  BY <1>11, <1>12, <1>13 DEF IInv

\* A step of a rendering that reads, or goes on, before its cards are touched.
LEMMA ReadStep ==
  ASSUME IInv, NEW r \in Runs, NEW CONSTANT x \in RunRecords, x = run[r],
         NEW CONSTANT y \in RunRecords, y.list = x.list, x.at \notin Loose,
         y.at \notin Loose \cup {"delete"},
         run' = [run EXCEPT ![r] = y], OwnRun(y), ControlOf(y), ReadingOf(y),
         UNCHANGED <<status, placed, today, data, chat, next, shown>>,
         walk' \in [Tracked -> WalkRecords], Walks',
         Overlap(r) \/ (IsBusy(x) /\ UNCHANGED spoilt),
         y.at \in Holding => y.mem = data[Person(y.list)]
  PROVE  IInv'
<1>1. Types /\ Alone /\ Cardlists
  BY DEF IInv
<1>2. /\ spoilt \subseteq spoilt' /\ spoilt' \in SUBSET Tracked
      /\ \A q \in Runs \ {r} : Beside(y, run[q]) => y.list \in spoilt' /\ run[q].list \in spoilt'
  <2>1. CASE Overlap(r)
    BY <1>1, <2>1, OverlapSpoils
  <2>2. CASE IsBusy(x) /\ UNCHANGED spoilt
    BY <1>1, <2>2, BusyMet DEF Types
  <2>. QED
    BY <2>1, <2>2
<1>3. /\ Types' /\ Dated' /\ Chats' /\ Ids' /\ Control' /\ Readings' /\ Headers'
      /\ \A k \in Tracked : ListKept(k)
  BY <1>2, SilentStep
<1>4. \A k \in Tracked : Knows(y, k)'
  BY KnowsRead
<1>5. Alone' /\ Cardlists'
  BY <1>1, <1>2, <1>3, <1>4, QuietStep
<1>. QED
  BY <1>3, <1>5 DEF IInv

LEMMA TakeDayKeeps ==
  ASSUME IInv, NEW r \in Runs, TakeDay(r)
  PROVE  IInv'
<1>1. PICK x \in RunRecords : x = run[r]
  BY DEF IInv, Types
<1>2. /\ OwnRun(x) /\ ControlOf(x) /\ ReadingOf(x) /\ data[Person(x.list)] \in DataRecords
      /\ \A l \in Tracked : Own(Person(x.list), l, data[Person(x.list)].ids[l])
  BY <1>1, RunParts
<1>3. PICK y : y = [x EXCEPT !.at = "pick", !.mem = data[Person(x.list)]]
  OBVIOUS
<1>4. /\ x.at = "queued" /\ x.list = "report" /\ run' = [run EXCEPT ![r] = y] /\ Overlap(r)
      /\ UNCHANGED <<db, data, chat, next, presses, shown, walk>>
  BY <1>1, <1>3 DEF TakeDay, GoReading, IInv, Types
<1>5. y \in RunRecords
  BY <1>2, <1>3 DEF RunRecords, Early
<1>6. OwnRun(y)
  BY <1>2, <1>3, <1>4 DEF OwnRun, RunRecords
<1>7. ControlOf(y)
  BY <1>2, <1>3, <1>4 DEF ControlOf, RunRecords, Early, Late
<1>8. ReadingOf(y)
  BY <1>2, <1>3, <1>4 DEF ReadingOf, RunRecords, Late, Told
<1>9. walk' \in [Tracked -> WalkRecords] /\ Walks'
  BY <1>4, WalksSame DEF IInv, Types, db
<1>10. /\ y.list = x.list /\ x.at \notin Loose /\ y.at \notin Loose \cup {"delete"}
       /\ y.mem = data[Person(y.list)]
  BY <1>3, <1>4 DEF RunRecords, Loose
<1>. QED
  BY <1>1, <1>4, <1>5, <1>6, <1>7, <1>8, <1>9, <1>10, ReadStep DEF db

LEMMA ReadDateKeeps ==
  ASSUME IInv, NEW r \in Runs, ReadDate(r)
  PROVE  IInv'
<1>1. PICK x \in RunRecords : x = run[r]
  BY DEF IInv, Types
<1>2. /\ OwnRun(x) /\ ControlOf(x) /\ ReadingOf(x) /\ data[Person(x.list)] \in DataRecords
      /\ \A l \in Tracked : Own(Person(x.list), l, data[Person(x.list)].ids[l])
  BY <1>1, RunParts
<1>3. x.list = "report" /\ Person(x.list) = "staff" /\ x.at \in {"date", "queued"}
  BY <1>1 DEF ReadDate, Person
<1>4. PICK mem \in DataRecords : mem = data.staff
  BY <1>2, <1>3
<1>5. PICK y : y = [x EXCEPT !.at = IF mem.date = 0 THEN "default" ELSE "count",
                             !.day = IF mem.date = 0 THEN today ELSE mem.date, !.mem = mem]
  OBVIOUS
<1>6. /\ run' = [run EXCEPT ![r] = y] /\ Overlap(r)
      /\ UNCHANGED <<db, data, chat, next, presses, shown, walk>>
  BY <1>1, <1>4, <1>5 DEF ReadDate
<1>7. today \in 1..MaxDay /\ mem.date \in 0..MaxDay
  BY DEF IInv, Types, DataRecords
<1>8. y \in RunRecords /\ y.day # 0
  <2>1. PICK day \in 0..MaxDay : day = (IF mem.date = 0 THEN today ELSE mem.date) /\ day # 0
    BY <1>7, BoundsAssumption
  <2>2. y = [x EXCEPT !.at = IF mem.date = 0 THEN "default" ELSE "count", !.day = day, !.mem = mem]
    BY <1>5, <2>1
  <2>. QED
    BY <2>1, <2>2 DEF RunRecords, Early
<1>9. /\ y.list = "report" /\ y.mem = mem /\ y.at \in {"default", "count"}
      /\ y.rows = x.rows /\ y.report = x.report /\ y.sent = x.sent /\ y.ids = x.ids
      /\ y.src = x.src
  BY <1>3, <1>5 DEF RunRecords
<1>10. OwnRun(y)
  BY <1>2, <1>3, <1>4, <1>9 DEF OwnRun
<1>11. ControlOf(y)
  BY <1>2, <1>3, <1>8, <1>9 DEF ControlOf, Early, Late
<1>12. ReadingOf(y)
  BY <1>2, <1>9 DEF ReadingOf, Late, Told
<1>13. walk' \in [Tracked -> WalkRecords] /\ Walks'
  BY <1>6, WalksSame DEF IInv, Types, db
<1>14. x.at \notin Loose /\ y.at \notin Loose \cup {"delete"}
  BY <1>3, <1>9 DEF Loose
<1>. QED
  BY <1>1, <1>3, <1>4, <1>6, <1>8, <1>9, <1>10, <1>11, <1>12, <1>13, <1>14, ReadStep DEF db

LEMMA CountOrdersKeeps ==
  ASSUME IInv, NEW r \in Runs, CountOrders(r)
  PROVE  IInv'
<1>1. PICK x \in RunRecords : x = run[r]
  BY DEF IInv, Types
<1>2. OwnRun(x) /\ ControlOf(x) /\ ReadingOf(x)
  BY <1>1, RunParts
<1>3. PICK total \in Nat : total = Cardinality(Members("report", x.day))
  BY MembersType, FS_CardinalityType
<1>4. /\ TotalPages(total, PageSize) \in Nat \ {0} /\ x.page \in Int
      /\ Clamp(x.page, TotalPages(total, PageSize)) \in 1..TotalPages(total, PageSize)
  BY BoundsAssumption, PagesCount, Clamped_In DEF RunRecords
<1>5. PICK page \in Nat \ {0} : page = Clamp(x.page, TotalPages(total, PageSize))
  BY <1>4
<1>6. PICK y : y = [x EXCEPT !.at = "page", !.total = total, !.page = page]
  OBVIOUS
<1>7. /\ x.at = "count" /\ run' = [run EXCEPT ![r] = y]
      /\ UNCHANGED <<db, data, chat, next, presses, ghosts>>
  <2>1. /\ x.at = "count" /\ UNCHANGED <<db, data, chat, next, presses, ghosts>>
        /\ run' = [run EXCEPT ![r] =
                     [x EXCEPT !.at = "page", !.total = Cardinality(Members("report", x.day)),
                               !.page = Clamp(x.page, TotalPages(Cardinality(Members("report", x.day)),
                                                                 PageSize))]]
    BY <1>1 DEF CountOrders
  <2>. QED
    BY <1>3, <1>5, <1>6, <2>1
<1>8. y \in RunRecords
  <2>1. page \in Int /\ "page" \in Early
    BY DEF Early
  <2>. QED
    BY <1>6, <2>1 DEF RunRecords
<1>9. /\ y.at = "page" /\ y.list = x.list /\ y.total = total /\ y.page = page /\ y.day = x.day
      /\ y.rows = x.rows /\ y.report = x.report /\ y.sent = x.sent /\ y.ids = x.ids
      /\ y.src = x.src /\ y.mem = x.mem
  BY <1>6 DEF RunRecords
<1>10. OwnRun(y)
  BY <1>2, <1>9 DEF OwnRun
<1>11. ControlOf(y)
  BY <1>2, <1>7, <1>9 DEF ControlOf, Early, Late
<1>12. ReadingOf(y)
  <2>1. x.rows = <<>>
    BY <1>2, <1>7 DEF ControlOf, Early
  <2>2. Exists(y)
    BY <1>4, <1>5, <1>9 DEF Exists
  <2>. QED
    BY <1>2, <1>3, <1>9, <2>1, <2>2 DEF ReadingOf, Late, Told, ToSet
<1>13. walk' \in [Tracked -> WalkRecords] /\ Walks'
  BY <1>7, WalksSame DEF IInv, Types, db, ghosts
<1>14. IsBusy(x) /\ x.at \notin Loose /\ y.at \notin Loose \cup {"delete"} /\ y.at \notin Holding
  BY <1>7, <1>9 DEF Loose, IsBusy, Holding
<1>. QED
  BY <1>1, <1>7, <1>8, <1>9, <1>10, <1>11, <1>12, <1>13, <1>14, ReadStep DEF db, ghosts

\* A page of the report's listing, whatever was counted before.
LEMMA AnyPage ==
  ASSUME NEW l, NEW day, NEW page \in Nat \ {0}
  PROVE  LET rows == Slice(Listing(l, day), page, PageSize) IN
         rows \in Seq(Orders) /\ ToSet(rows) \subseteq Members(l, day)
<1>. DEFINE list == Listing(l, day)
            rows == Slice(list, page, PageSize)
<1>1. list \in Seq(Orders) /\ ToSet(list) = Members(l, day)
  BY ListingType
<1>. HIDE DEF list
<1>2. /\ rows \in Seq(Orders)
      /\ \A i \in 1..Len(rows) : \E j \in 1..Len(list) : rows[i] = list[j]
  BY <1>1, BoundsAssumption, SliceRows
<1>. HIDE DEF rows
<1>3. DOMAIN rows = 1..Len(rows) /\ DOMAIN list = 1..Len(list)
  BY <1>1, <1>2, LenProperties
<1>4. ToSet(rows) \subseteq Members(l, day)
  BY <1>1, <1>2, <1>3 DEF ToSet
<1>. QED
  BY <1>2, <1>4 DEF rows, list

LEMMA ReadPageKeeps ==
  ASSUME IInv, NEW r \in Runs, ReadPage(r)
  PROVE  IInv'
<1>1. PICK x \in RunRecords : x = run[r]
  BY DEF IInv, Types
<1>2. OwnRun(x) /\ ControlOf(x) /\ ReadingOf(x)
  BY <1>1, RunParts
<1>3. /\ x.at = "page" /\ x.list = "report" /\ x.day # 0 /\ Exists(x)
      /\ x.clean => x.total = Cardinality(Members("report", x.day))
      /\ x.report = {} /\ x.sent = {}
  BY <1>1, <1>2 DEF ReadPage, ControlOf, ReadingOf, Early
<1>4. /\ x.page \in Nat \ {0} /\ x.total \in Nat /\ x.day \in 0..MaxDay /\ x.clean \in BOOLEAN
      /\ x.page \in 1..TotalPages(x.total, PageSize)
  <2>1. x.total \in Nat /\ x.day \in 0..MaxDay /\ x.clean \in BOOLEAN
    BY DEF RunRecords
  <2>2. TotalPages(x.total, PageSize) \in Nat
    BY <2>1, BoundsAssumption, PagesCount
  <2>3. x.page \in 1..TotalPages(x.total, PageSize)
    BY <1>3 DEF Exists
  <2>. QED
    BY <2>1, <2>2, <2>3
<1>5. x.clean => x.total = Len(Listing("report", x.day))
  BY <1>3, ListingType
<1>6. PICK rows \in Seq(Orders) :
        /\ rows = IF x.total = 0 THEN <<>> ELSE Slice(Listing("report", x.day), x.page, PageSize)
        /\ ToSet(rows) \subseteq Members("report", x.day)
  <2>1. CASE x.total = 0
    <3>1. <<>> \in Seq(Orders) /\ ToSet(<<>>) = {}
      BY DEF ToSet
    <3>. QED
      BY <2>1, <3>1
  <2>2. CASE x.total # 0
    BY <1>4, <2>2, AnyPage
  <2>. QED
    BY <2>1, <2>2
<1>7. x.clean => /\ Len(rows) = Least(PageSize, x.total - PageSize * (x.page - 1))
                 /\ rows = Slice(Listing("report", x.day), x.page, PageSize)
  <2>. SUFFICES ASSUME x.clean
                PROVE  /\ Len(rows) = Least(PageSize, x.total - PageSize * (x.page - 1))
                       /\ rows = Slice(Listing("report", x.day), x.page, PageSize)
    OBVIOUS
  <2>1. PICK slice : slice = Slice(Listing("report", x.day), x.page, PageSize)
    OBVIOUS
  <2>2. /\ slice \in Seq(Orders) /\ Len(slice) = Least(PageSize, x.total - PageSize * (x.page - 1))
        /\ PageSize * (x.page - 1) \in Nat /\ PageSize * (x.page - 1) <= x.total
    BY <1>4, <1>5, <2>1, PageRows
  <2>3. x.total = 0 => slice = <<>>
    <3>1. x.total = 0 => Len(slice) = 0
      BY <2>2, BoundsAssumption DEF Least
    <3>. QED
      BY <2>2, <3>1, EmptySeq
  <2>. QED
    BY <1>6, <2>1, <2>2, <2>3
<1>8. PICK y : y = [x EXCEPT !.at = "report", !.rows = rows]
  OBVIOUS
<1>9. /\ run' = [run EXCEPT ![r] = y]
      /\ walk' = [walk EXCEPT !.report = Walked("report", x.page, rows, x.total, x.day, x.clean)]
      /\ UNCHANGED <<db, data, chat, next, presses, shown, spoilt>>
  BY <1>1, <1>6, <1>8 DEF ReadPage, IInv, Types
<1>10. y \in RunRecords
  BY <1>8 DEF RunRecords
<1>11. /\ y.at = "report" /\ y.list = x.list /\ y.total = x.total /\ y.page = x.page
       /\ y.day = x.day /\ y.clean = x.clean
       /\ y.rows = rows /\ y.report = x.report /\ y.sent = x.sent /\ y.ids = x.ids
       /\ y.src = x.src /\ y.mem = x.mem
  BY <1>8 DEF RunRecords
<1>12. OwnRun(y)
  BY <1>2, <1>11 DEF OwnRun
<1>13. ControlOf(y)
  BY <1>3, <1>11 DEF ControlOf, Early, Late
<1>14. ReadingOf(y)
  <2>1. Exists(y)
    BY <1>3, <1>11 DEF Exists
  <2>2. \A o \in ToSet(rows) : placed[o] = x.day /\ placed[o] # 0
    BY <1>6, MembersPlaced DEF IInv
  <2>3. y.clean => Filled(y)
    BY <1>7, <1>11 DEF Filled
  <2>. QED
    BY <1>3, <1>6, <1>11, <2>1, <2>2, <2>3 DEF ReadingOf, Late, Told
<1>15. walk' \in [Tracked -> WalkRecords] /\ Walks'
  <2>1. "report" \in Tracked
    BY DEF Tracked
  <2>2. PICK w : w = Walked("report", x.page, rows, x.total, x.day, x.clean)
    OBVIOUS
  <2>3. w \in WalkRecords /\ WalkOf("report", w)
    BY <1>4, <1>5, <1>7, <2>1, <2>2, WalkedOn DEF IInv
  <2>. QED
    BY <1>9, <2>1, <2>2, <2>3, WalksStep DEF IInv, db
<1>16. IsBusy(x) /\ x.at \notin Loose /\ y.at \notin Loose \cup {"delete"} /\ y.at \notin Holding
  BY <1>3, <1>11 DEF Loose, IsBusy, Holding
<1>. QED
  BY <1>1, <1>9, <1>10, <1>11, <1>12, <1>13, <1>14, <1>15, <1>16, ReadStep DEF db

LEMMA ReadReportKeeps ==
  ASSUME IInv, NEW r \in Runs, ReadReport(r)
  PROVE  IInv'
<1>1. PICK x \in RunRecords : x = run[r]
  BY DEF IInv, Types
<1>2. OwnRun(x) /\ ControlOf(x) /\ ReadingOf(x)
  BY <1>1, RunParts
<1>3. /\ x.at = "report" /\ x.list = "report" /\ x.day # 0 /\ Exists(x) /\ x.sent = {} /\ Told(x)
      /\ \A o \in ToSet(x.rows) : placed[o] = x.day
      /\ x.clean => /\ x.total = Cardinality(Members("report", x.day))
                    /\ Filled(x) /\ ToSet(x.rows) \subseteq Members("report", x.day)
  BY <1>1, <1>2 DEF ReadReport, ControlOf, ReadingOf
<1>4. PICK report \in SUBSET Orders : report = Members("report", x.day)
  BY MembersType
<1>5. PICK y : y = [x EXCEPT !.at = "old", !.report = report]
  OBVIOUS
<1>6. /\ run' = [run EXCEPT ![r] = y] /\ UNCHANGED <<db, data, chat, next, presses, ghosts>>
  BY <1>1, <1>4, <1>5 DEF ReadReport
<1>7. y \in RunRecords
  BY <1>5 DEF RunRecords, Late
<1>8. /\ y.at = "old" /\ y.list = x.list /\ y.total = x.total /\ y.page = x.page
      /\ y.day = x.day /\ y.clean = x.clean
      /\ y.rows = x.rows /\ y.report = report /\ y.sent = x.sent /\ y.ids = x.ids
      /\ y.src = x.src /\ y.mem = x.mem
  BY <1>5 DEF RunRecords
<1>9. OwnRun(y)
  BY <1>2, <1>8 DEF OwnRun
<1>10. ControlOf(y)
  BY <1>3, <1>8 DEF ControlOf, Early, Late, Tracked
<1>11. ReadingOf(y)
  <2>1. Exists(y) /\ Told(y) /\ (y.clean => Filled(y))
    BY <1>3, <1>8 DEF Exists, Told, Filled
  <2>2. \A o \in report : placed[o] = x.day
    BY <1>4, MembersPlaced DEF IInv
  <2>3. Honest(y)
    BY <1>3, <1>4, <1>8, <2>1, <2>2 DEF Honest
  <2>. QED
    BY <1>8, <2>1, <2>3 DEF ReadingOf
<1>12. walk' \in [Tracked -> WalkRecords] /\ Walks'
  BY <1>6, WalksSame DEF IInv, Types, db, ghosts
<1>13. IsBusy(x) /\ x.at \notin Loose /\ y.at \notin Loose \cup {"delete"} /\ y.at \notin Holding
  BY <1>3, <1>8 DEF Loose, IsBusy, Holding
<1>. QED
  BY <1>1, <1>6, <1>7, <1>8, <1>9, <1>10, <1>11, <1>12, <1>13, ReadStep DEF db, ghosts

LEMMA ReadOrdersKeeps ==
  ASSUME IInv, NEW r \in Runs, ReadOrders(r)
  PROVE  IInv'
<1>1. PICK x \in RunRecords : x = run[r]
  BY DEF IInv, Types
<1>2. /\ OwnRun(x) /\ ControlOf(x) /\ ReadingOf(x) /\ data[Person(x.list)] \in DataRecords
      /\ \A l \in Tracked : Own(Person(x.list), l, data[Person(x.list)].ids[l])
  BY <1>1, RunParts
<1>3. PICK list \in Seq(Orders) : list = Listing(x.list, 0)
  BY ListingType
<1>4. PICK total \in Nat : total = Len(list)
  BY LenProperties
<1>5. PICK page \in Nat \ {0} : /\ page = Clamp(x.page, TotalPages(total, PageSize))
                                /\ page \in 1..TotalPages(total, PageSize)
  <2>1. TotalPages(total, PageSize) \in Nat \ {0} /\ x.page \in Int
    BY BoundsAssumption, PagesCount DEF RunRecords
  <2>2. Clamp(x.page, TotalPages(total, PageSize)) \in 1..TotalPages(total, PageSize)
    BY <2>1, Clamped_In
  <2>. QED
    BY <2>1, <2>2
<1>6. PICK slice : slice = Slice(list, page, PageSize)
  OBVIOUS
<1>7. PICK src : src = With("client", x.src)
  OBVIOUS
<1>8. /\ x.at = "queued" /\ x.list \in {"history", "active"} /\ Person(x.list) = "client"
      /\ UNCHANGED <<db, data, next, presses>>
  BY <1>1 DEF ReadOrders, Person
<1>9. x.rows = <<>> /\ x.report = {} /\ x.sent = {} /\ IsBusy(x) = FALSE /\ x.at \notin Loose
  BY <1>2, <1>8 DEF ControlOf, Early, IsBusy, Loose
<1>10. \/ /\ list # <<>>
          /\ run' = [run EXCEPT ![r] = [x EXCEPT !.at = "old", !.page = page, !.total = total,
                                                 !.rows = slice]]
          /\ walk' = [walk EXCEPT ![x.list] = Walked(x.list, page, slice, total, 0, TRUE)]
          /\ Overlap(r) /\ UNCHANGED <<chat, shown>>
       \/ /\ x.src = 0 \/ \E m \in src : m.kind = "header"
          /\ chat' = [chat EXCEPT !.client =
                        (@ \ src) \cup {[m EXCEPT !.kind = "note"] : m \in src}]
          /\ run' = [run EXCEPT ![r] = [x EXCEPT !.at = "none", !.mem = data[Person(x.list)]]]
          /\ Overlap(r) /\ UNCHANGED <<shown, walk>>
       \/ run' = [run EXCEPT ![r] = NoRun] /\ UNCHANGED <<chat, ghosts>>
  <2>1. \/ /\ Listing(run[r].list, 0) # <<>>
           /\ run' = [run EXCEPT ![r] =
                [run[r] EXCEPT !.at = "old",
                   !.page = Clamp(run[r].page, TotalPages(Len(Listing(run[r].list, 0)), PageSize)),
                   !.total = Len(Listing(run[r].list, 0)),
                   !.rows = Slice(Listing(run[r].list, 0),
                     Clamp(run[r].page, TotalPages(Len(Listing(run[r].list, 0)), PageSize)), PageSize)]]
           /\ walk' = [walk EXCEPT ![run[r].list] =
                Walked(run[r].list,
                  Clamp(run[r].page, TotalPages(Len(Listing(run[r].list, 0)), PageSize)),
                  Slice(Listing(run[r].list, 0),
                    Clamp(run[r].page, TotalPages(Len(Listing(run[r].list, 0)), PageSize)), PageSize),
                  Len(Listing(run[r].list, 0)), 0, TRUE)]
           /\ Overlap(r) /\ UNCHANGED <<chat, shown>>
        \/ /\ run[r].src = 0 \/ \E m \in With("client", run[r].src) : m.kind = "header"
           /\ chat' = [chat EXCEPT !.client =
                        (@ \ With("client", run[r].src))
                          \cup {[m EXCEPT !.kind = "note"] : m \in With("client", run[r].src)}]
           /\ run' = GoReading(r, "none")
           /\ Overlap(r) /\ UNCHANGED <<shown, walk>>
        \/ run' = [run EXCEPT ![r] = NoRun] /\ UNCHANGED <<chat, ghosts>>
    BY Zenon DEF ReadOrders
  <2>2. GoReading(r, "none") = [run EXCEPT ![r] = [x EXCEPT !.at = "none", !.mem = data[Person(x.list)]]]
    BY <1>1 DEF GoReading, IInv, Types
  <2>. QED
    BY <1>1, <1>3, <1>4, <1>5, <1>6, <1>7, <2>1, <2>2
<1>. DEFINE Lists0 == /\ list # <<>>
                      /\ run' = [run EXCEPT ![r] = [x EXCEPT !.at = "old", !.page = page,
                                                             !.total = total, !.rows = slice]]
                      /\ walk' = [walk EXCEPT ![x.list] = Walked(x.list, page, slice, total, 0, TRUE)]
                      /\ Overlap(r) /\ UNCHANGED <<chat, shown>>
            Empty0 == /\ x.src = 0 \/ \E m \in src : m.kind = "header"
                      /\ chat' = [chat EXCEPT !.client =
                                   (@ \ src) \cup {[m EXCEPT !.kind = "note"] : m \in src}]
                      /\ run' = [run EXCEPT ![r] = [x EXCEPT !.at = "none",
                                                             !.mem = data[Person(x.list)]]]
                      /\ Overlap(r) /\ UNCHANGED <<shown, walk>>
<1>11. ASSUME Lists0 PROVE IInv'
  <2>1. PICK y : y = [x EXCEPT !.at = "old", !.page = page, !.total = total, !.rows = slice]
    OBVIOUS
  <2>2. /\ slice \in Seq(Orders) /\ ToSet(slice) \subseteq Members(x.list, 0)
        /\ Len(slice) = Least(PageSize, total - PageSize * (page - 1))
    BY <1>3, <1>4, <1>5, <1>6, PageRows
  <2>3. y \in RunRecords
    <3>1. page \in Int /\ "old" \in Late
      BY DEF Late
    <3>. QED
      BY <2>1, <2>2, <3>1 DEF RunRecords
  <2>4. /\ y.at = "old" /\ y.list = x.list /\ y.total = total /\ y.page = page /\ y.day = x.day
        /\ y.rows = slice /\ y.report = x.report /\ y.sent = x.sent /\ y.ids = x.ids
        /\ y.src = x.src /\ y.mem = x.mem /\ y.clean = x.clean
    BY <2>1 DEF RunRecords
  <2>5. OwnRun(y)
    BY <1>2, <2>4 DEF OwnRun
  <2>6. ControlOf(y)
    BY <1>8, <1>9, <2>4 DEF ControlOf, Early, Late, Tracked
  <2>7. ReadingOf(y)
    <3>1. Exists(y) /\ Filled(y)
      BY <1>5, <2>2, <2>4 DEF Exists, Filled
    <3>2. Told(y)
      BY <2>2, <2>4, MembersPlaced DEF Told, IInv
    <3>3. Honest(y)
      BY <1>8, <2>4, <3>1 DEF Honest
    <3>. QED
      BY <1>8, <2>4, <3>1, <3>2, <3>3 DEF ReadingOf
  <2>8. walk' \in [Tracked -> WalkRecords] /\ Walks'
    <3>1. x.list \in Tracked /\ 0 \in 0..MaxDay
      BY <1>8, BoundsAssumption DEF Tracked
    <3>2. PICK w : w = Walked(x.list, page, slice, total, 0, TRUE)
      OBVIOUS
    <3>3. w \in WalkRecords /\ WalkOf(x.list, w)
      BY <1>3, <1>4, <1>5, <1>6, <2>2, <3>1, <3>2, WalkedOn DEF IInv
    <3>. QED
      BY <1>8, <1>11, <3>1, <3>2, <3>3, WalksStep DEF IInv, db
  <2>9. y.at \notin Loose \cup {"delete"} /\ y.at \notin Holding
    BY <2>4 DEF Loose, Holding
  <2>. QED
    BY <1>1, <1>8, <1>9, <1>11, <2>1, <2>3, <2>4, <2>5, <2>6, <2>7, <2>8, <2>9, ReadStep DEF db
<1>12. ASSUME Empty0 PROVE IInv'
  <2>1. PICK y : y = [x EXCEPT !.at = "none", !.mem = data[Person(x.list)]]
    OBVIOUS
  <2>2. y \in RunRecords
    BY <1>2, <2>1 DEF RunRecords, Early
  <2>3. /\ y.at = "none" /\ y.list = x.list
        /\ y.rows = x.rows /\ y.report = x.report /\ y.sent = x.sent /\ y.ids = x.ids
        /\ y.src = x.src /\ y.mem = data[Person(y.list)]
    BY <2>1 DEF RunRecords
  <2>4. OwnRun(y)
    BY <1>2, <2>3 DEF OwnRun
  <2>5. ControlOf(y)
    BY <1>8, <1>9, <2>3 DEF ControlOf, Early, Late
  <2>6. ReadingOf(y)
    BY <1>9, <2>3 DEF ReadingOf, Late, Told, ToSet
  <2>7. /\ chat' \in [People -> SUBSET Messages] /\ Chats' /\ Steady /\ CardsKept
        /\ \A p \in People : \A m \in chat'[p] : m \in chat[p] \/ m.kind = "note"
    <3>1. "client" \in People /\ chat \in [People -> SUBSET Messages]
      BY DEF People, IInv, Types
    <3>2. CASE src = {}
      <4>1. chat' = chat
        BY <1>12, <3>1, <3>2
      <4>. QED
        BY <1>8, <3>1, <4>1, SameChat DEF IInv
    <3>3. CASE src # {}
      <4>1. \A m \in src : m \in Messages /\ m.id = x.src /\ m.id # 0
        BY <1>7, <3>1 DEF With, Messages
      <4>2. PICK m \in src : m.kind = "header"
        BY <1>12, <3>3, <4>1
      <4>3. m \in chat["client"] /\ src = {m}
        BY <1>7, <3>1, <4>2 DEF With, IInv, Chats
      <4>4. PICK new : new = [m EXCEPT !.kind = "note"]
        OBVIOUS
      <4>5. new \in Messages /\ new.id = m.id /\ new.kind = "note"
        BY <4>1, <4>2, <4>4 DEF Messages
      <4>6. chat' = [chat EXCEPT !["client"] = (@ \ {m}) \cup {new}] /\ next' = next
        BY <1>8, <1>12, <4>3, <4>4
      <4>7. chat' \in [People -> SUBSET Messages] /\ Chats' /\ Steady /\ CardsKept
        BY <3>1, <4>2, <4>3, <4>5, <4>6, Edited DEF IInv, Fits
      <4>. QED
        BY <3>1, <4>5, <4>6, <4>7
    <3>. QED
      BY <3>2, <3>3
  <2>8. /\ DataOwn' /\ OwnRun(y)' /\ spoilt' \in SUBSET Tracked /\ spoilt \subseteq spoilt'
        /\ \A q \in Runs \ {r} : Beside(y, run[q]) => y.list \in spoilt' /\ run[q].list \in spoilt'
    BY <1>1, <1>8, <1>12, <2>2, <2>3, <2>4, <2>7, DataSame, OwnKept, OverlapSpoils DEF IInv
  <2>9. /\ Types' /\ Dated' /\ Ids' /\ Control' /\ Readings' /\ Headers'
    BY <1>8, <1>12, <2>1, <2>2, <2>5, <2>6, <2>7, <2>8, RunStep DEF IInv, Types, db
  <2>10. Walks'
    BY <1>8, <1>12, WalksSame DEF IInv, db
  <2>11. Alone' /\ Cardlists'
    <3>1. \A l \in Tracked : ListKept(l)
      BY <1>8, <1>12, <2>7 DEF CardsKept, ListKept
    <3>2. \A l \in Tracked : Knows(y, l)'
      BY <1>8, <2>3, KnowsRead
    <3>3. y.at \notin Loose \cup {"delete"}
      BY <2>3 DEF Loose
    <3>. QED
      BY <1>1, <1>9, <1>12, <2>1, <2>2, <2>8, <3>1, <3>2, <3>3, QuietStep DEF IInv
  <2>. QED
    BY <2>7, <2>9, <2>10, <2>11 DEF IInv
<1>13. ASSUME run' = [run EXCEPT ![r] = NoRun], UNCHANGED <<chat, ghosts>>
       PROVE  IInv'
  <2>1. PICK y \in RunRecords : y = NoRun
    BY NoRunType
  <2>2. OwnRun(y) /\ ControlOf(y) /\ ReadingOf(y)
    BY <2>1, NoRunOwn DEF ControlOf, ReadingOf, NoRun, Early, Late, Told, ToSet
  <2>3. /\ Types' /\ Dated' /\ Chats' /\ Ids' /\ Control' /\ Readings' /\ Headers'
        /\ \A k \in Tracked : ListKept(k)
    BY <1>8, <1>13, <2>1, <2>2, SilentStep DEF db, ghosts, IInv, Types
  <2>4. Walks'
    BY <1>8, <1>13, WalksSame DEF IInv, db, ghosts
  <2>5. /\ y.at \notin Loose \cup {"delete"} /\ \A q : ~Beside(y, run[q])
        /\ \A l \in Tracked : Knows(y, l)'
    BY <2>1 DEF NoRun, Loose, Beside, IsBusy, Knows, Holding
  <2>6. Alone' /\ Cardlists'
    BY <1>1, <1>9, <1>13, <2>1, <2>3, <2>5, QuietStep DEF IInv, ghosts
  <2>. QED
    BY <2>3, <2>4, <2>6 DEF IInv
<1>. QED
  BY <1>10, <1>11, <1>12, <1>13

-----------------------------------------------------------------------------
(***************************************************************************)
(* update_data: a run writes back the data it has read.                    *)
(***************************************************************************)

LEMMA StoreStep ==
  ASSUME IInv, NEW r \in Runs, NEW CONSTANT x \in RunRecords, x = run[r],
         NEW CONSTANT d \in DataRecords, data' = [data EXCEPT ![Person(x.list)] = d],
         \A l \in Tracked : d.ids[l] = x.mem.ids[l] \/ (l = x.list /\ d.ids[l] \in {{}, x.sent}),
         NEW CONSTANT y \in RunRecords, run' = [run EXCEPT ![r] = y],
         OwnRun(y), ControlOf(y), ReadingOf(y),
         UNCHANGED <<status, placed, today, chat, next, walk>>,
         shown' \in [Tracked -> Seq(Orders)], spoilt' \in SUBSET Tracked, spoilt \subseteq spoilt',
         x.at \in Holding
  PROVE  /\ Types' /\ Dated' /\ Chats' /\ Ids' /\ Control' /\ Readings' /\ Headers' /\ Walks'
         /\ CardsKept /\ \A l : data'[Person(x.list)].ids[l] = d.ids[l]
         /\ \A l \in Tracked \ spoilt' :
              d.ids[l] = x.mem.ids[l] /\ shown'[l] = shown[l] => ListKept(l)
<1>1. /\ OwnRun(x) /\ x.list \in Lists /\ Person(x.list) \in People
      /\ \A l \in Tracked \ spoilt : Knows(x, l)
  BY RunParts
<1>2. Types /\ Chats /\ Ids
  BY DEF IInv
<1>3. Chats' /\ Steady /\ CardsKept
  BY <1>2, SameChat
<1>4. ASSUME NEW l \in Tracked PROVE Own(Person(x.list), l, d.ids[l])
  <2>1. CASE d.ids[l] = x.mem.ids[l]
    BY <1>1, <2>1 DEF OwnRun
  <2>2. CASE l = x.list /\ d.ids[l] = {}
    BY <2>2 DEF Own
  <2>3. CASE l = x.list /\ d.ids[l] = x.sent
    BY <1>1, <2>3 DEF OwnRun
  <2>. QED
    BY <2>1, <2>2, <2>3
<1>5. data' \in [People -> DataRecords] /\ DataOwn'
  BY <1>1, <1>2, <1>3, <1>4, DataSet
<1>6. OwnRun(y)'
  BY <1>2, <1>3, OwnKept
<1>7. Types' /\ Dated' /\ Ids' /\ Control' /\ Readings' /\ Headers'
  BY <1>2, <1>3, <1>5, <1>6, RunStep DEF Types
<1>8. Walks'
  BY WalksSame DEF IInv
<1>9. data \in [People -> DataRecords]
  BY <1>2 DEF Types
<1>10. data'[Person(x.list)] = d /\ \A p \in People \ {Person(x.list)} : data'[p] = data[p]
  BY <1>1, <1>9
<1>11. ASSUME NEW l \in Tracked \ spoilt', d.ids[l] = x.mem.ids[l], shown'[l] = shown[l]
       PROVE  ListKept(l)
  <2>1. Person(l) \in People
    BY PersonType DEF Lists
  <2>2. data'[Person(l)].ids[l] = data[Person(l)].ids[l]
    BY <1>1, <1>10, <1>11, <2>1 DEF Knows
  <2>. QED
    BY <1>3, <1>11, <2>2 DEF ListKept, CardsKept
<1>. QED
  BY <1>3, <1>7, <1>8, <1>10, <1>11

LEMMA IdsUpdate ==
  ASSUME NEW CONSTANT mem \in DataRecords, NEW CONSTANT k \in Tracked, NEW CONSTANT ids \in SUBSET Nat
  PROVE  LET d == [mem EXCEPT !.ids[k] = ids] IN
         d \in DataRecords /\ d.ids[k] = ids /\ \A l \in Tracked \ {k} : d.ids[l] = mem.ids[l]
BY DEF DataRecords

LEMMA NoRunParts ==
  /\ OwnRun(NoRun) /\ ControlOf(NoRun) /\ ReadingOf(NoRun)
  /\ NoRun.at \notin Loose \cup {"delete"} \cup Holding
  /\ ~IsBusy(NoRun) /\ Renders(NoRun)' /\ \A l : Knows(NoRun, l)'
BY NoRunOwn DEF ControlOf, ReadingOf, NoRun, Early, Late, Told, ToSet, Loose, Holding, IsBusy,
                Renders, Knows

LEMMA StoreNoneKeeps ==
  ASSUME IInv, NEW r \in Runs, StoreNone(r)
  PROVE  IInv'
<1>1. PICK x \in RunRecords : x = run[r]
  BY DEF IInv, Types
<1>2. ControlOf(x) /\ x.at = "none"
  BY <1>1, RunParts DEF StoreNone
<1>3. PICK k \in Tracked : k = x.list /\ Person(k) = "client" /\ k \in {"history", "active"}
  BY <1>2 DEF ControlOf, Tracked, Person
<1>4. x.mem \in DataRecords
  BY DEF RunRecords
<1>5. PICK d \in DataRecords : /\ d = [x.mem EXCEPT !.ids[k] = {}] /\ d.ids[k] = {}
                               /\ \A l \in Tracked \ {k} : d.ids[l] = x.mem.ids[l]
  <2>1. PICK none \in SUBSET Nat : none = {}
    OBVIOUS
  <2>2. PICK mem \in DataRecords : mem = x.mem
    BY <1>4
  <2>3. PICK d : d = [mem EXCEPT !.ids[k] = none]
    OBVIOUS
  <2>4. d \in DataRecords /\ d.ids[k] = none /\ \A l \in Tracked \ {k} : d.ids[l] = mem.ids[l]
    BY <2>3, IdsUpdate
  <2>. QED
    BY <2>1, <2>2, <2>3, <2>4, ZenonT(60)
<1>6. PICK y \in RunRecords : y = NoRun
  BY NoRunType
<1>7. /\ data' = [data EXCEPT ![Person(x.list)] = d]
      /\ shown' = [shown EXCEPT ![k] = <<>>]
      /\ spoilt' = IF Cards(k) = {} THEN spoilt ELSE spoilt \cup {k}
      /\ run' = [run EXCEPT ![r] = y]
      /\ UNCHANGED <<db, chat, next, presses, walk>>
  BY <1>1, <1>3, <1>5, <1>6 DEF StoreNone
<1>8. Types /\ Control /\ Alone /\ Cardlists
  BY DEF IInv
<1>9. /\ spoilt \subseteq spoilt' /\ spoilt' \in SUBSET Tracked
      /\ shown' \in [Tracked -> Seq(Orders)] /\ shown'[k] = <<>>
      /\ \A l \in Tracked \ {k} : shown'[l] = shown[l]
  <2>1. <<>> \in Seq(Orders)
    OBVIOUS
  <2>. QED
    BY <1>7, <1>8, <2>1 DEF Types
<1>10. /\ Types' /\ Dated' /\ Chats' /\ Ids' /\ Control' /\ Readings' /\ Headers' /\ Walks'
       /\ CardsKept /\ data'[Person(k)].ids[k] = {}
       /\ \A l \in Tracked \ spoilt' : l # k => ListKept(l)
  <2>1. OwnRun(y) /\ ControlOf(y) /\ ReadingOf(y)
    BY <1>6, NoRunParts
  <2>2. \A l \in Tracked : d.ids[l] = x.mem.ids[l] \/ (l = x.list /\ d.ids[l] \in {{}, x.sent})
    BY <1>3, <1>5
  <2>3. x.at \in Holding
    BY <1>2 DEF Holding
  <2>4. UNCHANGED <<status, placed, today, chat, next, walk>>
    BY <1>7 DEF db
  <2>5. /\ Types' /\ Dated' /\ Chats' /\ Ids' /\ Control' /\ Readings' /\ Headers' /\ Walks'
        /\ CardsKept /\ \A l : data'[Person(x.list)].ids[l] = d.ids[l]
        /\ \A l \in Tracked \ spoilt' :
             d.ids[l] = x.mem.ids[l] /\ shown'[l] = shown[l] => ListKept(l)
    <3>1. /\ x = run[r] /\ data' = [data EXCEPT ![Person(x.list)] = d]
          /\ run' = [run EXCEPT ![r] = y]
          /\ shown' \in [Tracked -> Seq(Orders)] /\ spoilt' \in SUBSET Tracked
          /\ spoilt \subseteq spoilt'
      BY <1>1, <1>7, <1>9
    <3>. QED
      BY <2>1, <2>2, <2>3, <2>4, <3>1, StoreStep, ZenonT(180)
  <2>. QED
    BY <1>3, <1>5, <1>9, <2>5
<1>11. Alone' /\ Cardlists'
  <2>1. ASSUME k \notin spoilt' PROVE Settled(k)'
    <3>1. Cards(k) = {}
      BY <1>7, <2>1
    <3>2. Cards(k)' = {}
      BY <1>7, <3>1 DEF Cards
    <3>3. CardIds(k)' = {} /\ CardRows(k)' = {}
      BY <3>2 DEF CardIds, CardRows
    <3>. QED
      BY <1>9, <1>10, <3>3, FS_EmptySet DEF Settled, ToSet
  <2>2. IsBusy(run[r])
    BY <1>1, <1>2 DEF IsBusy
  <2>3. Renders(y)' /\ \A l : Knows(y, l)'
    BY <1>6, NoRunParts
  <2>4. /\ run[r].list = k /\ (y.list = k \/ y = NoRun)
        /\ k \notin spoilt' /\ y.at \notin Loose => Settled(k)'
        /\ k \notin spoilt' /\ y.list = k => Renders(y)'
        /\ \A l \in Tracked \ spoilt' : Knows(y, l)'
        /\ \A l \in Tracked \ spoilt' : l # k => ListKept(l)
    BY <1>1, <1>3, <1>6, <1>10, <2>1, <2>3
  <2>5. run' = [run EXCEPT ![r] = y] /\ spoilt \subseteq spoilt'
    BY <1>7, <1>9
  <2>. QED
    BY <1>8, <2>2, <2>4, <2>5, BusyStep
<1>. QED
  BY <1>10, <1>11 DEF IInv

LEMMA StoreDayKeeps ==
  ASSUME IInv, NEW r \in Runs, StoreDay(r)
  PROVE  IInv'
<1>1. PICK x \in RunRecords : x = run[r]
  BY DEF IInv, Types
<1>2. OwnRun(x) /\ ControlOf(x) /\ ReadingOf(x) /\ x.at \in {"pick", "default"}
  BY <1>1, RunParts DEF StoreDay
<1>3. x.list = "report" /\ Person(x.list) = "staff" /\ (x.at = "default" => x.day # 0)
  BY <1>2 DEF ControlOf, Person
<1>4. PICK d \in DataRecords : /\ d = [x.mem EXCEPT !.date = IF x.at = "pick" THEN x.pick ELSE x.day]
                               /\ d.ids = x.mem.ids
  <2>1. PICK date \in 0..MaxDay : date = IF x.at = "pick" THEN x.pick ELSE x.day
    BY DEF RunRecords
  <2>2. x.mem \in DataRecords
    BY DEF RunRecords
  <2>. QED
    BY <2>1, <2>2, ZenonT(60) DEF DataRecords
<1>5. PICK y : y = [x EXCEPT !.at = IF x.at = "pick" THEN "date" ELSE "count"]
  OBVIOUS
<1>6. /\ data' = [data EXCEPT ![Person(x.list)] = d] /\ run' = [run EXCEPT ![r] = y]
      /\ UNCHANGED <<db, chat, next, presses, ghosts>>
  BY <1>1, <1>3, <1>4, <1>5 DEF StoreDay, Go, IInv, Types
<1>7. y \in RunRecords
  BY <1>5 DEF RunRecords, Early
<1>8. /\ y.at \in {"date", "count"} /\ (y.at = "count" => x.at = "default") /\ y.list = x.list
      /\ y.day = x.day /\ y.rows = x.rows /\ y.report = x.report /\ y.sent = x.sent
      /\ y.ids = x.ids /\ y.src = x.src /\ y.mem = x.mem
  BY <1>2, <1>5 DEF RunRecords
<1>9. OwnRun(y)
  BY <1>2, <1>8 DEF OwnRun
<1>10. ControlOf(y)
  BY <1>2, <1>3, <1>8 DEF ControlOf, Early, Late
<1>11. ReadingOf(y)
  BY <1>2, <1>8 DEF ReadingOf, Late, Told
<1>12. Types /\ Alone /\ Cardlists
  BY DEF IInv
<1>13. /\ Types' /\ Dated' /\ Chats' /\ Ids' /\ Control' /\ Readings' /\ Headers' /\ Walks'
       /\ \A l \in Tracked \ spoilt' : ListKept(l)
  <2>1. x.at \in Holding
    BY <1>2 DEF Holding
  <2>2. /\ UNCHANGED <<status, placed, today, chat, next, walk>> /\ spoilt \subseteq spoilt'
        /\ shown' \in [Tracked -> Seq(Orders)] /\ spoilt' \in SUBSET Tracked /\ UNCHANGED shown
    BY <1>6, <1>12 DEF Types, db, ghosts
  <2>3. \A l \in Tracked : d.ids[l] = x.mem.ids[l] \/ (l = x.list /\ d.ids[l] \in {{}, x.sent})
    BY <1>4
  <2>4. /\ Types' /\ Dated' /\ Chats' /\ Ids' /\ Control' /\ Readings' /\ Headers' /\ Walks'
        /\ \A l \in Tracked \ spoilt' :
             d.ids[l] = x.mem.ids[l] /\ shown'[l] = shown[l] => ListKept(l)
    <3>1. /\ x = run[r] /\ data' = [data EXCEPT ![Person(x.list)] = d]
          /\ run' = [run EXCEPT ![r] = y]
          /\ shown' \in [Tracked -> Seq(Orders)] /\ spoilt' \in SUBSET Tracked
          /\ spoilt \subseteq spoilt'
      BY <1>1, <1>6, <2>2
    <3>2. UNCHANGED <<status, placed, today, chat, next, walk>>
      BY <2>2
    <3>3. OwnRun(y) /\ ControlOf(y) /\ ReadingOf(y)
      BY <1>9, <1>10, <1>11
    <3>. QED
      BY <1>7, <2>1, <2>3, <3>1, <3>2, <3>3, StoreStep, ZenonT(180)
  <2>. QED
    BY <1>4, <2>2, <2>4
<1>14. Alone' /\ Cardlists'
  <2>1. IsBusy(x) /\ x.at \notin Loose
    BY <1>2 DEF IsBusy, Loose
  <2>2. \A q \in Runs \ {r} : Beside(y, run[q]) => y.list \in spoilt /\ run[q].list \in spoilt
    BY <1>1, <1>8, <1>12, <2>1, BusyMet
  <2>3. y.at \notin Loose \cup {"delete"} /\ \A l : Knows(y, l)'
    BY <1>8 DEF Loose, Knows, Holding
  <2>. QED
    BY <1>1, <1>6, <1>7, <1>12, <1>13, <2>1, <2>2, <2>3, QuietStep DEF ghosts
<1>. QED
  BY <1>13, <1>14 DEF IInv

LEMMA ForgetOldKeeps ==
  ASSUME IInv, NEW r \in Runs, ForgetOld(r)
  PROVE  IInv'
<1>1. PICK x \in RunRecords : x = run[r]
  BY DEF IInv, Types
<1>2. /\ OwnRun(x) /\ ControlOf(x) /\ ReadingOf(x) /\ x.at = "forget"
      /\ \A l \in Tracked \ spoilt : Knows(x, l) /\ (x.list = l => Renders(x))
  BY <1>1, RunParts DEF ForgetOld
<1>3. PICK k \in Tracked : k = x.list
  BY <1>2 DEF ControlOf, Late
<1>4. x.mem \in DataRecords
  BY DEF RunRecords
<1>5. PICK d : d = [x.mem EXCEPT !.ids[k] = {}]
  OBVIOUS
<1>6. d \in DataRecords /\ d.ids[k] = {} /\ \A l \in Tracked \ {k} : d.ids[l] = x.mem.ids[l]
  <2>1. PICK none \in SUBSET Nat : none = {}
    OBVIOUS
  <2>2. PICK mem \in DataRecords : mem = x.mem
    BY <1>4
  <2>3. d = [mem EXCEPT !.ids[k] = none]
    BY <1>5, <2>1, <2>2
  <2>4. d \in DataRecords /\ d.ids[k] = none /\ \A l \in Tracked \ {k} : d.ids[l] = mem.ids[l]
    BY <2>3, IdsUpdate
  <2>. QED
    BY <2>1, <2>2, <2>4
<1>7. PICK y : y = [x EXCEPT !.at = "head"]
  OBVIOUS
<1>8. y \in RunRecords
  BY <1>7 DEF RunRecords, Late
<1>9. /\ y.at = "head" /\ y.list = x.list /\ y.page = x.page /\ y.total = x.total /\ y.clean = x.clean
      /\ y.day = x.day /\ y.rows = x.rows /\ y.report = x.report /\ y.sent = x.sent
      /\ y.ids = x.ids /\ y.src = x.src /\ y.mem = x.mem
  BY <1>7 DEF RunRecords
<1>10. /\ x.at = "forget" /\ data' = [data EXCEPT ![Person(x.list)] = d]
       /\ run' = [run EXCEPT ![r] = y]
       /\ UNCHANGED <<db, chat, next, presses, ghosts>>
  BY <1>1, <1>3, <1>5, <1>7 DEF ForgetOld, Go, IInv, Types
<1>11. UNCHANGED <<status, placed, today, chat, next, walk>> /\ UNCHANGED <<shown, spoilt>>
  BY <1>10 DEF db, ghosts
<1>12. Types /\ Control /\ Alone /\ Cardlists
  BY DEF IInv
<1>13. /\ shown' \in [Tracked -> Seq(Orders)] /\ spoilt' \in SUBSET Tracked /\ spoilt \subseteq spoilt'
       /\ \A l : shown'[l] = shown[l]
  BY <1>11, <1>12 DEF Types
<1>14. OwnRun(y)
  BY <1>2, <1>9 DEF OwnRun
<1>15. ControlOf(y)
  BY <1>2, <1>9 DEF ControlOf, Early, Late
<1>16. ReadingOf(y)
  <2>1. Honest(x) /\ Told(x)
    BY <1>2, <1>3 DEF ReadingOf, Late
  <2>2. Honest(y) /\ Told(y)
    BY <1>9, <2>1 DEF Honest, Told, Exists, Filled
  <2>. QED
    BY <1>9, <2>2 DEF ReadingOf
<1>17. /\ Types' /\ Dated' /\ Chats' /\ Ids' /\ Control' /\ Readings' /\ Headers' /\ Walks'
       /\ CardsKept /\ \A l \in Tracked \ spoilt' : l # k => ListKept(l)
  <2>1. \A l \in Tracked : d.ids[l] = x.mem.ids[l] \/ (l = x.list /\ d.ids[l] \in {{}, x.sent})
    BY <1>3, <1>6
  <2>2. x.at \in Holding
    BY <1>2 DEF Holding
  <2>3. /\ Types' /\ Dated' /\ Chats' /\ Ids' /\ Control' /\ Readings' /\ Headers' /\ Walks'
        /\ CardsKept /\ \A l : data'[Person(x.list)].ids[l] = d.ids[l]
        /\ \A l \in Tracked \ spoilt' :
             d.ids[l] = x.mem.ids[l] /\ shown'[l] = shown[l] => ListKept(l)
    <3>1. /\ x = run[r] /\ data' = [data EXCEPT ![Person(x.list)] = d]
          /\ run' = [run EXCEPT ![r] = y]
          /\ shown' \in [Tracked -> Seq(Orders)] /\ spoilt' \in SUBSET Tracked
          /\ spoilt \subseteq spoilt'
      BY <1>1, <1>10, <1>13
    <3>2. UNCHANGED <<status, placed, today, chat, next, walk>>
      BY <1>11
    <3>3. OwnRun(y) /\ ControlOf(y) /\ ReadingOf(y)
      BY <1>14, <1>15, <1>16
    <3>4. d \in DataRecords
      BY <1>6
    <3>. QED
      BY <1>8, <2>1, <2>2, <3>1, <3>2, <3>3, <3>4, StoreStep, ZenonT(180)
  <2>. QED
    BY <1>6, <1>13, <2>3
<1>18. Alone' /\ Cardlists'
  <2>1. k \notin spoilt' => Renders(y)'
    <3>1. k \notin spoilt' => CardIds(k) = {}
      BY <1>2, <1>3, <1>11 DEF Renders
    <3>2. k \notin spoilt' => CardIds(k)' = {}
      BY <1>17, <3>1 DEF CardsKept
    <3>. QED
      BY <1>3, <1>9, <3>2 DEF Renders
  <2>2. /\ IsBusy(run[r]) /\ y.at \in Loose /\ \A l : Knows(y, l)'
    BY <1>1, <1>2, <1>9 DEF IsBusy, Loose, Knows, Holding
  <2>3. /\ run' = [run EXCEPT ![r] = y] /\ spoilt \subseteq spoilt' /\ run[r].list = k /\ y.list = k
    BY <1>1, <1>3, <1>9, <1>10, <1>13
  <2>4. \A l \in Tracked \ spoilt' : l # k => ListKept(l)
    BY <1>17
  <2>. QED
    BY <1>8, <1>12, <2>1, <2>2, <2>3, <2>4, BusyStep
<1>. QED
  BY <1>17, <1>18 DEF IInv

LEMMA KeepIdsKeeps ==
  ASSUME IInv, NEW r \in Runs, KeepIds(r)
  PROVE  IInv'
<1>1. PICK x \in RunRecords : x = run[r]
  BY DEF IInv, Types
<1>2. /\ OwnRun(x) /\ ControlOf(x) /\ x.at = "keep"
      /\ \A l \in Tracked \ spoilt : Knows(x, l) /\ (x.list = l => Renders(x))
  BY <1>1, RunParts DEF KeepIds
<1>3. PICK k \in Tracked : k = x.list
  BY <1>2 DEF ControlOf, Late
<1>4. x.mem \in DataRecords /\ x.sent \in SUBSET Nat /\ x.rows \in Seq(Orders)
  BY DEF RunRecords
<1>5. PICK d : d = [x.mem EXCEPT !.ids[k] = x.sent]
  OBVIOUS
<1>6. d \in DataRecords /\ d.ids[k] = x.sent /\ \A l \in Tracked \ {k} : d.ids[l] = x.mem.ids[l]
  <2>1. PICK sent \in SUBSET Nat : sent = x.sent
    BY <1>4
  <2>2. PICK mem \in DataRecords : mem = x.mem
    BY <1>4
  <2>3. d = [mem EXCEPT !.ids[k] = sent]
    BY <1>5, <2>1, <2>2
  <2>4. d \in DataRecords /\ d.ids[k] = sent /\ \A l \in Tracked \ {k} : d.ids[l] = mem.ids[l]
    BY <2>3, IdsUpdate
  <2>. QED
    BY <2>1, <2>2, <2>4
<1>7. PICK y \in RunRecords : y = NoRun
  BY NoRunType
<1>8. /\ data' = [data EXCEPT ![Person(x.list)] = d] /\ run' = [run EXCEPT ![r] = y]
      /\ shown' = [shown EXCEPT ![k] = x.rows]
      /\ UNCHANGED <<db, chat, next, presses, walk, spoilt>>
  BY <1>1, <1>3, <1>5, <1>7 DEF KeepIds
<1>9. UNCHANGED <<status, placed, today, chat, next, walk>> /\ UNCHANGED spoilt
  BY <1>8 DEF db
<1>10. Types /\ Control /\ Alone /\ Cardlists
  BY DEF IInv
<1>11. /\ shown' \in [Tracked -> Seq(Orders)] /\ spoilt' \in SUBSET Tracked /\ spoilt \subseteq spoilt'
       /\ shown'[k] = x.rows /\ \A l \in Tracked \ {k} : shown'[l] = shown[l]
  BY <1>4, <1>8, <1>9, <1>10 DEF Types
<1>12. OwnRun(y) /\ ControlOf(y) /\ ReadingOf(y)
  BY <1>7, NoRunParts
<1>13. /\ Types' /\ Dated' /\ Chats' /\ Ids' /\ Control' /\ Readings' /\ Headers' /\ Walks'
       /\ CardsKept /\ data'[Person(k)].ids[k] = x.sent
       /\ \A l \in Tracked \ spoilt' : l # k => ListKept(l)
  <2>1. \A l \in Tracked : d.ids[l] = x.mem.ids[l] \/ (l = x.list /\ d.ids[l] \in {{}, x.sent})
    BY <1>3, <1>6
  <2>2. x.at \in Holding
    BY <1>2 DEF Holding
  <2>3. /\ Types' /\ Dated' /\ Chats' /\ Ids' /\ Control' /\ Readings' /\ Headers' /\ Walks'
        /\ CardsKept /\ \A l : data'[Person(x.list)].ids[l] = d.ids[l]
        /\ \A l \in Tracked \ spoilt' :
             d.ids[l] = x.mem.ids[l] /\ shown'[l] = shown[l] => ListKept(l)
    <3>1. /\ x = run[r] /\ data' = [data EXCEPT ![Person(x.list)] = d]
          /\ run' = [run EXCEPT ![r] = y]
          /\ shown' \in [Tracked -> Seq(Orders)] /\ spoilt' \in SUBSET Tracked
          /\ spoilt \subseteq spoilt'
      BY <1>1, <1>8, <1>11
    <3>2. UNCHANGED <<status, placed, today, chat, next, walk>>
      BY <1>9
    <3>3. OwnRun(y) /\ ControlOf(y) /\ ReadingOf(y)
      BY <1>12
    <3>4. d \in DataRecords /\ y \in RunRecords
      BY <1>6
    <3>. QED
      BY <2>1, <2>2, <3>1, <3>2, <3>3, <3>4, StoreStep, ZenonT(180)
  <2>. QED
    BY <1>3, <1>6, <1>11, <2>3
<1>14. Alone' /\ Cardlists'
  <2>1. k \notin spoilt' => Settled(k)'
    <3>. SUFFICES ASSUME k \notin spoilt PROVE Settled(k)'
      BY <1>9
    <3>1. CardIds(k) = x.sent /\ CardRows(k) = {x.rows[i] : i \in 1..Cardinality(x.sent)}
      BY <1>2, <1>3 DEF Renders
    <3>2. IsFiniteSet(x.sent) /\ Cardinality(x.sent) = Len(x.rows)
      BY <1>2 DEF OwnRun, ControlOf
    <3>3. ToSet(x.rows) = {x.rows[i] : i \in 1..Len(x.rows)}
      BY <1>4, LenProperties DEF ToSet
    <3>4. CardIds(k)' = x.sent /\ CardRows(k)' = ToSet(x.rows)
      BY <1>13, <3>1, <3>2, <3>3 DEF CardsKept
    <3>. QED
      BY <1>11, <1>13, <3>2, <3>4 DEF Settled
  <2>2. IsBusy(run[r]) /\ Renders(y)' /\ \A l : Knows(y, l)'
    BY <1>1, <1>2, <1>7, NoRunParts DEF IsBusy
  <2>3. run' = [run EXCEPT ![r] = y] /\ spoilt \subseteq spoilt' /\ run[r].list = k
    BY <1>1, <1>3, <1>8, <1>11
  <2>4. \A l \in Tracked \ spoilt' : l # k => ListKept(l)
    BY <1>13
  <2>. QED
    BY <1>7, <1>10, <2>1, <2>2, <2>3, <2>4, BusyStep
<1>. QED
  BY <1>13, <1>14 DEF IInv

-----------------------------------------------------------------------------
(***************************************************************************)
(* The old cards are deleted, the header and the new cards are sent.       *)
(***************************************************************************)

LEMMA ReadOldKeeps ==
  ASSUME IInv, NEW r \in Runs, ReadOld(r)
  PROVE  IInv'
<1>1. PICK x \in RunRecords : x = run[r]
  BY DEF IInv, Types
<1>2. /\ OwnRun(x) /\ ControlOf(x) /\ ReadingOf(x) /\ x.at = "old"
      /\ data[Person(x.list)] \in DataRecords
      /\ \A l \in Tracked : Own(Person(x.list), l, data[Person(x.list)].ids[l])
  BY <1>1, RunParts DEF ReadOld
<1>3. PICK k \in Tracked : k = x.list
  BY <1>2 DEF ControlOf, Late
<1>4. PICK ids \in SUBSET Nat : ids = data[Person(k)].ids[k]
  BY <1>2, <1>3 DEF DataRecords
<1>5. PICK y : y = [x EXCEPT !.at = IF ids = {} THEN "head" ELSE "delete", !.ids = ids]
  OBVIOUS
<1>6. y \in RunRecords
  BY <1>5 DEF RunRecords, Late
<1>7. /\ y.at = IF ids = {} THEN "head" ELSE "delete"
      /\ y.list = x.list /\ y.page = x.page /\ y.total = x.total /\ y.clean = x.clean
      /\ y.day = x.day /\ y.rows = x.rows /\ y.report = x.report /\ y.sent = x.sent
      /\ y.ids = ids /\ y.src = x.src /\ y.mem = x.mem
  BY <1>5 DEF RunRecords
<1>8. run' = [run EXCEPT ![r] = y] /\ UNCHANGED <<db, data, chat, next, presses, ghosts>>
  <2>1. /\ run' = [run EXCEPT ![r] = [run[r] EXCEPT
                     !.at = IF data[Person(run[r].list)].ids[run[r].list] = {} THEN "head" ELSE "delete",
                     !.ids = data[Person(run[r].list)].ids[run[r].list]]]
        /\ UNCHANGED <<db, data, chat, next, presses, ghosts>>
    BY DEF ReadOld, IInv, Types
  <2>. QED
    BY <1>1, <1>3, <1>4, <1>5, <2>1
<1>9. UNCHANGED <<status, placed, today, data, chat, next, shown>> /\ UNCHANGED <<walk, spoilt>>
  BY <1>8 DEF db, ghosts
<1>10. Types /\ Control /\ Alone /\ Cardlists
  BY DEF IInv
<1>11. OwnRun(y)
  BY <1>2, <1>3, <1>4, <1>7 DEF OwnRun
<1>12. ControlOf(y)
  BY <1>2, <1>7 DEF ControlOf, Early, Late
<1>13. ReadingOf(y)
  <2>1. Honest(x) /\ Told(x)
    BY <1>2, <1>3 DEF ReadingOf, Late
  <2>2. Honest(y) /\ Told(y)
    BY <1>7, <2>1 DEF Honest, Told, Exists, Filled
  <2>. QED
    BY <1>7, <2>2 DEF ReadingOf
<1>14. /\ Types' /\ Dated' /\ Chats' /\ Ids' /\ Control' /\ Readings' /\ Headers'
       /\ \A l \in Tracked : ListKept(l)
  <2>1. run' = [run EXCEPT ![r] = y]
    BY <1>8
  <2>2. walk' \in [Tracked -> WalkRecords] /\ spoilt' \in SUBSET Tracked
    BY <1>9, <1>10 DEF Types
  <2>. QED
    BY <1>6, <1>9, <1>11, <1>12, <1>13, <2>1, <2>2, SilentStep
<1>15. Walks'
  BY <1>9, WalksSame DEF IInv
<1>16. Alone' /\ Cardlists'
  <2>1. IsBusy(run[r]) /\ run[r].at \notin Loose /\ run[r].list = k
    BY <1>1, <1>2, <1>3 DEF IsBusy, Loose
  <2>2. k \notin spoilt' => Settled(k) /\ Settled(k)'
    BY <1>9, <1>10, <1>14, <2>1, BusyRests, SettledKept
  <2>3. k \notin spoilt' => Renders(y)'
    <3>. SUFFICES ASSUME k \notin spoilt' PROVE Renders(y)'
      OBVIOUS
    <3>1. CardIds(k)' = ids /\ data'[Person(k)].ids[k] = ids
      BY <1>4, <1>9, <2>2 DEF Settled
    <3>. QED
      BY <1>3, <1>7, <3>1 DEF Renders
  <2>4. \A l : Knows(y, l)'
    BY <1>7 DEF Knows, Holding
  <2>5. run' = [run EXCEPT ![r] = y] /\ spoilt \subseteq spoilt' /\ y.list = k
    BY <1>3, <1>7, <1>8, <1>9
  <2>. QED
    BY <1>6, <1>10, <1>14, <2>1, <2>2, <2>3, <2>4, <2>5, BusyStep
<1>. QED
  BY <1>14, <1>15, <1>16 DEF IInv

LEMMA DeleteOldKeeps ==
  ASSUME IInv, NEW r \in Runs, DeleteOld(r)
  PROVE  IInv'
<1>1. PICK x \in RunRecords : x = run[r]
  BY DEF IInv, Types
<1>2. /\ OwnRun(x) /\ ControlOf(x) /\ ReadingOf(x) /\ x.at = "delete"
      /\ data[Person(x.list)] \in DataRecords /\ Person(x.list) \in People
      /\ \A l \in Tracked : Own(Person(x.list), l, data[Person(x.list)].ids[l])
      /\ \A l \in Tracked \ spoilt : x.list = l => Renders(x)
  BY <1>1, RunParts DEF DeleteOld
<1>3. PICK k \in Tracked : k = x.list
  BY <1>2 DEF ControlOf, Late
<1>4. PICK p \in People : p = Person(k)
  BY <1>2, <1>3
<1>5. PICK gone : gone = {m \in chat[p] : m.id \in x.ids /\ m.id # x.src}
  OBVIOUS
<1>6. PICK y : y = [x EXCEPT !.at = "forget", !.mem = data[Person(x.list)]]
  OBVIOUS
<1>7. y \in RunRecords
  BY <1>2, <1>6 DEF RunRecords, Late
<1>8. /\ y.at = "forget" /\ y.list = x.list /\ y.page = x.page /\ y.total = x.total
      /\ y.clean = x.clean /\ y.day = x.day /\ y.rows = x.rows /\ y.report = x.report
      /\ y.sent = x.sent /\ y.ids = x.ids /\ y.src = x.src /\ y.mem = data[Person(x.list)]
  BY <1>6 DEF RunRecords
<1>9. /\ chat' = [chat EXCEPT ![p] = {m \in @ : m \notin gone}]
      /\ run' = [run EXCEPT ![r] = y]
      /\ UNCHANGED <<db, data, next, presses, ghosts>>
  <2>1. /\ chat' = [chat EXCEPT ![Person(run[r].list)] =
                      {m \in chat[Person(run[r].list)] : m.id \in run[r].ids => m.id = run[r].src}]
        /\ run' = GoReading(r, "forget")
        /\ UNCHANGED <<db, data, next, presses, ghosts>>
    BY DEF DeleteOld
  <2>2. GoReading(r, "forget") = [run EXCEPT ![r] = y]
    BY <1>1, <1>6 DEF GoReading, IInv, Types
  <2>3. {m \in chat[p] : m.id \in x.ids => m.id = x.src} = {m \in chat[p] : m \notin gone}
    BY <1>5
  <2>. QED
    BY <1>1, <1>3, <1>4, <2>1, <2>2, <2>3
<1>10. /\ UNCHANGED <<status, placed, today>> /\ UNCHANGED <<data, shown, walk, spoilt>>
       /\ next' = next
  BY <1>9 DEF db, ghosts
<1>11. Types /\ Control /\ Alone /\ Cardlists /\ Chats /\ Ids
  BY DEF IInv
<1>12. \A m \in gone : m.kind = "card" /\ m.list = k
  BY <1>2, <1>3, <1>4, <1>5 DEF OwnRun, Own
<1>13. /\ chat' \in [People -> SUBSET Messages] /\ Chats' /\ Steady
       /\ \A l \in Tracked : (\A m \in gone : m \in Cards(l) => Person(l) # p) =>
            CardIds(l)' = CardIds(l) /\ CardRows(l)' = CardRows(l)
  BY <1>9, <1>10, <1>11, Removed
<1>14. \A l \in Tracked \ {k} : ListKept(l)
  <2>1. ASSUME NEW l \in Tracked \ {k} PROVE CardIds(l)' = CardIds(l) /\ CardRows(l)' = CardRows(l)
    <3>1. \A m \in gone : m \notin Cards(l)
      BY <1>12 DEF Cards
    <3>. QED
      BY <1>13, <3>1
  <2>. QED
    BY <1>10, <2>1 DEF ListKept
<1>15. \A q \in People : chat'[q] \subseteq chat[q]
  BY <1>9, <1>11 DEF Types
<1>16. k \notin spoilt => CardIds(k)' = {}
  <2>. SUFFICES ASSUME k \notin spoilt, NEW m \in Cards(k)' PROVE FALSE
    BY DEF CardIds
  <2>1. Settled(k)
    <3>1. IsBusy(run[r]) /\ run[r].at \notin Loose /\ run[r].list = k
      BY <1>1, <1>2, <1>3 DEF IsBusy, Loose
    <3>. QED
      BY <1>11, <3>1, BusyRests
  <2>2. CardIds(k) = x.ids
    BY <1>2, <1>3, <2>1 DEF Settled, Renders
  <2>3. m \in chat'[p] /\ m \in chat[p] /\ m.kind = "card" /\ m.list = k
    BY <1>4, <1>15 DEF Cards
  <2>4. m.id \in x.ids
    BY <1>4, <2>2, <2>3 DEF CardIds, Cards
  <2>5. m \notin gone
    BY <1>9, <1>11, <2>3 DEF Types
  <2>6. m.id = x.src
    BY <1>5, <2>3, <2>4, <2>5
  <2>7. m.id # 0
    BY <1>11, <2>3 DEF Types, Messages
  <2>. QED
    BY <1>2, <1>3, <1>4, <2>3, <2>6, <2>7 DEF OwnRun, Pressable
<1>17. OwnRun(y)
  BY <1>2, <1>8 DEF OwnRun
<1>18. ControlOf(y)
  BY <1>2, <1>8 DEF ControlOf, Early, Late
<1>19. ReadingOf(y)
  <2>1. Honest(x) /\ Told(x)
    BY <1>2, <1>3 DEF ReadingOf, Late
  <2>2. Honest(y) /\ Told(y)
    BY <1>8, <2>1 DEF Honest, Told, Exists, Filled
  <2>. QED
    BY <1>8, <2>2 DEF ReadingOf
<1>20. Types' /\ Dated' /\ Ids' /\ Control' /\ Readings' /\ Headers'
  <2>1. DataOwn' /\ OwnRun(y)'
    BY <1>7, <1>10, <1>11, <1>13, <1>17, DataSame, OwnKept
  <2>2. run' = [run EXCEPT ![r] = y]
    BY <1>9
  <2>3. /\ next' \in [People -> Nat \ {0}] /\ data' \in [People -> DataRecords]
        /\ shown' \in [Tracked -> Seq(Orders)] /\ walk' \in [Tracked -> WalkRecords]
        /\ spoilt' \in SUBSET Tracked
    BY <1>10, <1>11 DEF Types
  <2>4. \A q \in People : \A m \in chat'[q] : m \in chat[q]
    BY <1>15
  <2>5. UNCHANGED <<status, placed, today>>
    BY <1>10
  <2>. QED
    BY <1>7, <1>13, <1>18, <1>19, <2>1, <2>2, <2>3, <2>4, <2>5, RunStep
<1>21. Walks'
  BY <1>10, WalksSame DEF IInv
<1>22. Alone' /\ Cardlists'
  <2>1. IsBusy(run[r]) /\ run[r].list = k /\ y.at \in Loose /\ y.list = k
    BY <1>1, <1>2, <1>3, <1>8 DEF IsBusy, Loose
  <2>2. k \notin spoilt' => Renders(y)'
    BY <1>3, <1>8, <1>10, <1>16 DEF Renders
  <2>3. \A l \in Tracked : Knows(y, l)'
    BY <1>8, <1>10, KnowsRead
  <2>4. run' = [run EXCEPT ![r] = y] /\ spoilt \subseteq spoilt'
    BY <1>9, <1>10
  <2>. QED
    BY <1>7, <1>11, <1>14, <2>1, <2>2, <2>3, <2>4, BusyStep
<1>. QED
  BY <1>13, <1>20, <1>21, <1>22 DEF IInv

LEMMA SendFailsKeeps ==
  ASSUME IInv, NEW r \in Runs, SendFails(r)
  PROVE  IInv'
<1>1. PICK y \in RunRecords : y = NoRun
  BY NoRunType
<1>2. /\ run' = [run EXCEPT ![r] = y] /\ spoilt' = spoilt \cup ({run[r].list} \cap Tracked)
      /\ UNCHANGED <<db, data, chat, next, presses, shown, walk>>
  BY <1>1 DEF SendFails
<1>3. run' = [run EXCEPT ![r] = y]
  BY <1>2
<1>4. UNCHANGED <<status, placed, today, data, chat, next, shown>> /\ UNCHANGED walk
  BY <1>2 DEF db
<1>5. Types /\ Alone /\ Cardlists
  BY DEF IInv
<1>6. /\ walk' \in [Tracked -> WalkRecords] /\ spoilt' \in SUBSET Tracked /\ spoilt \subseteq spoilt'
      /\ run[r].list \in Tracked => run[r].list \in spoilt'
  BY <1>2, <1>4, <1>5 DEF Types
<1>7. OwnRun(y) /\ ControlOf(y) /\ ReadingOf(y)
  BY <1>1, NoRunParts
<1>8. /\ Types' /\ Dated' /\ Chats' /\ Ids' /\ Control' /\ Readings' /\ Headers'
      /\ \A l \in Tracked : ListKept(l)
  BY <1>3, <1>4, <1>6, <1>7, SilentStep
<1>9. Walks'
  BY <1>4, WalksSame DEF IInv
<1>10. Alone' /\ Cardlists'
  <2>1. y.at \notin Loose \cup {"delete"} /\ \A l : Knows(y, l)'
    BY <1>1, NoRunParts
  <2>2. \A q : ~Beside(y, run[q])
    BY <1>1, NoRunParts DEF Beside
  <2>. QED
    BY <1>3, <1>5, <1>6, <1>8, <2>1, <2>2, QuietStep
<1>. QED
  BY <1>8, <1>9, <1>10 DEF IInv

LEMMA SendHeaderKeeps ==
  ASSUME IInv, NEW r \in Runs, SendHeader(r)
  PROVE  IInv'
<1>1. PICK x \in RunRecords : x = run[r]
  BY DEF IInv, Types
<1>2. /\ OwnRun(x) /\ ControlOf(x) /\ ReadingOf(x) /\ x.at = "head"
      /\ data[Person(x.list)] \in DataRecords /\ Person(x.list) \in People
      /\ \A l \in Tracked : Own(Person(x.list), l, data[Person(x.list)].ids[l])
      /\ \A l \in Tracked \ spoilt : x.list = l => Renders(x)
  BY <1>1, RunParts DEF SendHeader
<1>3. PICK k \in Tracked : k = x.list
  BY <1>2 DEF ControlOf, Late
<1>4. PICK p \in People : p = Person(k)
  BY <1>2, <1>3
<1>5. Types /\ Control /\ Alone /\ Cardlists /\ Chats /\ Ids
  BY DEF IInv
<1>6. Honest(x) /\ Told(x) /\ x.sent = {}
  BY <1>2, <1>3 DEF ReadingOf, Late, ControlOf
<1>7. PICK id \in Nat \ {0} : id = IF x.src = 0 THEN next[p] ELSE x.src
  BY <1>5 DEF Types, RunRecords
<1>8. PICK new : new = Header(r, id)
  OBVIOUS
<1>9. /\ new \in Messages /\ new.id = id /\ new.kind = "header" /\ new.list = x.list
      /\ new.page = x.page /\ new.total = x.total /\ new.rows = x.rows /\ new.report = x.report
      /\ new.day = x.day /\ new.clean = x.clean
  <2>1. PICK flag \in {"plain", "filter"} :
          new = [Message(id, "header", x) EXCEPT !.flag = flag]
    BY <1>1, <1>8 DEF Header
  <2>2. x.page \in Nat \ {0}
    <3>1. TotalPages(x.total, PageSize) \in Nat /\ x.page \in 1..TotalPages(x.total, PageSize)
      BY <1>6, BoundsAssumption, PagesCount DEF Honest, Exists, RunRecords
    <3>. QED
      BY <3>1
  <2>3. [Message(id, "header", x) EXCEPT !.flag = flag] \in Messages
    BY <2>2, MessageType
  <2>. QED
    BY <2>1, <2>3 DEF Message
<1>10. /\ x.src # 0 => \E m \in With(p, x.src) : TRUE
       /\ chat' = [chat EXCEPT ![p] = {m \in @ : m.id # id} \cup {new}]
       /\ next' = [next EXCEPT ![p] = IF x.src = 0 THEN @ + 1 ELSE @]
       /\ run' = IF x.rows = <<>> THEN GoReading(r, "keep") ELSE Go(r, "cards")
       /\ UNCHANGED <<db, data, presses, ghosts>>
  <2>1. /\ x.src # 0 => \E m \in With(Person(x.list), x.src) : TRUE
        /\ chat' = [chat EXCEPT ![Person(x.list)] = {m \in chat[Person(x.list)] : m.id #
                        Header(r, IF x.src = 0 THEN next[Person(x.list)] ELSE x.src).id}
                      \cup {Header(r, IF x.src = 0 THEN next[Person(x.list)] ELSE x.src)}]
        /\ next' = [next EXCEPT ![Person(x.list)] = IF x.src = 0 THEN @ + 1 ELSE @]
        /\ run' = IF x.rows = <<>> THEN GoReading(r, "keep") ELSE Go(r, "cards")
        /\ UNCHANGED <<db, data, presses, ghosts>>
    BY <1>1 DEF SendHeader
  <2>. QED
    BY <1>3, <1>4, <1>7, <1>8, <1>9, <2>1, ZenonT(60)
<1>11. /\ UNCHANGED <<status, placed, today>> /\ UNCHANGED <<data, shown, walk, spoilt>>
  BY <1>10 DEF db, ghosts
<1>12. PICK y : y = IF x.rows = <<>> THEN [x EXCEPT !.at = "keep", !.mem = data[Person(x.list)]]
                    ELSE [x EXCEPT !.at = "cards"]
  OBVIOUS
<1>13. y \in RunRecords
  BY <1>2, <1>12 DEF RunRecords, Late
<1>14. /\ y.at = (IF x.rows = <<>> THEN "keep" ELSE "cards") /\ y.list = x.list /\ y.page = x.page
       /\ y.total = x.total /\ y.clean = x.clean /\ y.day = x.day /\ y.rows = x.rows
       /\ y.report = x.report /\ y.sent = x.sent /\ y.ids = x.ids /\ y.src = x.src
       /\ y.mem = IF x.rows = <<>> THEN data[Person(x.list)] ELSE x.mem
  BY <1>12 DEF RunRecords
<1>15. run' = [run EXCEPT ![r] = y]
  <2>1. GoReading(r, "keep") = [run EXCEPT ![r] = [x EXCEPT !.at = "keep", !.mem = data[Person(x.list)]]]
    BY <1>1, <1>5 DEF GoReading, Types
  <2>2. Go(r, "cards") = [run EXCEPT ![r] = [x EXCEPT !.at = "cards"]]
    BY <1>1, <1>5 DEF Go, Types
  <2>. QED
    BY <1>10, <1>12, <2>1, <2>2
<1>16. Fits(p, new)
  BY <1>3, <1>4, <1>9 DEF Fits
<1>17. /\ chat' \in [People -> SUBSET Messages] /\ next' \in [People -> Nat \ {0}]
       /\ Chats' /\ Steady /\ CardsKept
       /\ \A q \in People : \A m \in chat'[q] : m \in chat[q] \/ m = new
  <2>1. \A m \in chat[p] : m.id < next[p] /\ m \in Messages /\ m.id \in Nat
    BY <1>5 DEF Chats, Types, Messages
  <2>2. CASE x.src = 0
    <3>1. {m \in chat[p] : m.id # id} = chat[p]
      BY <1>5, <1>7, <2>1, <2>2 DEF Types
    <3>2. chat' = [chat EXCEPT ![p] = @ \cup {new}] /\ next' = [next EXCEPT ![p] = @ + 1]
      BY <1>10, <2>2, <3>1
    <3>3. new.id = next[p]
      BY <1>7, <1>9, <2>2
    <3>4. /\ chat' \in [People -> SUBSET Messages] /\ next' \in [People -> Nat \ {0}]
          /\ Chats' /\ Steady
          /\ \A l \in Tracked : CardIds(l)' = CardIds(l) /\ CardRows(l)' = CardRows(l)
      BY <1>5, <1>9, <1>16, <3>2, <3>3, Added
    <3>5. \A q \in People : \A m \in chat'[q] : m \in chat[q] \/ m = new
      BY <1>5, <3>2 DEF Types
    <3>. QED
      BY <3>4, <3>5 DEF CardsKept
  <2>3. CASE x.src # 0
    <3>1. PICK m \in chat[p] : m.id = id
      BY <1>7, <1>10, <2>3 DEF With
    <3>2. m.kind # "card"
      BY <1>2, <1>3, <1>4, <1>7, <2>3, <3>1 DEF OwnRun, Pressable
    <3>3. {n \in chat[p] : n.id # id} = chat[p] \ {m}
      BY <1>5, <3>1 DEF Chats
    <3>4. chat' = [chat EXCEPT ![p] = (@ \ {m}) \cup {new}] /\ next' = next
      BY <1>5, <1>10, <2>3, <3>3 DEF Types
    <3>5. chat' \in [People -> SUBSET Messages] /\ Chats' /\ Steady /\ CardsKept
      BY <1>5, <1>9, <1>16, <3>1, <3>2, <3>4, Edited
    <3>6. \A q \in People : \A n \in chat'[q] : n \in chat[q] \/ n = new
      BY <1>5, <3>4 DEF Types
    <3>. QED
      BY <1>5, <3>4, <3>5, <3>6 DEF Types
  <2>. QED
    BY <2>2, <2>3
<1>18. OwnRun(y)
  BY <1>2, <1>14 DEF OwnRun
<1>19. ControlOf(y)
  <2>1. x.rows \in Seq(Orders) /\ Len(x.rows) \in Nat
    BY LenProperties DEF RunRecords
  <2>2. Cardinality(y.sent) = 0 /\ (x.rows = <<>> => Len(x.rows) = 0) /\ (x.rows # <<>> => 0 < Len(x.rows))
    BY <1>6, <1>14, <2>1, FS_EmptySet, EmptySeq
  <2>. QED
    BY <1>2, <1>3, <1>14, <2>2 DEF ControlOf, Early, Late
<1>20. ReadingOf(y)
  <2>1. Honest(y) /\ Told(y)
    BY <1>6, <1>14 DEF Honest, Told, Exists, Filled
  <2>. QED
    BY <1>14, <2>1 DEF ReadingOf
<1>21. Types' /\ Dated' /\ Ids' /\ Control' /\ Readings' /\ Headers'
  <2>1. DataOwn' /\ OwnRun(y)'
    BY <1>5, <1>11, <1>13, <1>17, <1>18, DataSame, OwnKept
  <2>2. /\ data' \in [People -> DataRecords]
        /\ shown' \in [Tracked -> Seq(Orders)] /\ walk' \in [Tracked -> WalkRecords]
        /\ spoilt' \in SUBSET Tracked
    BY <1>5, <1>11 DEF Types
  <2>3. \A q \in People : \A m \in chat'[q] :
          m \in chat[q] \/ ((m.kind = "header" => Honest(m)) /\ (m.kind = "card" => Told(m)))
    <3>1. Honest(new) /\ new.kind # "card"
      BY <1>6, <1>9 DEF Honest, Exists, Filled
    <3>. QED
      BY <1>17, <3>1
  <2>4. UNCHANGED <<status, placed, today>>
    BY <1>11
  <2>. QED
    BY <1>13, <1>15, <1>17, <1>19, <1>20, <2>1, <2>2, <2>3, <2>4, RunStep
<1>22. Walks'
  BY <1>11, WalksSame DEF IInv
<1>23. Alone' /\ Cardlists'
  <2>1. IsBusy(run[r]) /\ run[r].list = k /\ y.at \in Loose /\ y.list = k
    BY <1>1, <1>2, <1>3, <1>14 DEF IsBusy, Loose
  <2>2. k \notin spoilt' => Renders(y)'
    <3>. SUFFICES ASSUME k \notin spoilt PROVE Renders(y)'
      BY <1>11
    <3>1. CardIds(k) = {}
      BY <1>2, <1>3 DEF Renders
    <3>2. CardRows(k) = {}
      BY <3>1 DEF CardIds, CardRows
    <3>3. CardIds(k)' = {} /\ CardRows(k)' = {}
      BY <1>17, <3>1, <3>2 DEF CardsKept
    <3>4. Cardinality({}) = 0
      BY FS_EmptySet
    <3>. QED
      BY <1>3, <1>6, <1>14, <3>3, <3>4 DEF Renders
  <2>3. \A l \in Tracked : Knows(y, l)'
    <3>1. y.at \in Holding => y.mem = data[Person(y.list)]
      BY <1>14 DEF Holding
    <3>. QED
      BY <1>11, <3>1, KnowsRead
  <2>4. run' = [run EXCEPT ![r] = y] /\ spoilt \subseteq spoilt'
    BY <1>11, <1>15
  <2>5. \A l \in Tracked : ListKept(l)
    BY <1>11, <1>17 DEF ListKept, CardsKept
  <2>. QED
    BY <1>5, <1>13, <2>1, <2>2, <2>3, <2>4, <2>5, BusyStep
<1>. QED
  BY <1>17, <1>21, <1>22, <1>23 DEF IInv
LEMMA SendCardKeeps ==
  ASSUME IInv, NEW r \in Runs, SendCard(r)
  PROVE  IInv'
<1>1. PICK x \in RunRecords : x = run[r]
  BY DEF IInv, Types
<1>2. /\ OwnRun(x) /\ ControlOf(x) /\ ReadingOf(x) /\ x.at = "cards"
      /\ data[Person(x.list)] \in DataRecords /\ Person(x.list) \in People /\ x.list \in Lists
      /\ \A l \in Tracked : Own(Person(x.list), l, data[Person(x.list)].ids[l])
      /\ \A l \in Tracked \ spoilt : x.list = l => Renders(x)
  BY <1>1, RunParts DEF SendCard
<1>3. PICK p \in People : p = Person(x.list)
  BY <1>2
<1>4. Types /\ Control /\ Alone /\ Cardlists /\ Chats /\ Ids
  BY DEF IInv
<1>5. PICK id \in Nat \ {0} : id = next[p]
  BY <1>4 DEF Types
<1>6. PICK n \in Nat \ {0} : n = Cardinality(x.sent) + 1 /\ Cardinality(x.sent) = n - 1
  BY <1>2, FS_CardinalityType DEF OwnRun
<1>7. PICK len \in Nat : len = Len(x.rows) /\ n <= len
  <2>1. PICK len \in Nat : len = Len(x.rows)
    BY LenProperties DEF RunRecords
  <2>2. Cardinality(x.sent) < Len(x.rows)
    BY <1>2 DEF ControlOf
  <2>. QED
    BY <1>6, <2>1, <2>2
<1>8. PICK o \in Orders : o = x.rows[n] /\ o \in ToSet(x.rows)
  BY <1>6, <1>7, LenProperties, ElementOfSeq DEF RunRecords, ToSet
<1>9. PICK c : c = Card(id, x.list, o)
  OBVIOUS
<1>10. /\ c \in Messages /\ c.id = id /\ c.kind = "card" /\ c.list = x.list /\ c.rows = <<o>>
       /\ Fits(p, c)
  <2>1. c \in Messages /\ c.id = id /\ c.kind = "card" /\ c.list = x.list /\ c.rows = <<o>>
    BY <1>2, <1>9, CardType
  <2>2. Len(<<o>>) = 1
    OBVIOUS
  <2>. QED
    BY <2>1, <2>2 DEF Fits
<1>11. PICK sent \in SUBSET Nat : sent = x.sent \cup {id}
  BY DEF RunRecords
<1>12. PICK y : y = IF n < len THEN [x EXCEPT !.sent = sent]
                    ELSE IF x.list = "orders" THEN NoRun
                    ELSE [x EXCEPT !.sent = sent, !.at = "keep", !.mem = data[p]]
  OBVIOUS
<1>13. y \in RunRecords
  <2>1. [x EXCEPT !.sent = sent] \in RunRecords
    BY DEF RunRecords
  <2>2. [x EXCEPT !.sent = sent, !.at = "keep", !.mem = data[p]] \in RunRecords
    BY <1>2, <1>3 DEF RunRecords, Late
  <2>. QED
    BY <1>12, <2>1, <2>2, NoRunType
<1>14. \/ y = NoRun /\ x.list = "orders"
       \/ /\ y.at = (IF n < len THEN "cards" ELSE "keep") /\ (n = len => x.list # "orders")
          /\ y.list = x.list /\ y.page = x.page
          /\ y.total = x.total /\ y.clean = x.clean /\ y.day = x.day /\ y.rows = x.rows
          /\ y.report = x.report /\ y.sent = sent /\ y.ids = x.ids /\ y.src = x.src
          /\ y.mem = IF n < len THEN x.mem ELSE data[Person(x.list)]
  BY <1>2, <1>3, <1>7, <1>12 DEF RunRecords
<1>15. /\ chat' = [chat EXCEPT ![p] = @ \cup {c}] /\ next' = [next EXCEPT ![p] = @ + 1]
       /\ run' = [run EXCEPT ![r] = y]
       /\ UNCHANGED <<db, data, presses, ghosts>>
  <2>1. /\ chat' = [chat EXCEPT ![Person(run[r].list)] = @ \cup
                      {Card(next[Person(run[r].list)], run[r].list,
                            run[r].rows[Cardinality(run[r].sent) + 1])}]
        /\ next' = [next EXCEPT ![Person(run[r].list)] = @ + 1]
        /\ run' = CASE Cardinality(run[r].sent) + 1 < Len(run[r].rows) ->
                         [run EXCEPT ![r].sent = @ \cup {next[Person(run[r].list)]}]
                    [] Cardinality(run[r].sent) + 1 >= Len(run[r].rows) /\ run[r].list = "orders" ->
                         [run EXCEPT ![r] = NoRun]
                    [] OTHER -> [[run EXCEPT ![r].sent = @ \cup {next[Person(run[r].list)]}]
                                   EXCEPT ![r].at = "keep", ![r].mem = data[Person(run[r].list)]]
        /\ UNCHANGED <<db, data, presses, ghosts>>
    BY DEF SendCard
  <2>2. /\ chat' = [chat EXCEPT ![p] = @ \cup {c}] /\ next' = [next EXCEPT ![p] = @ + 1]
        /\ UNCHANGED <<db, data, presses, ghosts>>
    BY <1>1, <1>3, <1>5, <1>6, <1>8, <1>9, <2>1
  <2>3. run' = CASE n < len -> [run EXCEPT ![r].sent = @ \cup {id}]
                 [] n >= len /\ x.list = "orders" -> [run EXCEPT ![r] = NoRun]
                 [] OTHER -> [[run EXCEPT ![r].sent = @ \cup {id}]
                                EXCEPT ![r].at = "keep", ![r].mem = data[p]]
    BY <1>1, <1>3, <1>5, <1>6, <1>7, <2>1
  <2>4. [run EXCEPT ![r].sent = @ \cup {id}] = [run EXCEPT ![r] = [x EXCEPT !.sent = sent]]
    BY <1>1, <1>4, <1>11 DEF Types
  <2>5. [[run EXCEPT ![r].sent = @ \cup {id}] EXCEPT ![r].at = "keep", ![r].mem = data[p]]
          = [run EXCEPT ![r] = [x EXCEPT !.sent = sent, !.at = "keep", !.mem = data[p]]]
    <3>1. run \in [Runs -> RunRecords]
      BY <1>4 DEF Types
    <3>. QED
      BY <1>1, <1>11, <3>1 DEF RunRecords
  <2>6. CASE n < len
    BY <1>12, <2>2, <2>3, <2>4, <2>6
  <2>7. CASE ~(n < len) /\ x.list = "orders"
    BY <1>12, <2>2, <2>3, <2>7
  <2>8. CASE ~(n < len) /\ x.list # "orders"
    BY <1>12, <2>2, <2>3, <2>5, <2>8
  <2>. QED
    BY <2>2, <2>6, <2>7, <2>8
<1>16. UNCHANGED <<status, placed, today>> /\ UNCHANGED <<data, shown, walk, spoilt>>
  BY <1>15 DEF db, ghosts
<1>17. /\ chat' \in [People -> SUBSET Messages] /\ next' \in [People -> Nat \ {0}]
       /\ Chats' /\ Steady
       /\ \A l \in Tracked :
            IF c.kind = "card" /\ c.list = l /\ Person(l) = p
            THEN CardIds(l)' = CardIds(l) \cup {c.id} /\ CardRows(l)' = CardRows(l) \cup {c.rows[1]}
            ELSE CardIds(l)' = CardIds(l) /\ CardRows(l)' = CardRows(l)
  <2>1. chat' = [chat EXCEPT ![p] = @ \cup {c}] /\ next' = [next EXCEPT ![p] = @ + 1]
    BY <1>15
  <2>2. c.id = next[p]
    BY <1>5, <1>10
  <2>. QED
    BY <1>4, <1>10, <2>1, <2>2, Added
<1>18. /\ x.sent \subseteq 1..id - 1 /\ IsFiniteSet(x.sent)
       /\ IsFiniteSet(sent) /\ Cardinality(sent) = n
  <2>1. x.sent \subseteq 1..id - 1 /\ IsFiniteSet(x.sent)
    BY <1>2, <1>3, <1>5 DEF OwnRun, Own
  <2>2. id \notin x.sent
    BY <2>1
  <2>. QED
    BY <1>6, <1>11, <2>1, <2>2, FS_AddElement
<1>19. DataOwn'
  BY <1>4, <1>16, <1>17, DataSame
<1>20. OwnRun(y)'
  <2>1. CASE y = NoRun
    BY <2>1, NoRunOwn
  <2>2. CASE y # NoRun
    <3>1. /\ y.list = x.list /\ y.sent = sent /\ y.ids = x.ids /\ y.src = x.src
          /\ y.mem = IF n < len THEN x.mem ELSE data[Person(x.list)]
      BY <1>14, <2>2
    <3>2. OwnRun(x)'
      BY <1>2, <1>4, <1>17, OwnKept
    <3>3. \A l \in Tracked : Own(p, l, y.mem.ids[l])'
      <4>1. CASE n < len
        BY <1>3, <3>1, <3>2, <4>1 DEF OwnRun
      <4>2. CASE ~(n < len)
        <5>1. y.mem = data'[p]
          BY <1>3, <1>16, <3>1, <4>2
        <5>. QED
          BY <1>19, <5>1 DEF DataOwn, Own
      <4>. QED
        BY <4>1, <4>2
    <3>4. Own(p, x.list, sent)'
      <4>1. Own(p, x.list, x.sent)'
        BY <1>3, <3>2 DEF OwnRun
      <4>2. next'[p] = id + 1 /\ chat'[p] = chat[p] \cup {c}
        BY <1>4, <1>5, <1>15 DEF Types
      <4>3. sent \subseteq 1..next'[p] - 1
        BY <1>11, <1>18, <4>2
      <4>4. ASSUME NEW m \in chat'[p], m.id \in sent PROVE m.kind = "card" /\ m.list = x.list
        <5>1. CASE m.id \in x.sent
          BY <4>1, <5>1 DEF Own
        <5>2. CASE m.id = id
          <6>1. m = c
            BY <1>10, <1>17, <4>2, <5>2 DEF Chats
          <6>. QED
            BY <1>10, <6>1
        <5>. QED
          BY <1>11, <4>4, <5>1, <5>2
      <4>. QED
        BY <4>3, <4>4 DEF Own
    <3>. QED
      BY <1>3, <1>18, <3>1, <3>2, <3>3, <3>4 DEF OwnRun
  <2>. QED
    BY <2>1, <2>2
<1>21. ControlOf(y)
  <2>1. CASE y = NoRun
    BY <2>1, NoRunParts
  <2>2. CASE y # NoRun
    BY <1>2, <1>6, <1>7, <1>14, <1>18, <2>2 DEF ControlOf, Early, Late, Lists
  <2>. QED
    BY <2>1, <2>2
<1>22. ReadingOf(y)
  <2>1. CASE y = NoRun
    BY <2>1, NoRunParts
  <2>2. CASE y # NoRun
    <3>1. y.at \in {"cards", "keep"} /\ y.list = x.list /\ Told(x)
      BY <1>2, <1>14, <2>2 DEF ReadingOf
    <3>2. Told(y)
      BY <1>14, <2>2, <3>1 DEF Told
    <3>3. x.list \in Tracked => Honest(y)
      BY <1>2, <1>14, <2>2 DEF ReadingOf, Honest, Exists, Filled, Late
    <3>. QED
      BY <3>1, <3>2, <3>3 DEF ReadingOf
  <2>. QED
    BY <2>1, <2>2
<1>23. Types' /\ Dated' /\ Ids' /\ Control' /\ Readings' /\ Headers'
  <2>1. /\ data' \in [People -> DataRecords]
        /\ shown' \in [Tracked -> Seq(Orders)] /\ walk' \in [Tracked -> WalkRecords]
        /\ spoilt' \in SUBSET Tracked
    BY <1>4, <1>16 DEF Types
  <2>2. \A q \in People : \A m \in chat'[q] :
          m \in chat[q] \/ ((m.kind = "header" => Honest(m)) /\ (m.kind = "card" => Told(m)))
    <3>1. Told(x)
      BY <1>2 DEF ReadingOf
    <3>2. placed[o] # 0
      BY <1>8, <3>1 DEF Told
    <3>3. ToSet(c.rows) = {o}
      BY <1>10 DEF ToSet
    <3>4. Told(c) /\ c.kind # "header"
      BY <1>10, <3>2, <3>3 DEF Told
    <3>5. \A q \in People : \A m \in chat'[q] : m \in chat[q] \/ m = c
      BY <1>4, <1>15 DEF Types
    <3>. QED
      BY <3>4, <3>5
  <2>3. UNCHANGED <<status, placed, today>> /\ run' = [run EXCEPT ![r] = y]
    BY <1>15, <1>16
  <2>. QED
    BY <1>13, <1>17, <1>19, <1>20, <1>21, <1>22, <2>1, <2>2, <2>3, RunStep
<1>24. Walks'
  BY <1>16, WalksSame DEF IInv
<1>25. run' = [run EXCEPT ![r] = y] /\ spoilt \subseteq spoilt' /\ spoilt' = spoilt
  BY <1>15, <1>16
<1>26. \A l \in Tracked : l # x.list => ListKept(l)
  BY <1>10, <1>16, <1>17 DEF ListKept
<1>27. \A l \in Tracked : Knows(y, l)'
  <2>1. y.at \in Holding => y.mem = data[Person(y.list)]
    BY <1>14, NoRunParts DEF Holding
  <2>. QED
    BY <1>16, <2>1, KnowsRead
<1>28. IsBusy(run[r])
  BY <1>1, <1>2 DEF IsBusy
<1>29. Alone' /\ Cardlists'
  <2>1. CASE x.list \in Tracked
    <3>1. PICK k \in Tracked : k = x.list /\ Person(k) = p
      BY <1>3, <2>1
    <3>2. /\ y.at = (IF n < len THEN "cards" ELSE "keep") /\ y.list = k /\ y.rows = x.rows
          /\ y.sent = sent
      BY <1>14, <3>1 DEF Tracked
    <3>3. k \notin spoilt' => Renders(y)'
      <4>. SUFFICES ASSUME k \notin spoilt PROVE Renders(y)'
        BY <1>25
      <4>1. CardIds(k) = x.sent /\ CardRows(k) = {x.rows[i] : i \in 1..n - 1}
        BY <1>2, <1>6, <3>1 DEF Renders
      <4>2. CardIds(k)' = sent /\ CardRows(k)' = CardRows(k) \cup {o}
        BY <1>10, <1>11, <1>17, <3>1, <4>1
      <4>3. CardRows(k)' = {x.rows[i] : i \in 1..n}
        BY <1>8, <4>1, <4>2
      <4>. QED
        BY <1>18, <3>2, <4>2, <4>3 DEF Renders
    <3>4. run[r].list = k /\ y.at \in Loose
      BY <1>1, <3>1, <3>2 DEF Loose
    <3>5. \A l \in Tracked \ spoilt' : l # k => ListKept(l)
      BY <1>26, <3>1
    <3>. QED
      BY <1>4, <1>13, <1>25, <1>27, <1>28, <3>2, <3>3, <3>4, <3>5, BusyStep
  <2>2. CASE x.list \notin Tracked
    <3>1. \A l \in Tracked : ListKept(l)
      BY <1>26, <2>2
    <3>2. /\ y.list \in Tracked => y.at \notin Loose \cup {"delete"}
          /\ \A q : ~Beside(y, run[q])
      <4>1. CASE y = NoRun
        BY <4>1, NoRunParts DEF Beside
      <4>2. CASE y # NoRun
        BY <1>14, <2>2, <4>2 DEF Beside
      <4>. QED
        BY <4>1, <4>2
    <3>3. run[r].list \notin Tracked
      BY <1>1, <2>2
    <3>. QED
      BY <1>4, <1>13, <1>25, <1>27, <3>1, <3>2, <3>3, QuietStep
  <2>. QED
    BY <2>1, <2>2
<1>. QED
  BY <1>17, <1>23, <1>24, <1>29 DEF IInv

-----------------------------------------------------------------------------
(***************************************************************************)
(* Buttons that act at once, and the other dialogues.                      *)
(***************************************************************************)

\* A step that changes messages, none of them a card of a list, or the date.
LEMMA ChatStep ==
  ASSUME IInv, Steady, Chats', CardsKept,
         chat' \in [People -> SUBSET Messages], next' \in [People -> Nat \ {0}],
         \A p \in People : \A m \in chat'[p] :
           m \in chat[p] \/ ((m.kind = "header" => Honest(m)) /\ (m.kind = "card" => Told(m))),
         today' \in 1..MaxDay, today <= today',
         UNCHANGED <<status, placed, data, run, shown, walk, spoilt>>
  PROVE  IInv'
<1>1. Types /\ Dated /\ Ids /\ Control /\ Readings /\ Headers /\ Walks /\ Alone /\ Cardlists
  BY DEF IInv
<1>2. /\ UNCHANGED status /\ UNCHANGED placed /\ UNCHANGED data /\ UNCHANGED run
      /\ UNCHANGED shown /\ UNCHANGED walk /\ UNCHANGED spoilt
  OBVIOUS
<1>3. Types'
  BY <1>1, <1>2 DEF Types
<1>4. Dated'
  <2>1. today \in Int /\ today' \in Int /\ \A o \in Orders : placed[o] \in Int
    BY <1>1 DEF Types
  <2>. QED
    BY <1>1, <1>2, <2>1 DEF Dated
<1>5. Ids'
  <2>1. DataOwn'
    BY <1>1, <1>2, DataSame
  <2>2. \A r \in Runs : run'[r] \in RunRecords
    BY <1>1, <1>2 DEF Types
  <2>. QED
    BY <1>1, <1>2, <2>1, <2>2, IdsSame
<1>6. Control'
  BY <1>1, <1>2 DEF Control
<1>7. \A m : Honest(m)' = Honest(m) /\ Told(m)' = Told(m)
  BY <1>2 DEF Honest, Told
<1>8. Readings'
  <2>1. \A l, d : Members(l, d)' = Members(l, d)
    BY <1>2 DEF Members
  <2>. QED
    BY <1>1, <1>2, <1>7, <2>1 DEF Readings, ReadingOf
<1>9. Headers'
  BY <1>1, <1>2, <1>7, HeadersStep
<1>10. Walks'
  BY <1>1, <1>2, WalksSame
<1>11. Alone' /\ Cardlists'
  <2>1. \A l \in Tracked : ListKept(l)
    BY <1>2 DEF ListKept, CardsKept
  <2>2. \A r \in Runs : run'[r] \in RunRecords
    BY <1>1, <1>2 DEF Types
  <2>3. \A q \in Runs : run'[q] = run[q]
    BY <1>2
  <2>. QED
    BY <1>1, <1>2, <2>1, <2>2, <2>3, OutsideStep
<1>. QED
  BY <1>3, <1>4, <1>5, <1>6, <1>8, <1>9, <1>10, <1>11 DEF IInv

LEMMA NextDayKeeps ==
  ASSUME IInv, NextDay
  PROVE  IInv'
<1>1. /\ today' = today + 1 /\ today < MaxDay /\ UNCHANGED <<chat, next>>
      /\ UNCHANGED <<status, placed, data, run, shown, walk, spoilt>>
  BY DEF NextDay, ghosts
<1>2. Types /\ Chats
  BY DEF IInv
<1>3. Chats' /\ Steady /\ CardsKept
  BY <1>1, <1>2, SameChat
<1>4. today' \in 1..MaxDay /\ today <= today'
  BY <1>1, <1>2, BoundsAssumption DEF Types
<1>5. /\ chat' \in [People -> SUBSET Messages] /\ next' \in [People -> Nat \ {0}]
      /\ \A p \in People : \A m \in chat'[p] : m \in chat[p]
  BY <1>1, <1>2 DEF Types
<1>6. UNCHANGED <<status, placed, data, run, shown, walk, spoilt>>
  BY <1>1
<1>. QED
  BY <1>3, <1>4, <1>5, <1>6, ChatStep

LEMMA EditParts ==
  ASSUME Types, NEW p, NEW new, Edit(p, new)
  PROVE  /\ chat' = [chat EXCEPT ![p] = new] /\ today' \in 1..MaxDay /\ today <= today'
         /\ UNCHANGED <<status, placed, data, run, shown, walk, spoilt>>
<1>1. today' = today
  BY DEF Edit, db
<1>. QED
  BY <1>1, BoundsAssumption DEF Edit, db, ghosts, Types

LEMMA OpenCalendarKeeps ==
  ASSUME IInv, OpenCalendar
  PROVE  IInv'
<1>1. Types /\ Chats /\ "staff" \in People
  BY DEF IInv, People
<1>2. PICK x \in RunRecords : x = [NoRun EXCEPT !.list = "report"] /\ x.page = 1
  <2>1. [NoRun EXCEPT !.list = "report"] \in RunRecords
    BY NoRunType DEF RunRecords, Lists, Tracked
  <2>2. [NoRun EXCEPT !.list = "report"].page = 1
    BY DEF NoRun
  <2>. QED
    BY <2>1, <2>2
<1>3. PICK id \in Nat \ {0} : id = next.staff
  BY <1>1 DEF Types
<1>4. PICK m \in Messages : m = Message(id, "calendar", x) /\ m.id = id /\ m.kind = "calendar"
  <2>1. Message(id, "calendar", x) \in Messages
    <3>1. x.page \in Nat \ {0}
      BY <1>2
    <3>. QED
      BY <3>1, MessageType
  <2>. QED
    BY <2>1 DEF Message
<1>5. Edit("staff", chat.staff \cup {m}) /\ next' = [next EXCEPT !["staff"] = @ + 1]
  BY <1>2, <1>3, <1>4 DEF OpenCalendar
<1>6. /\ chat' = [chat EXCEPT !["staff"] = @ \cup {m}] /\ today' \in 1..MaxDay /\ today <= today'
      /\ UNCHANGED <<status, placed, data, run, shown, walk, spoilt>>
  BY <1>1, <1>5, EditParts
<1>7. /\ chat' \in [People -> SUBSET Messages] /\ next' \in [People -> Nat \ {0}]
      /\ Chats' /\ Steady
      /\ \A l \in Tracked : CardIds(l)' = CardIds(l) /\ CardRows(l)' = CardRows(l)
  <2>1. chat' = [chat EXCEPT !["staff"] = @ \cup {m}]
    BY <1>6
  <2>2. m.id = next["staff"] /\ Fits("staff", m) /\ m.kind # "card"
    BY <1>3, <1>4 DEF Fits
  <2>3. next' = [next EXCEPT !["staff"] = @ + 1]
    BY <1>5
  <2>. QED
    BY <1>1, <2>1, <2>2, <2>3, Added
<1>8. \A p \in People : \A n \in chat'[p] :
        n \in chat[p] \/ ((n.kind = "header" => Honest(n)) /\ (n.kind = "card" => Told(n)))
  BY <1>1, <1>4, <1>6 DEF Types
<1>9. UNCHANGED <<status, placed, data, run, shown, walk, spoilt>> /\ CardsKept
  BY <1>6, <1>7 DEF CardsKept
<1>10. today' \in 1..MaxDay /\ today <= today'
  BY <1>6
<1>. QED
  BY <1>7, <1>8, <1>9, <1>10, ChatStep

LEMMA CloseMessageKeeps ==
  ASSUME IInv, CloseMessage
  PROVE  IInv'
<1>1. Types /\ Chats
  BY DEF IInv
<1>2. PICK p \in People : \E n \in chat[p] :
        n.kind = (IF p = "client" THEN "header" ELSE "calendar") /\ Edit(p, chat[p] \ {n})
  BY DEF CloseMessage
<1>3. PICK m \in chat[p] : m.kind # "card" /\ Edit(p, chat[p] \ {m})
  BY <1>2
<1>4. PICK gone : gone = {m}
  OBVIOUS
<1>5. chat' = [chat EXCEPT ![p] = {n \in @ : n \notin gone}] /\ next' = next
  <2>1. chat' = [chat EXCEPT ![p] = chat[p] \ {m}]
    BY <1>1, <1>3, EditParts
  <2>2. chat[p] \ {m} = {n \in chat[p] : n \notin gone}
    BY <1>4
  <2>. QED
    BY <2>1, <2>2 DEF CloseMessage
<1>6. /\ chat' \in [People -> SUBSET Messages] /\ Chats' /\ Steady
      /\ \A l \in Tracked : (\A n \in gone : n \in Cards(l) => Person(l) # p) =>
           CardIds(l)' = CardIds(l) /\ CardRows(l)' = CardRows(l)
  BY <1>1, <1>5, Removed
<1>7. CardsKept
  BY <1>3, <1>4, <1>6 DEF CardsKept, Cards
<1>8. \A q \in People : \A n \in chat'[q] : n \in chat[q]
  BY <1>1, <1>5 DEF Types
<1>9. UNCHANGED <<status, placed, data, run, shown, walk, spoilt>>
  BY <1>1, <1>3, EditParts
<1>10. today' \in 1..MaxDay /\ today <= today' /\ next' \in [People -> Nat \ {0}]
  BY <1>1, <1>3, <1>5, EditParts DEF Types
<1>. QED
  BY <1>6, <1>7, <1>8, <1>9, <1>10, ChatStep

\* A card's buttons change.
LEMMA CardEdited ==
  ASSUME IInv, NEW CONSTANT l \in Lists, NEW CONSTANT p \in People, p = Person(l),
         NEW CONSTANT c \in Cards(l), NEW flag \in {"plain", "asks", "closed"},
         chat' = [chat EXCEPT ![p] = (@ \ {c}) \cup {[c EXCEPT !.flag = flag]}], next' = next
  PROVE  /\ chat' \in [People -> SUBSET Messages] /\ Chats' /\ Steady /\ CardsKept
         /\ \A q \in People : \A n \in chat'[q] :
              n \in chat[q] \/ (n.kind = "card" /\ Told(n))
         /\ c.rows[1] \in Orders /\ placed[c.rows[1]] # 0
<1>1. Types /\ Chats /\ Headers
  BY DEF IInv
<1>2. c \in chat[p] /\ c.kind = "card" /\ c \in Messages /\ c.rows \in Seq(Orders) /\ Len(c.rows) = 1
  BY <1>1 DEF Cards, Types, Messages, Chats
<1>3. PICK new : new = [c EXCEPT !.flag = flag]
  OBVIOUS
<1>4. /\ new \in Messages /\ new.id = c.id /\ new.kind = "card" /\ new.list = c.list
      /\ new.rows = c.rows
  BY <1>2, <1>3 DEF Messages
<1>5. chat' = [chat EXCEPT ![p] = (@ \ {c}) \cup {new}]
  BY <1>3
<1>6. chat' \in [People -> SUBSET Messages] /\ Chats' /\ Steady /\ CardsKept
  <2>1. Fits(p, new)
    BY <1>2, <1>4 DEF Fits
  <2>2. c \in chat[p] /\ c.kind = "card"
    BY <1>2
  <2>. QED
    BY <1>1, <1>4, <1>5, <2>1, <2>2, Edited
<1>7. Told(new)
  BY <1>1, <1>2, <1>4 DEF Headers, Told
<1>8. \A q \in People : \A n \in chat'[q] : n \in chat[q] \/ n = new
  BY <1>1, <1>5 DEF Types
<1>9. c.rows[1] \in Orders /\ c.rows[1] \in ToSet(c.rows)
  BY <1>2, LenProperties, ElementOfSeq DEF ToSet
<1>10. placed[c.rows[1]] # 0
  BY <1>4, <1>7, <1>9 DEF Told
<1>. QED
  BY <1>4, <1>6, <1>7, <1>8, <1>9, <1>10

LEMMA ActiveCardKeeps ==
  ASSUME IInv, NEW CONSTANT c \in Cards("active"), NEW flag \in {"plain", "asks"},
         Edit("client", (chat.client \ {c}) \cup {[c EXCEPT !.flag = flag]}), next' = next
  PROVE  IInv'
<1>1. Types /\ "client" \in People /\ "active" \in Lists /\ "client" = Person("active")
  BY DEF IInv, People, Lists, Tracked, Person
<1>2. /\ chat' = [chat EXCEPT !["client"] = (@ \ {c}) \cup {[c EXCEPT !.flag = flag]}]
      /\ today' \in 1..MaxDay /\ today <= today'
      /\ UNCHANGED <<status, placed, data, run, shown, walk, spoilt>>
  BY <1>1, EditParts
<1>3. chat' = [chat EXCEPT !["client"] = (@ \ {c}) \cup {[c EXCEPT !.flag = flag]}]
  BY <1>2
<1>4. /\ chat' \in [People -> SUBSET Messages] /\ Chats' /\ Steady /\ CardsKept
      /\ \A q \in People : \A n \in chat'[q] :
           n \in chat[q] \/ (n.kind = "card" /\ Told(n))
  BY <1>1, <1>3, CardEdited
<1>5. UNCHANGED <<status, placed, data, run, shown, walk, spoilt>>
  BY <1>2
<1>6. today' \in 1..MaxDay /\ today <= today' /\ next' \in [People -> Nat \ {0}]
  BY <1>1, <1>2 DEF Types
<1>. QED
  BY <1>4, <1>5, <1>6, ChatStep

LEMMA AskToCancelKeeps ==
  ASSUME IInv, AskToCancel
  PROVE  IInv'
<1>1. PICK c \in Cards("active") :
        Edit("client", (chat.client \ {c}) \cup {[c EXCEPT !.flag = "asks"]})
  BY DEF AskToCancel
<1>. QED
  BY <1>1, ActiveCardKeeps DEF AskToCancel

LEMMA KeepOrderKeeps ==
  ASSUME IInv, KeepOrder
  PROVE  IInv'
<1>1. PICK c \in Cards("active") :
        Edit("client", (chat.client \ {c}) \cup {[c EXCEPT !.flag = "plain"]})
  BY DEF KeepOrder
<1>. QED
  BY <1>1, ActiveCardKeeps DEF KeepOrder

-----------------------------------------------------------------------------
(***************************************************************************)
(* Commits.                                                                *)
(***************************************************************************)

LEMMA CommitKeeps ==
  ASSUME IInv, NEW o \in Orders, NEW st \in {"active", "completed", "cancelled"}, SetStatus(o, st),
         placed' \in [Orders -> 0..MaxDay], placed'[o] \in 1..today,
         \A q \in Orders : placed[q] # 0 \/ q # o => placed'[q] = placed[q],
         Steady, Chats', CardsKept,
         chat' \in [People -> SUBSET Messages], next' \in [People -> Nat \ {0}],
         \A p \in People : \A m \in chat'[p] :
           m \in chat[p] \/ (m.kind # "header" /\ (m.kind = "card" => Told(m)'))
  PROVE  IInv'
<1>1. Types /\ Dated /\ Ids /\ Control /\ Readings /\ Headers /\ Walks /\ Alone /\ Cardlists
  BY DEF IInv
<1>2. /\ status' = [status EXCEPT ![o] = st]
      /\ walk' = [l \in Tracked |-> NoWalk]
      /\ today' = today /\ data' = data /\ shown' = shown /\ spoilt' = spoilt
  BY DEF SetStatus
<1>3. ASSUME NEW r \in Runs
      PROVE  \E x \in RunRecords, y \in RunRecords :
               /\ x = run[r] /\ y = run'[r]
               /\ x.at \in {"idle", "queued", "pick", "date", "default", "count", "page", "report"}
               /\ y = IF x.at \in {"page", "report"} THEN [x EXCEPT !.clean = FALSE] ELSE x
  <2>1. PICK x \in RunRecords : x = run[r]
    BY <1>1 DEF Types
  <2>2. /\ x.at \in {"idle", "queued", "pick", "date", "default", "count", "page", "report"}
        /\ run'[r] = IF x.at \in {"page", "report"} THEN [x EXCEPT !.clean = FALSE] ELSE x
    BY <2>1 DEF SetStatus
  <2>3. [x EXCEPT !.clean = FALSE] \in RunRecords
    BY DEF RunRecords
  <2>. QED
    BY <2>1, <2>2, <2>3
<1>4. run' \in [Runs -> RunRecords]
  <2>1. run' = [r \in Runs |-> IF run[r].at \in {"page", "report"}
                               THEN [run[r] EXCEPT !.clean = FALSE] ELSE run[r]]
    BY DEF SetStatus
  <2>2. \A r \in Runs : run'[r] \in RunRecords
    BY <1>3
  <2>. QED
    BY <2>1, <2>2
<1>5. \A r \in Runs :
        /\ run'[r].at = run[r].at /\ run'[r].list = run[r].list /\ run'[r].day = run[r].day
        /\ run'[r].mem = run[r].mem /\ run'[r].ids = run[r].ids /\ run'[r].src = run[r].src
        /\ run'[r].sent = run[r].sent /\ run'[r].rows = run[r].rows
        /\ run'[r].report = run[r].report
  <2>1. ASSUME NEW x \in RunRecords
        PROVE  LET y == [x EXCEPT !.clean = FALSE] IN
               /\ y.at = x.at /\ y.list = x.list /\ y.day = x.day /\ y.mem = x.mem /\ y.ids = x.ids
               /\ y.src = x.src /\ y.sent = x.sent /\ y.rows = x.rows /\ y.report = x.report
    BY DEF RunRecords
  <2>. TAKE r \in Runs
  <2>2. PICK x \in RunRecords, y \in RunRecords :
          /\ x = run[r] /\ y = run'[r]
          /\ y = [x EXCEPT !.clean = FALSE] \/ y = x
    BY <1>3
  <2>3. /\ y.at = x.at /\ y.list = x.list /\ y.day = x.day /\ y.mem = x.mem /\ y.ids = x.ids
        /\ y.src = x.src /\ y.sent = x.sent /\ y.rows = x.rows /\ y.report = x.report
    BY <2>1, <2>2, ZenonT(60)
  <2>. QED
    BY <2>2, <2>3
<1>6. NoWalk \in WalkRecords /\ \A l : WalkOf(l, NoWalk)'
  <2>1. <<>> \in Seq(Orders) /\ 0 \in 0..MaxDay
    BY BoundsAssumption
  <2>. QED
    BY <2>1 DEF NoWalk, WalkRecords, WalkOf
<1>7. Types'
  <2>1. status' \in [Orders -> Statuses]
    BY <1>1, <1>2 DEF Types, Statuses
  <2>2. walk' \in [Tracked -> WalkRecords]
    BY <1>2, <1>6
  <2>. QED
    BY <1>1, <1>2, <1>4, <2>1, <2>2 DEF Types
<1>8. Dated'
  <2>1. ASSUME NEW q \in Orders
        PROVE  placed'[q] \in 0..today' /\ (placed'[q] = 0 <=> status'[q] = "none")
    <3>1. CASE q = o
      BY <1>1, <1>2, <3>1 DEF Types
    <3>2. CASE q # o
      BY <1>1, <1>2, <3>2 DEF Types, Dated
    <3>. QED
      BY <3>1, <3>2
  <2>. QED
    BY <2>1 DEF Dated
<1>9. Ids'
  <2>1. DataOwn'
    BY <1>1, <1>2, DataSame
  <2>2. \A r \in Runs : run'[r] \in RunRecords
    BY <1>4
  <2>. QED
    BY <1>1, <1>5, <2>1, <2>2, IdsSame
<1>10. Control'
  <2>1. ASSUME NEW r \in Runs PROVE ControlOf(run[r])'
    <3>1. ControlOf(run[r])
      BY <1>1 DEF Control
    <3>. QED
      BY <1>5, <3>1 DEF ControlOf
  <2>. QED
    BY <2>1 DEF Control
<1>11. \A q \in Orders : placed[q] # 0 => placed'[q] = placed[q]
  OBVIOUS
<1>12. Readings'
  <2>1. ASSUME NEW r \in Runs PROVE ReadingOf(run[r])'
    <3>1. PICK x \in RunRecords, y \in RunRecords :
            /\ x = run[r] /\ y = run'[r]
            /\ x.at \in {"idle", "queued", "pick", "date", "default", "count", "page", "report"}
            /\ y = IF x.at \in {"page", "report"} THEN [x EXCEPT !.clean = FALSE] ELSE x
      BY <1>3
    <3>2. /\ y.at = x.at /\ y.list = x.list /\ y.page = x.page /\ y.total = x.total /\ y.day = x.day
          /\ y.rows = x.rows /\ y.report = x.report /\ (y.at \in {"page", "report"} => y.clean = FALSE)
      BY <3>1 DEF RunRecords
    <3>3. ReadingOf(x) /\ ControlOf(x) /\ x.rows \in Seq(Orders) /\ x.report \subseteq Orders
      BY <1>1, <3>1 DEF Readings, Control, RunRecords
    <3>4. Told(x) /\ Told(x)'
      BY <1>1, <1>11, <3>3, HonestKept DEF ReadingOf
    <3>5. Told(y)'
      BY <3>2, <3>4 DEF Told
    <3>6. \A q \in ToSet(x.rows) : placed'[q] = placed[q]
      <4>1. ToSet(x.rows) \subseteq Orders
        <5>1. DOMAIN x.rows = 1..Len(x.rows) /\ \A i \in 1..Len(x.rows) : x.rows[i] \in Orders
          BY <3>3, LenProperties, ElementOfSeq
        <5>. QED
          BY <5>1 DEF ToSet
      <4>. QED
        BY <1>11, <3>4, <4>1 DEF Told
    <3>7. y.at \in {"page", "report"} =>
            /\ Exists(y) /\ y.clean = FALSE /\ (y.at = "report" => y.report = {})
            /\ \A q \in ToSet(y.rows) : placed'[q] = y.day
      BY <3>2, <3>3, <3>6 DEF ReadingOf, Exists
    <3>8. y.at \notin Late
      BY <3>1, <3>2 DEF Late
    <3>9. ReadingOf(y)'
      BY <3>5, <3>7, <3>8 DEF ReadingOf, Exists
    <3>. QED
      BY <3>1, <3>9
  <2>. QED
    BY <2>1 DEF Readings
<1>13. Headers'
  BY <1>1, <1>11, HeadersStep
<1>14. Walks'
  BY <1>2, <1>6 DEF Walks
<1>15. Alone' /\ Cardlists'
  <2>1. spoilt \subseteq spoilt' /\ \A l \in Tracked : ListKept(l)
    BY <1>2 DEF ListKept, CardsKept
  <2>2. \A r \in Runs : run'[r] \in RunRecords
    BY <1>4
  <2>. QED
    BY <1>1, <1>5, <2>1, <2>2, OutsideStep
<1>. QED
  BY <1>7, <1>8, <1>9, <1>10, <1>12, <1>13, <1>14, <1>15 DEF IInv

LEMMA OrdersAreIds == \A o \in Orders : o \in Nat \ {0}
<1>1. Cardinality(Orders) \in Nat
  BY OrdersAssumption, FS_CardinalityType
<1>. QED
  BY <1>1, OrdersAssumption

LEMMA PlaceKeeps ==
  ASSUME IInv, Place
  PROVE  IInv'
<1>1. PICK o \in Orders :
        /\ status[o] = "none" /\ SetStatus(o, "active")
        /\ placed' = [placed EXCEPT ![o] = today]
        /\ chat' = [chat EXCEPT !.staff = @ \cup {Card(next.staff, "orders", o)}]
        /\ next' = [next EXCEPT !.staff = @ + 1]
  BY DEF Place
<1>2. Types /\ Dated /\ Chats /\ "staff" \in People /\ "orders" \in Lists
  BY DEF IInv, People, Lists
<1>3. PICK id \in Nat \ {0} : id = next.staff
  BY <1>2 DEF Types
<1>4. PICK c \in Messages : /\ c = Card(id, "orders", o) /\ c.id = id /\ c.kind = "card"
                            /\ c.list = "orders" /\ c.rows = <<o>>
  BY <1>2, CardType
<1>5. chat' = [chat EXCEPT !["staff"] = @ \cup {c}] /\ next' = [next EXCEPT !["staff"] = @ + 1]
  BY <1>1, <1>3, <1>4
<1>6. c.id = next["staff"] /\ Fits("staff", c)
  <2>1. Len(<<o>>) = 1
    OBVIOUS
  <2>. QED
    BY <1>3, <1>4, <2>1 DEF Fits
<1>7. /\ chat' \in [People -> SUBSET Messages] /\ next' \in [People -> Nat \ {0}]
      /\ Chats' /\ Steady
      /\ \A l \in Tracked :
           IF c.kind = "card" /\ c.list = l /\ Person(l) = "staff"
           THEN CardIds(l)' = CardIds(l) \cup {c.id} /\ CardRows(l)' = CardRows(l) \cup {c.rows[1]}
           ELSE CardIds(l)' = CardIds(l) /\ CardRows(l)' = CardRows(l)
  BY <1>2, <1>5, <1>6, Added
<1>8. CardsKept
  BY <1>4, <1>7 DEF CardsKept, Tracked
<1>9. /\ placed' \in [Orders -> 0..MaxDay] /\ placed'[o] \in 1..today
      /\ \A q \in Orders : placed[q] # 0 \/ q # o => placed'[q] = placed[q]
  BY <1>1, <1>2, BoundsAssumption DEF Types, Dated
<1>10. \A p \in People : \A m \in chat'[p] :
         m \in chat[p] \/ (m.kind # "header" /\ (m.kind = "card" => Told(m)'))
  <2>1. ToSet(c.rows) = {o}
    BY <1>4 DEF ToSet
  <2>2. placed'[o] # 0
    <3>1. today \in Nat
      BY <1>2, BoundsAssumption DEF Types
    <3>. QED
      BY <1>9, <3>1
  <2>3. c' = c
    OBVIOUS
  <2>4. Told(c)'
    BY <2>1, <2>2 DEF Told
  <2>5. ASSUME NEW p \in People, NEW m \in chat'[p] PROVE m \in chat[p] \/ m = c
    BY <1>2, <1>5 DEF Types
  <2>6. \A m : m = c => m.kind # "header" /\ (m.kind = "card" => Told(m)')
    BY <1>4, <2>4
  <2>. QED
    BY <2>5, <2>6
<1>. QED
  BY <1>1, <1>7, <1>8, <1>9, <1>10, CommitKeeps

\* The order of a card is settled or cancelled.
LEMMA CardCommitKeeps ==
  ASSUME IInv, NEW CONSTANT o \in Orders, placed[o] # 0, NEW st \in {"completed", "cancelled"},
         SetStatus(o, st), placed' = placed, next' = next,
         chat' \in [People -> SUBSET Messages], Chats', Steady, CardsKept,
         \A q \in People : \A n \in chat'[q] : n \in chat[q] \/ (n.kind = "card" /\ Told(n))
  PROVE  IInv'
<1>1. Types /\ Dated
  BY DEF IInv
<1>2. placed' \in [Orders -> 0..MaxDay] /\ placed'[o] \in 1..today
  BY <1>1 DEF Types, Dated
<1>3. next' \in [People -> Nat \ {0}]
  BY <1>1 DEF Types
<1>4. \A q \in People : \A n \in chat'[q] :
        n \in chat[q] \/ (n.kind # "header" /\ (n.kind = "card" => Told(n)'))
  BY DEF Told
<1>5. \A q \in Orders : placed[q] # 0 \/ q # o => placed'[q] = placed[q]
  OBVIOUS
<1>. QED
  BY <1>2, <1>3, <1>4, <1>5, CommitKeeps

LEMMA SettleKeeps ==
  ASSUME IInv, Settle
  PROVE  IInv'
<1>1. PICK c \in Cards("orders") : \E st \in {"completed", "cancelled"} :
        /\ SetStatus(c.rows[1], st)
        /\ chat' = [chat EXCEPT !.staff = (@ \ {c}) \cup {[c EXCEPT !.flag = "closed"]}]
  BY DEF Settle
<1>2. "staff" \in People /\ "orders" \in Lists /\ "staff" = Person("orders")
  BY DEF People, Lists, Person
<1>3. placed' = placed /\ next' = next
  BY DEF Settle
<1>4. chat' = [chat EXCEPT !["staff"] = (@ \ {c}) \cup {[c EXCEPT !.flag = "closed"]}]
  BY <1>1
<1>5. next' = next
  BY <1>3
<1>6. /\ chat' \in [People -> SUBSET Messages] /\ Chats' /\ Steady /\ CardsKept
      /\ \A q \in People : \A n \in chat'[q] :
           n \in chat[q] \/ (n.kind = "card" /\ Told(n))
      /\ c.rows[1] \in Orders /\ placed[c.rows[1]] # 0
  BY <1>2, <1>4, <1>5, CardEdited
<1>7. PICK o \in Orders : o = c.rows[1]
  BY <1>6
<1>8. PICK st \in {"completed", "cancelled"} : SetStatus(o, st)
  BY <1>1, <1>7
<1>. QED
  BY <1>3, <1>6, <1>7, <1>8, CardCommitKeeps

LEMMA CancelOwnKeeps ==
  ASSUME IInv, CancelOwn
  PROVE  IInv'
<1>1. PICK c \in Cards("active") :
        /\ SetStatus(c.rows[1], "cancelled")
        /\ chat' = [chat EXCEPT !.client = (@ \ {c}) \cup {[c EXCEPT !.flag = "closed"]}]
  BY DEF CancelOwn
<1>2. "client" \in People /\ "active" \in Lists /\ "client" = Person("active")
  BY DEF People, Lists, Person, Tracked
<1>3. placed' = placed /\ next' = next
  BY DEF CancelOwn
<1>4. chat' = [chat EXCEPT !["client"] = (@ \ {c}) \cup {[c EXCEPT !.flag = "closed"]}]
  BY <1>1
<1>5. next' = next
  BY <1>3
<1>6. /\ chat' \in [People -> SUBSET Messages] /\ Chats' /\ Steady /\ CardsKept
      /\ \A q \in People : \A n \in chat'[q] :
           n \in chat[q] \/ (n.kind = "card" /\ Told(n))
      /\ c.rows[1] \in Orders /\ placed[c.rows[1]] # 0
  BY <1>2, <1>4, <1>5, CardEdited
<1>7. PICK o \in Orders : o = c.rows[1]
  BY <1>6
<1>8. SetStatus(o, "cancelled")
  BY <1>1, <1>7
<1>. QED
  BY <1>3, <1>6, <1>7, <1>8, CardCommitKeeps

LEMMA ClearDataKeeps ==
  ASSUME IInv, ClearData
  PROVE  IInv'
<1>1. PICK p \in People :
        /\ data' = [data EXCEPT ![p] = NoData]
        /\ spoilt' = spoilt \cup {l \in Tracked : Person(l) = p /\ data[p].ids[l] # {}}
  BY DEF ClearData
<1>2. UNCHANGED <<status, placed, today>> /\ UNCHANGED <<chat, next>> /\ UNCHANGED <<run, shown, walk>>
  BY DEF ClearData, db
<1>3. /\ Types /\ Dated /\ Chats /\ Ids /\ Control /\ Readings /\ Headers /\ Walks /\ Alone
      /\ Cardlists
  BY DEF IInv
<1>4. Chats' /\ Steady /\ CardsKept
  BY <1>2, <1>3, SameChat
<1>5. PICK d \in DataRecords : d = NoData /\ \A l \in Tracked : d.ids[l] = {}
  BY NoRunType DEF NoData
<1>6. data' \in [People -> DataRecords] /\ DataOwn'
  <2>1. \A l \in Tracked : Own(p, l, d.ids[l])
    BY <1>5 DEF Own
  <2>. QED
    BY <1>1, <1>3, <1>4, <1>5, <2>1, DataSet
<1>7. Types'
  BY <1>1, <1>2, <1>3, <1>6 DEF Types
<1>8. Ids'
  <2>1. \A r \in Runs : run'[r] \in RunRecords
    BY <1>7 DEF Types
  <2>2. \A r \in Runs : run'[r] = run[r]
    BY <1>2
  <2>. QED
    BY <1>3, <1>4, <1>6, <2>1, <2>2, IdsSame
<1>9. Dated' /\ Control'
  BY <1>2, <1>3 DEF Dated, Control
<1>10. Readings' /\ Headers'
  <2>1. /\ \A m : Honest(m)' = Honest(m) /\ Told(m)' = Told(m)
        /\ \A l, day : Members(l, day)' = Members(l, day)
    BY <1>2 DEF Honest, Told, Members
  <2>. QED
    BY <1>2, <1>3, <2>1 DEF Readings, ReadingOf, Headers
<1>11. Walks'
  BY <1>2, <1>3, WalksSame
<1>12. Alone' /\ Cardlists'
  <2>1. \A l \in Tracked \ spoilt' : ListKept(l)
    <3>1. ASSUME NEW l \in Tracked \ spoilt'
          PROVE  data'[Person(l)].ids[l] = data[Person(l)].ids[l]
      <4>1. Person(l) \in People /\ data \in [People -> DataRecords]
        BY <1>3, PersonType DEF Lists, Types
      <4>2. CASE Person(l) = p
        BY <1>1, <1>5, <4>1, <4>2
      <4>3. CASE Person(l) # p
        BY <1>1, <4>1, <4>3
      <4>. QED
        BY <4>2, <4>3
    <3>. QED
      BY <1>2, <1>4, <3>1 DEF ListKept, CardsKept
  <2>2. spoilt \subseteq spoilt'
    BY <1>1
  <2>3. \A r \in Runs : run'[r] \in RunRecords /\ run'[r] = run[r]
    BY <1>2, <1>7 DEF Types
  <2>. QED
    BY <1>3, <2>1, <2>2, <2>3, OutsideStep
<1>. QED
  BY <1>4, <1>7, <1>8, <1>9, <1>10, <1>11, <1>12 DEF IInv

-----------------------------------------------------------------------------
(***************************************************************************)
(* The inductive invariant.                                                *)
(***************************************************************************)

LEMMA InitHolds ==
  ASSUME Init
  PROVE  IInv
<1>1. PICK s \in Starts :
        /\ status = s.status
        /\ chat = [client |-> s.left, staff |-> {Card(o, "orders", o) : o \in Members("orders", 0)}]
        /\ next = [client |-> Cardinality(s.left) + 1, staff |-> Cardinality(Orders) + 1]
  BY DEF Init
<1>2. /\ placed = [o \in Orders |-> IF status[o] = "none" THEN 0 ELSE 1]
      /\ today = 1 /\ data = [p \in People |-> NoData] /\ run = [r \in Runs |-> NoRun]
      /\ shown = [l \in Tracked |-> <<>>] /\ walk = [l \in Tracked |-> NoWalk] /\ spoilt = {}
  BY DEF Init
<1>3. /\ status \in [Orders -> Statuses] /\ IsFiniteSet(s.left)
      /\ \A m, n \in s.left :
           /\ m \in Messages /\ m.id <= Cardinality(s.left) /\ (m.id = n.id => m = n)
           /\ m.kind = "header" /\ Person(m.list) = "client" /\ Exists(m) /\ Filled(m)
  BY <1>1, StartsAssumption
<1>4. Cardinality(s.left) \in Nat /\ Cardinality(Orders) \in Nat
  BY <1>3, OrdersAssumption, FS_CardinalityType
<1>5. People = {"client", "staff"} /\ "orders" \in Lists
  BY DEF People, Lists
<1>6. /\ chat.client = s.left /\ chat.staff = {Card(o, "orders", o) : o \in Members("orders", 0)}
      /\ next.client = Cardinality(s.left) + 1 /\ next.staff = Cardinality(Orders) + 1
  BY <1>1
<1>7. \A m \in chat.staff : \E o \in Members("orders", 0) :
        /\ o \in Orders /\ m = Card(o, "orders", o) /\ m \in Messages /\ m.id = o
        /\ m.kind = "card" /\ m.list = "orders" /\ m.rows = <<o>>
  <2>. TAKE m \in chat.staff
  <2>1. PICK o \in Members("orders", 0) : m = Card(o, "orders", o)
    BY <1>6
  <2>2. o \in Orders /\ o \in Nat \ {0}
    BY MembersType, OrdersAreIds
  <2>. QED
    BY <1>5, <2>1, <2>2, CardType
<1>8. 1 \in 1..MaxDay /\ 1 \in 0..MaxDay /\ 0 \in 0..MaxDay /\ 0 \in 0..1
  BY BoundsAssumption
<1>9. Types
  <2>1. chat \in [People -> SUBSET Messages]
    <3>1. chat.client \in SUBSET Messages
      BY <1>3, <1>6
    <3>2. chat.staff \in SUBSET Messages
      BY <1>7
    <3>. QED
      BY <1>1, <1>5, <3>1, <3>2
  <2>2. next \in [People -> Nat \ {0}]
    BY <1>1, <1>4, <1>5
  <2>3. placed \in [Orders -> 0..MaxDay]
    BY <1>2, <1>8
  <2>4. shown \in [Tracked -> Seq(Orders)]
    BY <1>2
  <2>5. walk \in [Tracked -> WalkRecords]
    <3>1. NoWalk \in WalkRecords
      BY <1>8 DEF NoWalk, WalkRecords
    <3>. QED
      BY <1>2, <3>1
  <2>6. run \in [Runs -> RunRecords] /\ data \in [People -> DataRecords]
    BY <1>2, NoRunType
  <2>. QED
    BY <1>2, <1>3, <1>8, <2>1, <2>2, <2>3, <2>4, <2>5, <2>6 DEF Types
<1>10. Dated
  BY <1>2, <1>8 DEF Dated
<1>11. Chats
  <2>1. ASSUME NEW m \in chat.client
        PROVE  /\ m.id < next.client /\ \A n \in chat.client : m.id = n.id => m = n
               /\ m.kind = "header" => m.list \in Tracked /\ Person(m.list) = "client"
               /\ m.kind = "card" => Len(m.rows) = 1
    <3>1. m \in Messages /\ m.kind = "header" /\ Person(m.list) = "client"
      BY <1>3, <1>6, <2>1
    <3>2. m.id <= Cardinality(s.left) /\ \A n \in s.left : m.id = n.id => m = n
      BY <1>3, <1>6, <2>1
    <3>3. m.id < next.client
      BY <1>4, <1>6, <3>1, <3>2 DEF Messages
    <3>4. m.list \in Tracked
      BY <3>1 DEF Person, Tracked
    <3>. QED
      BY <1>6, <3>1, <3>2, <3>3, <3>4
  <2>2. ASSUME NEW m \in chat.staff
        PROVE  /\ m.id < next.staff /\ \A n \in chat.staff : m.id = n.id => m = n
               /\ m.kind = "header" => m.list \in Tracked /\ Person(m.list) = "staff"
               /\ m.kind = "card" => Len(m.rows) = 1
    <3>1. PICK o \in Orders : m.id = o /\ m.kind = "card" /\ m.rows = <<o>>
      BY <1>7, <2>2
    <3>2. o < next.staff
      BY <1>4, <1>6, <3>1, OrdersAssumption
    <3>3. \A n \in chat.staff : n = Card(n.id, "orders", n.id)
      BY <1>7
    <3>4. \A n \in chat.staff : m.id = n.id => m = n
      BY <2>2, <3>3
    <3>5. Len(<<o>>) = 1
      OBVIOUS
    <3>. QED
      BY <3>1, <3>2, <3>4, <3>5
  <2>. QED
    BY <1>5, <2>1, <2>2 DEF Chats
<1>12. Ids
  <2>1. \A l \in Tracked : NoData.ids[l] = {}
    BY DEF NoData
  <2>2. DataOwn
    BY <1>2, <2>1 DEF DataOwn, Own
  <2>. QED
    BY <1>2, <2>2, NoRunParts DEF Ids
<1>13. Control /\ Readings
  BY <1>2, NoRunParts DEF Control, Readings
<1>14. Headers
  <2>1. ASSUME NEW m \in chat.client PROVE m.kind = "header" /\ Honest(m)
    <3>1. m.kind = "header" /\ Person(m.list) = "client" /\ Exists(m) /\ Filled(m)
      BY <1>3, <1>6, <2>1
    <3>2. m.list # "report"
      BY <3>1 DEF Person
    <3>. QED
      BY <3>1, <3>2 DEF Honest
  <2>2. ASSUME NEW m \in chat.staff PROVE m.kind = "card" /\ Told(m)
    <3>1. PICK o \in Members("orders", 0) : m.kind = "card" /\ m.rows = <<o>>
      BY <1>7, <2>2
    <3>2. placed[o] # 0
      BY <1>9, <1>10, MembersPlaced
    <3>3. ToSet(m.rows) = {o}
      BY <3>1 DEF ToSet
    <3>. QED
      BY <3>1, <3>2, <3>3 DEF Told
  <2>. QED
    BY <1>5, <2>1, <2>2 DEF Headers
<1>15. Walks
  BY <1>2 DEF Walks, WalkOf, NoWalk
<1>16. Alone
  BY <1>2, NoRunParts DEF Alone, Beside
<1>17. Cardlists
  <2>1. ASSUME NEW l \in Tracked
        PROVE  Cards(l) = {}
    <3>1. \A m \in chat.client : m.kind # "card"
      BY <1>3, <1>6
    <3>2. \A m \in chat.staff : m.list # l
      BY <1>7 DEF Tracked
    <3>3. Person(l) \in People
      BY PersonType DEF Lists
    <3>. QED
      BY <1>5, <3>1, <3>2, <3>3 DEF Cards
  <2>2. ASSUME NEW l \in Tracked PROVE Settled(l)
    <3>1. CardIds(l) = {} /\ CardRows(l) = {}
      BY <2>1 DEF CardIds, CardRows
    <3>2. data[Person(l)].ids[l] = {}
      <4>1. Person(l) \in People
        BY PersonType DEF Lists
      <4>. QED
        BY <1>2, <4>1 DEF NoData
    <3>3. shown[l] = <<>> /\ ToSet(<<>>) = {} /\ Len(<<>>) = 0
      BY <1>2 DEF ToSet
    <3>. QED
      BY <3>1, <3>2, <3>3, FS_EmptySet DEF Settled
  <2>3. ASSUME NEW l \in Tracked, NEW r \in Runs
        PROVE  Knows(run[r], l) /\ Renders(run[r])
    <3>1. run[r] = NoRun /\ NoRun.at = "idle"
      BY <1>2 DEF NoRun
    <3>. QED
      BY <3>1 DEF Knows, Renders, Holding
  <2>. QED
    BY <2>2, <2>3 DEF Cardlists
<1>. QED
  BY <1>9, <1>10, <1>11, <1>12, <1>13, <1>14, <1>15, <1>16, <1>17 DEF IInv

LEMMA StutterKeeps ==
  ASSUME IInv, UNCHANGED vars
  PROVE  IInv'
<1>1. /\ status' = status /\ placed' = placed /\ today' = today
      /\ data' = data /\ chat' = chat /\ next' = next /\ run' = run
      /\ shown' = shown /\ walk' = walk /\ spoilt' = spoilt
  BY DEF vars, db, ghosts
<1>2. \A p, l, ids : Own(p, l, ids)' = Own(p, l, ids)
  BY <1>1 DEF Own
<1>3. /\ \A l, day : Members(l, day)' = Members(l, day)
      /\ \A l : Cards(l)' = Cards(l)
      /\ \A m : Honest(m)' = Honest(m) /\ Told(m)' = Told(m)
  BY <1>1 DEF Members, Cards, Honest, Told
<1>4. Types' /\ Dated' /\ Chats'
  BY <1>1 DEF IInv, Types, Dated, Chats
<1>5. Ids' /\ Control'
  <2>1. DataOwn'
    BY <1>1, <1>2 DEF IInv, Ids, DataOwn
  <2>2. \A x : OwnRun(x)' = OwnRun(x)
    BY <1>1, <1>2 DEF OwnRun, Pressable
  <2>. QED
    BY <1>1, <2>1, <2>2 DEF IInv, Ids, Control
<1>6. Readings' /\ Headers'
  <2>1. \A x : ReadingOf(x)' = ReadingOf(x)
    BY <1>1, <1>3 DEF ReadingOf
  <2>. QED
    BY <1>1, <1>3, <2>1 DEF IInv, Readings, Headers
<1>7. Walks'
  BY <1>1, WalksSame DEF IInv
<1>8. Alone' /\ Cardlists'
  <2>1. Alone'
    BY <1>1 DEF IInv, Alone
  <2>2. \A l : Settled(l)' = Settled(l) /\ Resting(l)' = Resting(l)
    BY <1>1, <1>3 DEF Settled, CardIds, CardRows, Resting
  <2>3. \A x : Renders(x)' = Renders(x) /\ \A l : Knows(x, l)' = Knows(x, l)
    BY <1>1, <1>3 DEF Renders, Knows, CardIds, CardRows
  <2>. QED
    BY <1>1, <2>1, <2>2, <2>3 DEF IInv, Cardlists
<1>. QED
  BY <1>4, <1>5, <1>6, <1>7, <1>8 DEF IInv

LEMMA StepKeeps ==
  ASSUME IInv, NEW r \in Runs, Step(r)
  PROVE  IInv'
<1>1. CASE OpenList(r)
  BY <1>1, OpenListKeeps
<1>2. CASE TurnPage(r)
  BY <1>2, TurnPageKeeps
<1>3. CASE PickDay(r)
  BY <1>3, PickDayKeeps
<1>4. CASE ResetDay(r)
  BY <1>4, ResetDayKeeps
<1>5. CASE ReadOrders(r)
  BY <1>5, ReadOrdersKeeps
<1>6. CASE StoreNone(r)
  BY <1>6, StoreNoneKeeps
<1>7. CASE ReadActive(r)
  BY <1>7, ReadActiveKeeps
<1>8. CASE TakeDay(r)
  BY <1>8, TakeDayKeeps
<1>9. CASE StoreDay(r)
  BY <1>9, StoreDayKeeps
<1>10. CASE ReadDate(r)
  BY <1>10, ReadDateKeeps
<1>11. CASE CountOrders(r)
  BY <1>11, CountOrdersKeeps
<1>12. CASE ReadPage(r)
  BY <1>12, ReadPageKeeps
<1>13. CASE ReadReport(r)
  BY <1>13, ReadReportKeeps
<1>14. CASE ReadOld(r)
  BY <1>14, ReadOldKeeps
<1>15. CASE DeleteOld(r)
  BY <1>15, DeleteOldKeeps
<1>16. CASE ForgetOld(r)
  BY <1>16, ForgetOldKeeps
<1>17. CASE SendHeader(r)
  BY <1>17, SendHeaderKeeps
<1>18. CASE SendCard(r)
  BY <1>18, SendCardKeeps
<1>19. CASE KeepIds(r)
  BY <1>19, KeepIdsKeeps
<1>20. CASE SendFails(r)
  BY <1>20, SendFailsKeeps
<1>. QED
  BY <1>1, <1>2, <1>3, <1>4, <1>5, <1>6, <1>7, <1>8, <1>9, <1>10, <1>11, <1>12, <1>13, <1>14, <1>15,
     <1>16, <1>17, <1>18, <1>19, <1>20 DEF Step

LEMMA NextKeeps ==
  ASSUME IInv, [Next]_vars
  PROVE  IInv'
<1>1. CASE UNCHANGED vars
  BY <1>1, StutterKeeps
<1>2. CASE \E r \in Runs : Step(r)
  BY <1>2, StepKeeps
<1>3. CASE Place
  BY <1>3, PlaceKeeps
<1>4. CASE NextDay
  BY <1>4, NextDayKeeps
<1>5. CASE Settle
  BY <1>5, SettleKeeps
<1>6. CASE CancelOwn
  BY <1>6, CancelOwnKeeps
<1>7. CASE OpenCalendar
  BY <1>7, OpenCalendarKeeps
<1>8. CASE CloseMessage
  BY <1>8, CloseMessageKeeps
<1>9. CASE AskToCancel
  BY <1>9, AskToCancelKeeps
<1>10. CASE KeepOrder
  BY <1>10, KeepOrderKeeps
<1>11. CASE ClearData
  BY <1>11, ClearDataKeeps
<1>. QED
  BY <1>1, <1>2, <1>3, <1>4, <1>5, <1>6, <1>7, <1>8, <1>9, <1>10, <1>11 DEF Next

\* The inductive invariant of the lists: who owns which message, what a run has
\* read and stored at each of its steps, and what a header and a walk have seen.
THEOREM Invariance == Spec => []IInv
<1>. QED
  BY InitHolds, NextKeeps, PTL DEF Spec

-----------------------------------------------------------------------------
(***************************************************************************)
(* What the runs check.                                                    *)
(***************************************************************************)

\* The ids in the FSM data (ACTIVE_ORDERS_MESSAGE_IDS_KEY and its like) are of
\* messages that have been sent and, of those that are left, of cards only.
THEOREM TypeCorrect == Spec => []TypeOK
<1>1. IInv => TypeOK
  <2>. SUFFICES ASSUME IInv PROVE TypeOK
    OBVIOUS
  <2>1. Types /\ Dated /\ Chats /\ DataOwn /\ Control
    BY DEF IInv, Ids
  <2>2. ASSUME NEW p \in People
        PROVE  /\ \A m, n \in chat[p] : m.id < next[p] /\ (m.id = n.id => m = n)
               /\ \A l \in Tracked : data[p].ids[l] \subseteq 1..next[p] - 1
               /\ data[p].date \in 0..MaxDay
    BY <2>1 DEF Chats, DataOwn, Own, Types, DataRecords
  <2>3. ASSUME NEW l \in Tracked
        PROVE  data[Person(l)].ids[l] \cap {m.id : m \in chat[Person(l)] \ Cards(l)} = {}
    <3>1. Person(l) \in People
      BY PersonType DEF Lists
    <3>2. \A m \in chat[Person(l)] : m.id \in data[Person(l)].ids[l] => m \in Cards(l)
      BY <2>1, <3>1 DEF DataOwn, Own, Cards
    <3>. QED
      BY <3>2
  <2>4. \A r \in Runs : run[r].at = "cards" => Cardinality(run[r].sent) < Len(run[r].rows)
    BY <2>1 DEF Control, ControlOf
  <2>5. status \in [Orders -> Statuses] /\ spoilt \subseteq Tracked
    BY <2>1 DEF Types
  <2>6. \A o \in Orders : placed[o] \in 0..today /\ (placed[o] = 0 <=> status[o] = "none")
    BY <2>1 DEF Dated
  <2>. QED
    BY <2>2, <2>3, <2>4, <2>5, <2>6 DEF TypeOK
<1>. QED
  BY <1>1, Invariance, PTL

\* Between renderings the cards of a list in the chat are exactly those its
\* FSM data knows, one per row shown (_delete_messages_except and
\* update_data around every rendering), unless two renderings overlapped, one
\* failed half-way or another dialogue cleared the data.
THEOREM OneListingAlways == Spec => []OneListing
<1>1. IInv => OneListing
  <2>. SUFFICES ASSUME IInv, NEW l \in Tracked \ spoilt,
                       \A r \in Runs : Busy(r) => run[r].list # l
                PROVE  /\ {m.id : m \in Cards(l)} = data[Person(l)].ids[l]
                       /\ Cardinality(Cards(l)) = Len(shown[l])
                       /\ {m.rows[1] : m \in Cards(l)} = ToSet(shown[l])
    BY DEF OneListing
  <2>1. Resting(l)
    BY DEF Resting, Busy, Loose
  <2>2. Settled(l)
    BY <2>1 DEF IInv, Cardlists
  <2>3. Cardinality(Cards(l)) = Cardinality(CardIds(l))
    <3>. DEFINE f == [m \in Cards(l) |-> m.id]
    <3>1. Person(l) \in People
      BY PersonType DEF Lists
    <3>2. \A m, n \in Cards(l) : m.id = n.id => m = n
      BY <3>1 DEF IInv, Chats, Cards
    <3>3. f \in [Cards(l) -> CardIds(l)]
      BY DEF CardIds
    <3>4. f \in Injection(Cards(l), CardIds(l))
      BY <3>2, <3>3 DEF Injection, IsInjective
    <3>5. f \in Surjection(Cards(l), CardIds(l))
      BY <3>3 DEF Surjection, CardIds
    <3>. HIDE DEF f
    <3>. QED
      BY <2>2, <3>4, <3>5, FS_Injection DEF Settled
  <2>. QED
    BY <2>2, <2>3 DEF Settled, CardIds, CardRows
<1>. QED
  BY <1>1, Invariance, PTL

\* Whatever renderings overlap, a header's page exists, its orders and sums are
\* of its day, and with no commit in between its rows and its count are those
\* of one reading (_render_history_page, _render_sales_report); and the arrows,
\* pressed from the first page to the last, show every order exactly once.
THEOREM PagesAreHonest == Spec => []PagesHonest
<1>1. IInv => PagesHonest
  <2>. SUFFICES ASSUME IInv PROVE PagesHonest
    OBVIOUS
  <2>1. Types /\ Chats /\ Headers /\ Walks
    BY DEF IInv
  <2>2. ASSUME NEW p \in People, NEW m \in chat[p], m.kind = "header"
        PROVE  /\ Exists(m)
               /\ m.list = "report" => \A o \in ToSet(m.rows) \cup m.report : placed[o] = m.day
               /\ m.clean => /\ Filled(m)
                             /\ m.total > 0 => m.rows # <<>>
                             /\ m.list = "report" => /\ ToSet(m.rows) \subseteq m.report
                                                     /\ Cardinality(m.report) = m.total
    <3>1. Honest(m) /\ m \in Messages
      BY <2>1, <2>2 DEF Headers, Types
    <3>2. m.total \in Nat /\ m.page \in Nat \ {0}
      BY <3>1 DEF Messages
    <3>3. ASSUME Exists(m), Filled(m), m.total > 0, m.rows = <<>> PROVE FALSE
      <4>1. PICK n \in Nat : n = m.total
        BY <3>2
      <4>2. PICK k \in Nat \ {0} : k = m.page
        BY <3>2
      <4>3. k \in 1..TotalPages(n, PageSize) /\ 0 = Least(PageSize, n - PageSize * (k - 1)) /\ n > 0
        BY <3>3, <4>1, <4>2 DEF Exists, Filled
      <4>4. PageSize * (k - 1) < n /\ PageSize \in Nat \ {0}
        BY <4>3, BoundsAssumption, PagesCount
      <4>5. PageSize * (k - 1) \in Int
        BY <4>4, SMTT(30)
      <4>. QED
        BY <4>3, <4>4, <4>5 DEF Least
    <3>. QED
      BY <3>1, <3>3 DEF Honest
  <2>3. ASSUME NEW l \in Tracked, NEW w, w = walk[l], w.page > 0
        PROVE  /\ IsInjective(w.seen)
               /\ w.page = TotalPages(w.total, PageSize) => ToSet(w.seen) = Members(l, w.day)
    <3>. DEFINE list == Listing(l, w.day)
    <3>1. w \in WalkRecords /\ WalkOf(l, w)
      BY <2>1, <2>3 DEF Types, Walks
    <3>2. /\ w.seen \in Seq(Orders) /\ w.page \in Nat \ {0} /\ w.total = Len(list)
          /\ Len(w.seen) = Least(Len(list), PageSize * w.page)
          /\ \A i \in 1..Len(w.seen) : w.seen[i] = list[i]
      BY <2>3, <3>1 DEF WalkRecords, WalkOf
    <3>3. /\ list \in Seq(Orders) /\ Len(list) \in Nat
          /\ IsInjective(list) /\ ToSet(list) = Members(l, w.day)
      BY ListingType
    <3>4. /\ DOMAIN w.seen = 1..Len(w.seen) /\ Len(w.seen) \in Nat
          /\ DOMAIN list = 1..Len(list)
      BY <3>2, <3>3, LenProperties
    <3>. HIDE DEF list
    <3>5. PageSize * w.page \in Nat
      BY <3>2, BoundsAssumption, SMTT(30)
    <3>6. Len(w.seen) <= Len(list)
      BY <3>2, <3>3, <3>5 DEF Least
    <3>7. IsInjective(w.seen)
      BY <3>2, <3>3, <3>4, <3>6 DEF IsInjective
    <3>8. ASSUME w.page = TotalPages(w.total, PageSize)
          PROVE  ToSet(w.seen) = Members(l, w.day)
      <4>1. Len(list) <= PageSize * w.page
        <5>1. PICK n \in Nat : n = Len(list)
          BY <3>3
        <5>2. n <= PageSize * TotalPages(n, PageSize)
          BY BoundsAssumption, PagesCount
        <5>. QED
          BY <3>2, <3>8, <5>1, <5>2
      <4>2. Len(w.seen) = Len(list)
        BY <3>2, <3>3, <3>5, <4>1 DEF Least
      <4>. QED
        BY <3>2, <3>3, <3>4, <4>2 DEF ToSet
    <3>. QED
      BY <3>7, <3>8
  <2>. QED
    BY <2>2, <2>3 DEF PagesHonest
<1>. QED
  BY <1>1, Invariance, PTL

=============================================================================
