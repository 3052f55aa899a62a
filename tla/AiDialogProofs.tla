----------------------------- MODULE AiDialogProofs -----------------------------
(***************************************************************************)
(* Proofs about AiDialog for any number of handler runs, deliveries and    *)
(* questions, and any limits, quotas and lengths of the history.           *)
(***************************************************************************)
EXTENDS AiDialog, FiniteSetTheorems, TLAPS

-----------------------------------------------------------------------------
(***************************************************************************)
(* Histories.                                                              *)
(***************************************************************************)

\* No answer before its question; no answer to question q.
Ordered(h) == \A i, j \in 1..Len(h) : h[i] < 0 /\ h[j] = -h[i] => j < i
Unanswered(h, q) == \A i \in 1..Len(h) : h[i] # -q

LEMMA TurnNumbers ==
  /\ \A q \in Questions : q \in Turns /\ -q \in Turns /\ q \in Nat /\ q >= 1
  /\ Turns \subseteq Int
BY BoundsAssumption DEF Questions, Turns

\* What is left of a history when its oldest turns are cut off.
LEMMA TrimTurns ==
  ASSUME NEW h \in Seq(Turns), NEW n \in Nat
  PROVE  /\ Trim(h, n) \in Seq(Turns) /\ Len(Trim(h, n)) <= n
         /\ Ordered(h) => Ordered(Trim(h, n))
         /\ \A q : Unanswered(h, q) => Unanswered(Trim(h, n), q)
<1>1. CASE Len(h) <= n
  BY <1>1 DEF Trim
<1>2. CASE Len(h) > n
  <2>. DEFINE m == Len(h) - n
              t == SubSeq(h, m + 1, Len(h))
  <2>1. m \in Nat /\ Len(h) \in Nat /\ m + 1 <= Len(h) + 1
    BY <1>2
  <2>2. t \in Seq(Turns) /\ Len(t) = n /\ \A i \in 1..n : t[i] = h[i + m]
    BY <1>2, <2>1
  <2>3. Trim(h, n) = t
    BY <1>2, <2>1 DEF Trim
  <2>. HIDE DEF t
  <2>4. \A i \in 1..n : i + m \in 1..Len(h)
    BY <1>2, <2>1
  <2>5. Ordered(h) => Ordered(t)
    <3>. SUFFICES ASSUME Ordered(h), NEW i \in 1..n, NEW j \in 1..n, t[i] < 0, t[j] = -t[i]
                  PROVE  j < i
      BY <2>2 DEF Ordered
    <3>1. h[i + m] < 0 /\ h[j + m] = -h[i + m]
      BY <2>2
    <3>2. j + m < i + m
      BY <2>4, <3>1 DEF Ordered
    <3>. QED
      BY <2>1, <3>2
  <2>6. \A q : Unanswered(h, q) => Unanswered(t, q)
    BY <2>2, <2>4 DEF Unanswered
  <2>. QED
    BY <2>2, <2>3, <2>5, <2>6
<1>. QED
  BY <1>1, <1>2

\* A question may be appended as long as no answer to it is there.
LEMMA AppendQuestion ==
  ASSUME NEW h \in Seq(Turns), NEW q \in Questions, Ordered(h), Unanswered(h, q)
  PROVE  /\ Append(h, q) \in Seq(Turns) /\ Len(Append(h, q)) = Len(h) + 1
         /\ Ordered(Append(h, q))
         /\ \A p \in Questions : Unanswered(h, p) => Unanswered(Append(h, q), p)
<1>. DEFINE a == Append(h, q)
            n == Len(h)
<1>1. /\ a \in Seq(Turns) /\ n \in Nat /\ Len(a) = n + 1
      /\ a[n + 1] = q /\ \A i \in 1..n : a[i] = h[i] /\ h[i] \in Turns
  BY TurnNumbers
<1>2. Ordered(a)
  <2>. SUFFICES ASSUME NEW i \in 1..n + 1, NEW j \in 1..n + 1, a[i] < 0, a[j] = -a[i]
                PROVE  j < i
    BY <1>1 DEF Ordered
  <2>1. i # n + 1 /\ i \in 1..n
    BY <1>1, TurnNumbers
  <2>2. a[i] = h[i] /\ h[i] \in Int
    BY <1>1, <2>1, TurnNumbers
  <2>3. CASE j \in 1..n
    BY <1>1, <2>1, <2>2, <2>3 DEF Ordered
  <2>4. CASE j = n + 1
    BY <1>1, <2>1, <2>2, <2>4, TurnNumbers DEF Unanswered
  <2>. QED
    BY <1>1, <2>3, <2>4
<1>3. \A p \in Questions : Unanswered(h, p) => Unanswered(a, p)
  BY <1>1, TurnNumbers DEF Unanswered
<1>. QED
  BY <1>1, <1>2, <1>3

\* An answer may always be appended.
LEMMA AppendAnswer ==
  ASSUME NEW h \in Seq(Turns), NEW q \in Questions, Ordered(h)
  PROVE  /\ Append(h, -q) \in Seq(Turns)
         /\ Ordered(Append(h, -q))
         /\ \A p \in Questions \ {q} : Unanswered(h, p) => Unanswered(Append(h, -q), p)
<1>. DEFINE a == Append(h, -q)
            n == Len(h)
<1>1. /\ a \in Seq(Turns) /\ n \in Nat /\ Len(a) = n + 1
      /\ n = Len(h) /\ a[n + 1] = -q /\ \A i \in 1..n : a[i] = h[i] /\ h[i] \in Turns
  BY TurnNumbers
<1>. HIDE DEF a, n
<1>2. Ordered(a)
  <2>. SUFFICES ASSUME NEW i \in 1..n + 1, NEW j \in 1..n + 1, a[i] < 0, a[j] = -a[i]
                PROVE  j < i
    BY <1>1 DEF Ordered
  <2>1. a[i] \in Int /\ a[j] > 0
    <3>1. a[i] \in Turns
      BY <1>1
    <3>2. PICK x \in Int : x = a[i]
      BY <3>1, TurnNumbers
    <3>3. x < 0 /\ a[j] = -x
      BY <3>2
    <3>. QED
      BY <3>2, <3>3
  <2>2. j # n + 1 /\ j \in 1..n
    BY <1>1, <2>1, TurnNumbers
  <2>3. CASE i \in 1..n
    BY <1>1, <2>2, <2>3 DEF Ordered
  <2>4. CASE i = n + 1
    BY <1>1, <2>2, <2>4
  <2>. QED
    BY <1>1, <2>3, <2>4
<1>3. \A p \in Questions \ {q} : Unanswered(h, p) => Unanswered(a, p)
  BY <1>1, TurnNumbers DEF Unanswered
<1>. QED
  BY <1>1, <1>2, <1>3 DEF a

-----------------------------------------------------------------------------
(***************************************************************************)
(* The inductive invariant, one part for each thing the handlers share.    *)
(***************************************************************************)

Flags == overlapped \in BOOLEAN /\ crossed \in BOOLEAN /\ faults \in Nat

\* Two handlers at once are noticed.
Apart ==
  /\ ~overlapped => \A r, s \in Runs : run[r].pc # "idle" /\ run[s].pc # "idle" => r = s
  /\ ~crossed =>
       /\ \A w, v \in Deliveries : work[w].pc # "idle" /\ work[v].pc # "idle" => w = v
       /\ \A r \in Runs, w \in Deliveries : run[r].pc = "idle" \/ work[w].pc = "idle"

\* The cooldown key lasts at least a cooldown from every pass.
KeyLasts == \A i \in 1..Len(passes) : passes[i] + Cooldown <= cooldown

\* Requests that were dropped from the sorted set are too old for any window
\* from now on, and none is of a time to come.
WindowKept ==
  /\ window \subseteq requests
  /\ \A m \in requests : m.at <= now /\ (m \notin window => m.at <= now - Window)
  /\ \A r \in Runs : run[r].pc = "add" => run[r].at <= now

\* The requests that are counted already and not yet added.
Adding(t) == {r \in Runs : run[r].pc = "add" /\ run[r].at > t - Window /\ run[r].at <= t}
Limit == MaxRequests + IF overlapped THEN Cardinality(Runs) - 1 ELSE 0
WindowFits == \A t \in 0..MaxTime : Cardinality(Within(t)) + Cardinality(Adding(t)) <= Limit

\* The quotas that handlers have read are not negative, every question that is
\* about to be published is paid for, and a handler that is alone has read the
\* quota as it is.
Loaded(L) == L.pc \in {"gift", "topUp", "charge"}
Paid == {r \in Runs : run[r].pc \in {"read", "publish"}}
QuotaFits ==
  /\ quota >= 0
  /\ \A r \in Runs : Loaded(run[r]) => run[r].quota >= 0
  /\ Limited => published + Cardinality(Paid) <= charged
  /\ ~overlapped =>
       /\ quota = StartQuota + granted - charged
       /\ \A r \in Runs : Loaded(run[r]) => run[r].quota = quota

\* A question that is not published yet has a number of its own.
Asking == {"voice", "limits", "count", "add", "user", "topUp", "charge", "read", "publish"}
Numbers ==
  /\ \A q \in Questions : q > asked => task[q] = "none"
  /\ \A r \in Runs : run[r].pc \in Asking =>
       run[r].q \in Questions /\ run[r].q <= asked /\ task[run[r].q] = "none"
  /\ \A r, s \in Runs :
       run[r].pc \in Asking /\ run[s].pc \in Asking /\ run[r].q = run[s].q => r = s
  /\ \A w \in Deliveries : work[w].pc # "idle" =>
       work[w].q \in Questions /\ task[work[w].q] # "none"

\* Every history is in order, with no answer to what is not published.
Sound(h) == Ordered(h) /\ \A q \in Questions : task[q] = "none" => Unanswered(h, q)
Histories ==
  /\ Sound(data.history)
  /\ \A r \in Runs : Sound(run[r].history) /\ Sound(run[r].data.history)
  /\ \A w \in Deliveries : Sound(work[w].data.history)
  /\ \A r \in Runs : run[r].pc \in {"get", "set"} =>
       run[r].q \in Questions /\ Unanswered(run[r].history, run[r].q)

\* While no two handlers ever ran at once and none failed, the pending post is
\* that of the newest button, or its delivery is about to write it.
Clean == ~overlapped /\ ~crossed /\ faults = 0
Writes(L) == L.q = screen /\ L.post /\ L.pc \in {"getHistory", "setHistory", "getPost", "setPost"}
PostFits ==
  /\ Clean /\ screen # 0 => data.post \in {0, screen} \/ \E w \in Deliveries : Writes(work[w])
  /\ Clean =>
       /\ \A r \in Runs : run[r].pc \in {"session", "set"} => run[r].data.post = data.post
       /\ \A w \in Deliveries :
            work[w].pc \in {"setHistory", "setPost"} => work[w].data.post = data.post
       /\ \A w \in Deliveries :
            \/ work[w].pc \in {"getPost", "setPost"}
            \/ work[w].pc \in {"getHistory", "setHistory"} /\ work[w].post
            => Writes(work[w])
  /\ BroadcastsShownPost

Inv ==
  /\ TypeOK /\ Flags /\ Apart /\ KeyLasts /\ CooldownHolds /\ WindowKept /\ WindowFits
  /\ QuotaFits /\ Numbers /\ Histories /\ PostFits

-----------------------------------------------------------------------------
(***************************************************************************)
(* What a step of one handler run leaves as it is.                         *)
(***************************************************************************)

\* Run r, under way, becomes L.
Steps(r, L) ==
  /\ r \in Runs /\ run[r].pc # "idle" /\ run' = [run EXCEPT ![r] = L]
  /\ L \in RunRecord /\ Short(L.data) /\ Len(L.history) <= KeepTurns

LEMMA StepsRun ==
  ASSUME Inv, NEW r, NEW L, Steps(r, L)
  PROVE  /\ run' \in [Runs -> RunRecord]
         /\ \A s \in Runs : Short(run'[s].data) /\ Len(run'[s].history) <= KeepTurns
         /\ run'[r] = L /\ \A s \in Runs \ {r} : run'[s] = run[s]
BY DEF Inv, TypeOK, Steps

LEMMA StepsApart ==
  ASSUME Inv, NEW r, NEW L, Steps(r, L), UNCHANGED <<work, overlapped, crossed>>
  PROVE  Apart'
<1>1. run'[r] = L /\ \A s \in Runs \ {r} : run'[s] = run[s]
  BY StepsRun
<1>. QED
  BY <1>1 DEF Inv, Apart, Steps

LEMMA RunsFinite == \A S \in SUBSET Runs : IsFiniteSet(S) /\ Cardinality(S) \in Nat
BY UserAssumption, FS_Subset, FS_CardinalityType

\* Fewer runs about to add a request are as good.
LEMMA AddingShrinks ==
  ASSUME Inv, NEW t, Adding(t)' \subseteq Adding(t)
  PROVE  Cardinality(Adding(t)') <= Cardinality(Adding(t))
BY UserAssumption, FS_Subset DEF Adding

LEMMA MembersFinite == \A S \in SUBSET Members : IsFiniteSet(S) /\ Cardinality(S) \in Nat
<1>1. IsFiniteSet(Questions) /\ IsFiniteSet(0..MaxTime)
  BY BoundsAssumption, FS_Interval DEF Questions
<1>2. IsFiniteSet(Questions \X (0..MaxTime))
  BY <1>1, FS_Product
<1>. DEFINE f == [p \in Questions \X (0..MaxTime) |-> [q |-> p[1], at |-> p[2]]]
<1>3. f \in Surjection(Questions \X (0..MaxTime), Members)
  <2>1. \A m \in Members : f[<<m.q, m.at>>] = m /\ <<m.q, m.at>> \in Questions \X (0..MaxTime)
    BY DEF Members
  <2>2. \A p \in Questions \X (0..MaxTime) : f[p] \in Members
    BY DEF Members
  <2>. QED
    BY <2>1, <2>2 DEF Surjection
<1>4. IsFiniteSet(Members)
  BY <1>2, <1>3, FS_Surjection
<1>. QED
  BY <1>4, FS_Subset, FS_CardinalityType

LimitsSame(L) == L.pc # "add" /\ UNCHANGED <<now, cooldown, window, passes, requests, overlapped>>

LEMMA StepsLimits ==
  ASSUME Inv, NEW r, NEW L, Steps(r, L), LimitsSame(L)
  PROVE  (KeyLasts /\ CooldownHolds /\ WindowKept /\ WindowFits)'
<1>. USE DEF Inv, LimitsSame
<1>1. run'[r] = L /\ \A s \in Runs \ {r} : run'[s] = run[s]
  BY StepsRun
<1>2. (KeyLasts /\ CooldownHolds)'
  BY DEF KeyLasts, CooldownHolds
<1>3. WindowKept'
  BY <1>1 DEF WindowKept
<1>4. WindowFits'
  <2>. SUFFICES ASSUME NEW t \in 0..MaxTime
                PROVE  Cardinality(Within(t)') + Cardinality(Adding(t)') <= Limit'
    BY DEF WindowFits
  <2>1. Adding(t)' \subseteq Adding(t)
    BY <1>1 DEF Adding
  <2>2. Cardinality(Adding(t)') <= Cardinality(Adding(t))
    BY <2>1, AddingShrinks
  <2>3. Within(t)' = Within(t) /\ Limit' = Limit
    BY DEF Within, Limit
  <2>4. Adding(t) \subseteq Runs /\ Adding(t)' \subseteq Runs /\ Within(t) \subseteq Members
    BY DEF Adding, Within, TypeOK
  <2>5. /\ Cardinality(Adding(t)) \in Nat /\ Cardinality(Adding(t)') \in Nat
        /\ Cardinality(Within(t)) \in Nat /\ Limit \in Int
    BY <2>4, RunsFinite, MembersFinite, LimitsAssumption DEF Limit
  <2>6. Cardinality(Within(t)) + Cardinality(Adding(t)) <= Limit
    BY DEF WindowFits
  <2>. QED
    BY <2>2, <2>3, <2>5, <2>6
<1>. QED
  BY <1>2, <1>3, <1>4

QuotaSame(r, L) ==
  /\ Loaded(L) => L.quota >= 0 /\ (~overlapped => L.quota = quota)
  /\ Limited /\ L.pc \in {"read", "publish"} => run[r].pc \in {"read", "publish"}
  /\ UNCHANGED <<role, quota, granted, charged, published, overlapped>>

LEMMA StepsQuota ==
  ASSUME Inv, NEW r, NEW L, Steps(r, L), QuotaSame(r, L)
  PROVE  QuotaFits'
<1>. USE DEF Inv, QuotaSame
<1>1. run'[r] = L /\ \A s \in Runs \ {r} : run'[s] = run[s]
  BY StepsRun
<1>2. Limited' => published' + Cardinality(Paid') <= charged'
  <2>. SUFFICES ASSUME Limited PROVE published + Cardinality(Paid') <= charged
    BY DEF Limited
  <2>1. Paid' \subseteq Paid /\ Paid \subseteq Runs
    BY <1>1 DEF Paid
  <2>2. Cardinality(Paid') <= Cardinality(Paid)
    BY <2>1, RunsFinite, FS_Subset
  <2>3. Cardinality(Paid') \in Nat /\ Cardinality(Paid) \in Nat /\ published \in Nat /\ charged \in Nat
    BY <2>1, RunsFinite DEF TypeOK
  <2>4. published + Cardinality(Paid) <= charged
    BY DEF QuotaFits
  <2>. QED
    BY <2>2, <2>3, <2>4
<1>3. \A s \in Runs : Loaded(run'[s]) => run'[s].quota >= 0 /\ (~overlapped => run'[s].quota = quota)
  BY <1>1 DEF QuotaFits
<1>. QED
  BY <1>2, <1>3 DEF QuotaFits, Loaded

NumbersSame(r, L) ==
  /\ L.pc \in Asking => run[r].pc \in Asking /\ L.q = run[r].q
  /\ UNCHANGED <<task, asked, work>>

LEMMA StepsNumbers ==
  ASSUME Inv, NEW r, NEW L, Steps(r, L), NumbersSame(r, L)
  PROVE  Numbers'
<1>1. run'[r] = L /\ \A s \in Runs \ {r} : run'[s] = run[s]
  BY StepsRun
<1>. QED
  BY <1>1 DEF Inv, NumbersSame, Numbers, Steps

HistoriesSame(L) ==
  /\ Sound(L.history) /\ Sound(L.data.history)
  /\ L.pc \in {"get", "set"} => L.q \in Questions /\ Unanswered(L.history, L.q)
  /\ UNCHANGED <<task, data, work>>

LEMMA StepsHistories ==
  ASSUME Inv, NEW r, NEW L, Steps(r, L), HistoriesSame(L)
  PROVE  Histories'
<1>1. run'[r] = L /\ \A s \in Runs \ {r} : run'[s] = run[s]
  BY StepsRun
<1>2. \A h : Sound(h) => Sound(h)'
  BY DEF HistoriesSame, Sound
<1>. QED
  BY <1>1, <1>2 DEF Inv, HistoriesSame, Histories, Sound

PostSame(L) ==
  /\ Clean /\ L.pc \in {"session", "set"} => L.data.post = data.post
  /\ UNCHANGED <<data, work, screen, sent, overlapped, crossed>>
  /\ faults' \in Nat /\ (faults' = 0 => faults = 0)

LEMMA StepsPost ==
  ASSUME Inv, NEW r, NEW L, Steps(r, L), PostSame(L)
  PROVE  PostFits'
<1>1. run'[r] = L /\ \A s \in Runs \ {r} : run'[s] = run[s]
  BY StepsRun
<1>2. Clean' => Clean
  BY DEF PostSame, Clean
<1>. QED
  BY <1>1, <1>2 DEF Inv, PostSame, PostFits, Writes, BroadcastsShownPost

\* A step that changes nothing but its own run.
LEMMA StepsInv ==
  ASSUME Inv, NEW r, NEW L, Steps(r, L), LimitsSame(L), QuotaSame(r, L), NumbersSame(r, L),
         HistoriesSame(L), PostSame(L), stage' \in {"idle", "chat", "checkout"},
         UNCHANGED bonusAt
  PROVE  Inv'
<1>1. TypeOK' /\ Flags'
  BY StepsRun DEF Inv, TypeOK, Flags, LimitsSame, QuotaSame, NumbersSame, HistoriesSame, PostSame
<1>2. Apart'
  BY StepsApart DEF PostSame
<1>. QED
  BY <1>1, <1>2, StepsLimits, StepsQuota, StepsNumbers, StepsHistories, StepsPost DEF Inv

\* Nothing but runs, the stage and the number of failures changes.
Still ==
  /\ UNCHANGED <<now, role, task, work, asked, screen, sent, overlapped, crossed, data>>
  /\ UNCHANGED <<cooldown, window, quota, bonusAt, passes, requests, granted, charged, published>>
  /\ stage' \in {"idle", "chat", "checkout"}
  /\ faults' \in Nat /\ (faults' = 0 => faults = 0)

\* What run r may become in such a step.
Becomes(r, L) ==
  /\ L.pc # "add"
  /\ Loaded(L) => L.quota >= 0 /\ (~overlapped => L.quota = quota)
  /\ Limited /\ L.pc \in {"read", "publish"} => run[r].pc \in {"read", "publish"}
  /\ L.pc \in Asking => run[r].pc \in Asking /\ L.q = run[r].q
  /\ Sound(L.history) /\ Sound(L.data.history)
  /\ L.pc \in {"get", "set"} => L.q \in Questions /\ Unanswered(L.history, L.q)
  /\ L.pc \in {"session", "set"} => L.data.post = data.post

LEMMA StillInv ==
  ASSUME Inv, NEW r, NEW L, Steps(r, L), Still, Becomes(r, L)
  PROVE  Inv'
<1>1. LimitsSame(L) /\ QuotaSame(r, L) /\ NumbersSame(r, L)
  BY DEF Still, Becomes, LimitsSame, QuotaSame, NumbersSame
<1>2. HistoriesSame(L) /\ PostSame(L)
  BY DEF Still, Becomes, HistoriesSame, PostSame
<1>. QED
  BY <1>1, <1>2, StepsInv DEF Still

LEMMA RunFacts ==
  ASSUME Inv, NEW r \in Runs
  PROVE  /\ run[r] \in RunRecord /\ Short(run[r].data) /\ Len(run[r].history) <= KeepTurns
         /\ Sound(run[r].history) /\ Sound(run[r].data.history)
         /\ data \in Record /\ Short(data) /\ Sound(data.history)
         /\ run \in [Runs -> RunRecord]
BY DEF Inv, TypeOK, Histories

LEMMA NothingSound == Sound(<<>>)
BY DEF Sound, Ordered, Unanswered

LEMMA NoRunFacts ==
  /\ NoRun \in RunRecord /\ Short(NoRun.data) /\ Len(NoRun.history) <= KeepTurns
  /\ NoRun.pc = "idle" /\ NoRun.history = <<>> /\ NoRun.data = NoData
  /\ NoData \in Record /\ NoData.history = <<>> /\ NoData.post = 0
<1>1. NoData \in Record /\ NoData.history = <<>> /\ NoData.post = 0
  BY BoundsAssumption DEF NoData, Record
<1>2. Len(<<>>) = 0
  OBVIOUS
<1>. QED
  BY <1>1, <1>2, BoundsAssumption, HistoryAssumption DEF NoRun, RunRecord, Short

\* A handler that is over.
LEMMA EndInv ==
  ASSUME Inv, NEW r \in Runs, run[r].pc # "idle", End(r), Still
  PROVE  Inv'
<1>1. Steps(r, NoRun)
  BY NoRunFacts DEF Steps, End, Goes
<1>2. Becomes(r, NoRun)
  BY NoRunFacts, NothingSound DEF Becomes, Loaded, Asking
<1>. QED
  BY <1>1, <1>2, StillInv

\* A handler that goes on without having read or written anything.
LEMMA GotoInv ==
  ASSUME Inv, NEW r \in Runs, run[r].pc # "idle", NEW pc, Goto(r, pc), Still,
         pc \in {"enter", "clear", "clearData", "limits", "count", "user", "read"},
         pc \in Asking => run[r].pc \in Asking, pc = "read" => ~Limited
  PROVE  Inv'
<1>. DEFINE L == [run[r] EXCEPT !.pc = pc]
<1>1. /\ L \in RunRecord /\ L.pc = pc /\ L.q = run[r].q /\ L.history = run[r].history
      /\ L.data = run[r].data
  BY RunFacts, ZenonT(60) DEF RunRecord
<1>2. run' = [run EXCEPT ![r] = L]
  BY DEF Goto, Goes
<1>. HIDE DEF L
<1>3. Steps(r, L)
  BY <1>1, <1>2, RunFacts DEF Steps
<1>4. Becomes(r, L)
  BY <1>1, RunFacts DEF Becomes, Loaded
<1>. QED
  BY <1>3, <1>4, StillInv

-----------------------------------------------------------------------------
(***************************************************************************)
(* The bot's handlers.                                                     *)
(***************************************************************************)

LEMMA ReadContextInv == ASSUME Inv, NEW r \in Runs, ReadContext(r) PROVE Inv'
<1>. DEFINE L == [run[r] EXCEPT !.pc = "session", !.data = data]
<1>1. /\ L \in RunRecord /\ L.pc = "session" /\ L.history = run[r].history /\ L.data = data
  BY RunFacts, ZenonT(60) DEF RunRecord
<1>2. run' = [run EXCEPT ![r] = L] /\ run[r].pc = "context"
  BY DEF ReadContext, At, Goes
<1>3. Still
  BY DEF ReadContext, OnlyFsm, Others, redis, row, limitsHistory, postHistory, Still, Inv, TypeOK, Flags
<1>. HIDE DEF L
<1>4. Steps(r, L)
  BY <1>1, <1>2, RunFacts DEF Steps
<1>5. Becomes(r, L)
  BY <1>1, RunFacts DEF Becomes, Loaded, Asking
<1>. QED
  BY <1>3, <1>4, <1>5, StillInv

LEMMA GetDataInv == ASSUME Inv, NEW r \in Runs, GetData(r) PROVE Inv'
<1>. DEFINE L == [run[r] EXCEPT !.pc = "set", !.data = data]
<1>1. /\ L \in RunRecord /\ L.pc = "set" /\ L.history = run[r].history /\ L.data = data
      /\ L.q = run[r].q
  BY RunFacts, ZenonT(60) DEF RunRecord
<1>2. run' = [run EXCEPT ![r] = L] /\ run[r].pc = "get"
  BY DEF GetData, At, Goes
<1>3. Still
  BY DEF GetData, OnlyFsm, Others, redis, row, limitsHistory, postHistory, Still, Inv, TypeOK, Flags
<1>. HIDE DEF L
<1>4. Steps(r, L)
  BY <1>1, <1>2, RunFacts DEF Steps
<1>5. Becomes(r, L)
  BY <1>1, <1>2, RunFacts DEF Becomes, Loaded, Asking, Inv, Histories
<1>. QED
  BY <1>3, <1>4, <1>5, StillInv

LEMMA ReadHistoryInv == ASSUME Inv, NEW r \in Runs, ReadHistory(r) PROVE Inv'
<1>. DEFINE h == Trim(data.history, KeepTurns)
            L == [run[r] EXCEPT !.pc = "publish", !.history = h]
<1>1. h \in Seq(Turns) /\ Len(h) <= KeepTurns /\ Sound(h)
  <2>1. data.history \in Seq(Turns) /\ Sound(data.history)
    BY RunFacts DEF Record
  <2>. QED
    BY <2>1, TrimTurns, HistoryAssumption DEF Sound
<1>. HIDE DEF h
<1>2. /\ L \in RunRecord /\ L.pc = "publish" /\ L.history = h /\ L.data = run[r].data
      /\ L.q = run[r].q
  BY <1>1, RunFacts, ZenonT(60) DEF RunRecord
<1>3. run' = [run EXCEPT ![r] = L] /\ run[r].pc = "read"
  BY DEF ReadHistory, At, Goes, h
<1>4. Still
  BY DEF ReadHistory, OnlyFsm, Others, redis, row, limitsHistory, postHistory, Still, Inv, TypeOK, Flags
<1>. HIDE DEF L
<1>5. Steps(r, L)
  BY <1>1, <1>2, <1>3, RunFacts DEF Steps
<1>6. Becomes(r, L)
  BY <1>1, <1>2, <1>3, RunFacts DEF Becomes, Loaded, Asking
<1>. QED
  BY <1>4, <1>5, <1>6, StillInv

\* What a handler loads from the user's row is the quota as it is.
LEMMA LoadInv ==
  ASSUME Inv, NEW r \in Runs, LoadBuyer(r) \/ LoadUser(r)
  PROVE  Inv'
<1>1. PICK L : /\ run' = [run EXCEPT ![r] = L] /\ L \in RunRecord
               /\ L.history = run[r].history /\ L.data = run[r].data /\ L.q = run[r].q
               /\ L.quota = quota /\ L.pc \in {"gift", "topUp", "charge"}
               /\ L.pc \in {"topUp", "charge"} => run[r].pc = "user"
  <2>1. quota \in Int /\ bonusAt \in 0..MaxTime \cup {Never}
    BY DEF Inv, TypeOK
  <2>2. CASE LoadBuyer(r)
    <3>. DEFINE L == [run[r] EXCEPT !.pc = "gift", !.quota = quota]
    <3>1. /\ run' = [run EXCEPT ![r] = L] /\ L \in RunRecord
          /\ L.history = run[r].history /\ L.data = run[r].data /\ L.q = run[r].q
          /\ L.quota = quota /\ L.pc = "gift"
      BY <2>1, <2>2, RunFacts DEF LoadBuyer, Goes, RunRecord
    <3>. HIDE DEF L
    <3>. QED
      BY <3>1
  <2>3. CASE LoadUser(r)
    <3>. DEFINE pc == IF bonusAt # Never /\ now - bonusAt >= ResetAfter THEN "topUp" ELSE "charge"
                L == [run[r] EXCEPT !.quota = quota, !.bonusAt = bonusAt, !.pc = pc]
    <3>0. pc \in {"topUp", "charge"}
      OBVIOUS
    <3>a. run' = [run EXCEPT ![r] = L] /\ run[r].pc = "user"
      BY <2>3 DEF LoadUser, Goes, At
    <3>. HIDE DEF pc
    <3>1. /\ L \in RunRecord
          /\ L.history = run[r].history /\ L.data = run[r].data /\ L.q = run[r].q
          /\ L.quota = quota /\ L.pc = pc
      BY <2>1, <3>0, RunFacts, ZenonT(60) DEF RunRecord
    <3>. HIDE DEF L
    <3>. QED
      BY <3>0, <3>a, <3>1
  <2>. QED
    BY <2>2, <2>3
<1>2. run[r].pc \in {"buyer", "user"}
  BY DEF LoadBuyer, LoadUser, At
<1>3. Still
  BY DEF LoadBuyer, LoadUser, OnlyRow, Others, redis, row, postHistory, Still, Inv, TypeOK, Flags
<1>4. Steps(r, L)
  BY <1>1, <1>2, RunFacts DEF Steps
<1>5. Becomes(r, L)
  BY <1>1, RunFacts DEF Becomes, Loaded, Asking, Inv, QuotaFits
<1>. QED
  BY <1>3, <1>4, <1>5, StillInv

\* Handlers that go on or end without a write that others see.
LEMMA PassingInv ==
  ASSUME Inv, NEW r \in Runs,
         \/ EnterChat(r) \/ EnterCheckout(r) \/ ClearStage(r) \/ Transcribe(r)
         \/ SkipLimits(r) \/ RedisFails(r) \/ PublishFails(r)
  PROVE  Inv'
<1>f. faults \in Nat /\ stage \in {"idle", "chat", "checkout"}
  BY DEF Inv, TypeOK, Flags
<1>. USE DEF At, OnlyFsm, OnlyRedis, Others, redis, row, limitsHistory, postHistory, Still
<1>1. CASE EnterChat(r)
  <2>1. Still /\ End(r) /\ run[r].pc # "idle"
    BY <1>1, <1>f DEF EnterChat
  <2>. QED
    BY <2>1, EndInv
<1>2. CASE EnterCheckout(r)
  <2>1. Still /\ End(r) /\ run[r].pc # "idle"
    BY <1>2, <1>f DEF EnterCheckout
  <2>. QED
    BY <2>1, EndInv
<1>3. CASE ClearStage(r)
  <2>1. Still /\ Goto(r, "clearData") /\ run[r].pc # "idle"
    BY <1>3, <1>f DEF ClearStage
  <2>. QED
    BY <2>1, GotoInv DEF Asking
<1>4. CASE Transcribe(r)
  <2>1. Still /\ (Goto(r, "limits") \/ End(r)) /\ run[r].pc = "voice"
    BY <1>4, <1>f DEF Transcribe
  <2>. QED
    BY <2>1, GotoInv, EndInv DEF Asking
<1>5. CASE SkipLimits(r)
  <2>1. Still /\ Goto(r, "read") /\ run[r].pc = "limits" /\ ~Limited
    BY <1>5, <1>f DEF SkipLimits
  <2>. QED
    BY <2>1, GotoInv DEF Asking
<1>6. CASE RedisFails(r)
  <2>1. /\ Still
        /\ \/ run[r].pc = "limits" /\ Goto(r, "count")
           \/ run[r].pc \in {"count", "add"} /\ Goto(r, "user")
    BY <1>6, <1>f DEF RedisFails
  <2>. QED
    BY <2>1, GotoInv DEF Asking
<1>7. CASE PublishFails(r)
  <2>1. Still /\ End(r) /\ run[r].pc # "idle"
    BY <1>7, <1>f DEF PublishFails
  <2>. QED
    BY <2>1, EndInv
<1>. QED
  BY <1>1, <1>2, <1>3, <1>4, <1>5, <1>6, <1>7

\* A handler that is alone writes the pending post back as it is, or none.
LEMMA DataWritten ==
  ASSUME Inv, NEW r, NEW L, Steps(r, L), LimitsSame(L), QuotaSame(r, L), NumbersSame(r, L),
         L.pc \in {"idle", "enter"}, Sound(L.history), Sound(L.data.history),
         data' \in Record, Short(data'), Sound(data'.history),
         Clean => data'.post \in {0, data.post},
         UNCHANGED <<task, work, screen, sent, overlapped, crossed, faults, stage, bonusAt>>
  PROVE  Inv'
<1>. USE DEF Inv
<1>1. run'[r] = L /\ \A s \in Runs \ {r} : run'[s] = run[s]
  BY StepsRun
<1>2. TypeOK' /\ Flags'
  BY StepsRun DEF TypeOK, Flags, LimitsSame, QuotaSame, NumbersSame
<1>3. Histories'
  <2>1. \A h : Sound(h) => Sound(h)'
    BY DEF Sound
  <2>2. (Sound(data.history) /\ Sound(L.history) /\ Sound(L.data.history))'
    BY <2>1 DEF Sound
  <2>. QED
    BY <1>1, <2>1, <2>2 DEF Histories, Sound
<1>4. PostFits'
  <2>1. Clean' = Clean
    BY DEF Clean
  <2>2. Clean => \A s \in Runs \ {r} : run[s].pc = "idle"
    BY DEF Clean, Apart, Steps
  <2>3. Clean => \A w \in Deliveries : work[w].pc = "idle"
    BY DEF Clean, Apart, Steps
  <2>4. (Clean /\ screen # 0 => data.post \in {0, screen} \/ \E w \in Deliveries : Writes(work[w]))'
    BY <2>1, <2>3 DEF PostFits, Writes
  <2>. QED
    BY <1>1, <2>1, <2>2, <2>3, <2>4 DEF PostFits, BroadcastsShownPost
<1>5. Apart'
  BY StepsApart
<1>. QED
  BY <1>2, <1>3, <1>4, <1>5, StepsLimits, StepsQuota, StepsNumbers

LEMMA WriteSessionInv == ASSUME Inv, NEW r \in Runs, WriteSession(r) PROVE Inv'
<1>. DEFINE L == [run[r] EXCEPT !.pc = "enter"]
<1>1. /\ L \in RunRecord /\ L.pc = "enter" /\ L.history = run[r].history /\ L.data = run[r].data
  BY RunFacts, ZenonT(60) DEF RunRecord
<1>2. /\ run' = [run EXCEPT ![r] = L] /\ run[r].pc = "session"
      /\ data' = [run[r].data EXCEPT !.history = <<>>]
      /\ UNCHANGED <<now, role, task, work, asked, screen, sent, overlapped, crossed, stage, faults>>
      /\ UNCHANGED <<cooldown, window, quota, bonusAt, passes, requests, granted, charged, published>>
  BY DEF WriteSession, At, Goto, Goes, OnlyFsm, Others, redis, row, limitsHistory, postHistory
<1>. HIDE DEF L
<1>3. Steps(r, L)
  BY <1>1, <1>2, RunFacts DEF Steps
<1>4. LimitsSame(L) /\ QuotaSame(r, L) /\ NumbersSame(r, L)
  BY <1>1, <1>2 DEF LimitsSame, QuotaSame, NumbersSame, Loaded, Asking
<1>5. /\ data' \in Record /\ data'.history = <<>> /\ data'.post = run[r].data.post
  <2>1. run[r].data \in Record
    BY RunFacts DEF RunRecord
  <2>2. <<>> \in Seq(Turns)
    OBVIOUS
  <2>. QED
    BY <1>2, <2>1, <2>2 DEF Record
<1>6. Len(<<>>) = 0 /\ Short(data')
  BY <1>5, HistoryAssumption DEF Short
<1>7. Clean => data'.post = data.post
  BY <1>2, <1>5 DEF Inv, PostFits
<1>. QED
  BY <1>1, <1>2, <1>3, <1>4, <1>5, <1>6, <1>7, RunFacts, NothingSound, DataWritten

LEMMA ClearDataInv == ASSUME Inv, NEW r \in Runs, ClearData(r) PROVE Inv'
<1>1. /\ run' = [run EXCEPT ![r] = NoRun] /\ run[r].pc = "clearData" /\ data' = NoData
      /\ UNCHANGED <<now, role, task, work, asked, screen, sent, overlapped, crossed, stage, faults>>
      /\ UNCHANGED <<cooldown, window, quota, bonusAt, passes, requests, granted, charged, published>>
  BY DEF ClearData, At, End, Goes, OnlyFsm, Others, redis, row, limitsHistory, postHistory
<1>2. Steps(r, NoRun)
  BY <1>1, NoRunFacts DEF Steps
<1>3. LimitsSame(NoRun) /\ QuotaSame(r, NoRun) /\ NumbersSame(r, NoRun)
  BY <1>1, NoRunFacts DEF LimitsSame, QuotaSame, NumbersSame, Loaded, Asking
<1>4. Len(<<>>) = 0 /\ Short(data')
  BY <1>1, NoRunFacts, HistoryAssumption DEF Short
<1>. QED
  BY <1>1, <1>2, <1>3, <1>4, NoRunFacts, NothingSound, DataWritten

\* The question goes behind the turns read before it was published, where no
\* answer to it can have been.
LEMMA SetDataInv == ASSUME Inv, NEW r \in Runs, SetData(r) PROVE Inv'
<1>. DEFINE h == Append(run[r].history, run[r].q)
<1>1. /\ run' = [run EXCEPT ![r] = NoRun] /\ run[r].pc = "set"
      /\ data' = [run[r].data EXCEPT !.history = h]
      /\ UNCHANGED <<now, role, task, work, asked, screen, sent, overlapped, crossed, stage, faults>>
      /\ UNCHANGED <<cooldown, window, quota, bonusAt, passes, requests, granted, charged, published>>
  BY DEF SetData, At, End, Goes, OnlyFsm, Others, redis, row, limitsHistory, postHistory
<1>2. Steps(r, NoRun)
  BY <1>1, NoRunFacts DEF Steps
<1>3. LimitsSame(NoRun) /\ QuotaSame(r, NoRun) /\ NumbersSame(r, NoRun)
  BY <1>1, NoRunFacts DEF LimitsSame, QuotaSame, NumbersSame, Loaded, Asking
<1>4. /\ run[r].q \in Questions /\ Unanswered(run[r].history, run[r].q)
      /\ run[r].history \in Seq(Turns) /\ Sound(run[r].history)
      /\ Len(run[r].history) <= KeepTurns
  BY <1>1, RunFacts DEF Inv, Histories, RunRecord
<1>5. h \in Seq(Turns) /\ Len(h) = Len(run[r].history) + 1 /\ Sound(h)
  BY <1>4, AppendQuestion DEF Sound
<1>. HIDE DEF h
<1>6. data' \in Record /\ data'.history = h /\ data'.post = run[r].data.post
  <2>1. run[r].data \in Record
    BY RunFacts DEF RunRecord
  <2>. QED
    BY <1>1, <1>5, <2>1 DEF Record
<1>7. Short(data')
  BY <1>4, <1>5, <1>6, HistoryAssumption DEF Short
<1>8. Clean => data'.post = data.post
  BY <1>1, <1>6 DEF Inv, PostFits
<1>. QED
  BY <1>1, <1>2, <1>3, <1>5, <1>6, <1>7, <1>8, NoRunFacts, NothingSound, DataWritten

\* A write of the quota: the one that was loaded, and what is added to it.
LEMMA QuotaWritten ==
  ASSUME Inv, NEW r, NEW L, Steps(r, L), LimitsSame(L), NumbersSame(r, L), HistoriesSame(L),
         PostSame(L), quota' \in Nat, granted' \in Int, charged' \in Nat, charged <= charged',
         bonusAt' \in 0..MaxTime \cup {Never},
         Limited /\ L.pc \in {"read", "publish"} => charged' = charged + 1,
         Loaded(L) => L.quota >= 0 /\ (~overlapped => L.quota = quota'),
         ~overlapped => quota' = quota + (granted' - granted) - (charged' - charged),
         UNCHANGED <<role, published, stage>>
  PROVE  Inv'
<1>. USE DEF Inv
<1>1. run'[r] = L /\ \A s \in Runs \ {r} : run'[s] = run[s]
  BY StepsRun
<1>2. TypeOK' /\ Flags' /\ overlapped' = overlapped
  BY StepsRun DEF TypeOK, Flags, LimitsSame, NumbersSame, HistoriesSame, PostSame
<1>3. Limited' => published' + Cardinality(Paid') <= charged'
  <2>. SUFFICES ASSUME Limited PROVE published + Cardinality(Paid') <= charged'
    BY DEF Limited
  <2>1. Paid' \subseteq Paid \cup {r} /\ Paid \subseteq Runs /\ Paid' \subseteq Runs
    BY <1>1 DEF Paid
  <2>2. /\ published \in Nat /\ charged \in Nat /\ published + Cardinality(Paid) <= charged
        /\ Cardinality(Paid) \in Nat /\ Cardinality(Paid') \in Nat /\ IsFiniteSet(Paid)
    BY <2>1, RunsFinite DEF QuotaFits, TypeOK
  <2>3. CASE r \in Paid'
    <3>1. charged' = charged + 1
      BY <1>1, <2>3 DEF Paid
    <3>2. IsFiniteSet(Paid \cup {r}) /\ Cardinality(Paid \cup {r}) \in {Cardinality(Paid), Cardinality(Paid) + 1}
      BY <2>2, FS_AddElement
    <3>3. Cardinality(Paid') <= Cardinality(Paid \cup {r})
      BY <2>1, <3>2, FS_Subset
    <3>. QED
      BY <2>2, <3>1, <3>2, <3>3
  <2>4. CASE r \notin Paid'
    <3>1. Paid' \subseteq Paid
      BY <2>1, <2>4
    <3>2. Cardinality(Paid') <= Cardinality(Paid)
      BY <2>2, <3>1, FS_Subset
    <3>. QED
      BY <2>2, <3>2
  <2>. QED
    BY <2>3, <2>4
<1>4. QuotaFits'
  <2>1. \A s \in Runs : Loaded(run'[s]) => run'[s].quota >= 0
    BY <1>1 DEF QuotaFits
  <2>2. ~overlapped => quota' = StartQuota + granted' - charged'
    <3>1. quota \in Int /\ granted \in Int /\ charged \in Int
      BY DEF TypeOK
    <3>. SUFFICES ASSUME ~overlapped PROVE quota' = StartQuota + granted' - charged'
      OBVIOUS
    <3>2. quota = StartQuota + granted - charged
      BY DEF QuotaFits
    <3>3. quota' = quota + (granted' - granted) - (charged' - charged)
      OBVIOUS
    <3>4. quota' \in Int /\ granted' \in Int /\ charged' \in Int
      OBVIOUS
    <3>. QED
      BY ONLY <3>1, <3>2, <3>3, <3>4, QuotaAssumption
  <2>3. ~overlapped => \A s \in Runs : Loaded(run'[s]) => run'[s].quota = quota'
    BY <1>1 DEF Apart, Loaded, Steps
  <2>. QED
    BY <1>2, <1>3, <2>1, <2>2, <2>3 DEF QuotaFits, Loaded
<1>5. Apart'
  BY <1>2, StepsApart DEF PostSame
<1>. QED
  BY <1>2, <1>4, <1>5, StepsLimits, StepsNumbers, StepsHistories, StepsPost

LEMMA PayGiftInv == ASSUME Inv, NEW r \in Runs, PayGift(r) PROVE Inv'
<1>. DEFINE L == IF run[r].gift = Bonus THEN [run[r] EXCEPT !.pc = "enter"] ELSE NoRun
<1>1. /\ run' = [run EXCEPT ![r] = L] /\ run[r].pc = "gift"
      /\ quota' = run[r].quota + run[r].gift /\ granted' = granted + run[r].gift
      /\ bonusAt' \in {now, bonusAt}
      /\ UNCHANGED <<now, role, task, work, asked, screen, sent, overlapped, crossed, stage, data>>
      /\ UNCHANGED <<cooldown, window, passes, requests, published, charged, faults>>
  BY DEF PayGift, At, Goto, Goes, End, OnlyRow, Others, redis, row, postHistory
<1>2. /\ L \in RunRecord /\ Short(L.data) /\ Len(L.history) <= KeepTurns
      /\ L.pc \in {"enter", "idle"} /\ Sound(L.history) /\ Sound(L.data.history)
  <2>1. [run[r] EXCEPT !.pc = "enter"] \in RunRecord
    BY RunFacts, ZenonT(60) DEF RunRecord
  <2>2. /\ [run[r] EXCEPT !.pc = "enter"].data = run[r].data
        /\ [run[r] EXCEPT !.pc = "enter"].history = run[r].history
        /\ [run[r] EXCEPT !.pc = "enter"].pc = "enter"
    BY RunFacts DEF RunRecord
  <2>. QED
    BY <2>1, <2>2, RunFacts, NoRunFacts, NothingSound
<1>. HIDE DEF L
<1>3. Steps(r, L)
  BY <1>1, <1>2 DEF Steps
<1>4. LimitsSame(L) /\ NumbersSame(r, L) /\ HistoriesSame(L) /\ PostSame(L)
  BY <1>1, <1>2 DEF LimitsSame, NumbersSame, HistoriesSame, PostSame, Asking, Inv, Flags
<1>5. /\ run[r].quota \in Nat /\ run[r].gift \in Nat /\ quota \in Int /\ granted \in Int
      /\ charged \in Nat /\ now \in 0..MaxTime /\ bonusAt \in 0..MaxTime \cup {Never}
  BY <1>1, RunFacts DEF RunRecord, Inv, TypeOK, QuotaFits, Loaded
<1>6. quota' \in Nat /\ granted' \in Int /\ bonusAt' \in 0..MaxTime \cup {Never}
  BY <1>1, <1>5
<1>7. ~overlapped => quota' = quota + (granted' - granted) - (charged' - charged)
  <2>. SUFFICES ASSUME ~overlapped
                PROVE  quota' = quota + (granted' - granted) - (charged' - charged)
    OBVIOUS
  <2>1. run[r].quota = quota
    BY <1>1 DEF Inv, QuotaFits, Loaded
  <2>2. PICK g \in Nat : g = run[r].gift
    BY <1>5
  <2>3. quota' = quota + g /\ granted' = granted + g /\ charged' = charged
    BY <1>1, <2>1, <2>2
  <2>. QED
    BY ONLY <1>5, <2>2, <2>3
<1>. QED
  BY <1>1, <1>2, <1>3, <1>4, <1>5, <1>6, <1>7, QuotaWritten DEF Loaded

LEMMA TopUpInv == ASSUME Inv, NEW r \in Runs, TopUp(r) PROVE Inv'
<1>. DEFINE low == run[r].quota < StartQuota
            n == IF low THEN StartQuota ELSE run[r].quota
            L == [run[r] EXCEPT !.pc = "charge", !.quota = n]
<1>0. /\ run[r] \in RunRecord /\ run[r].quota \in Int /\ quota \in Int /\ granted \in Int
      /\ charged \in Nat /\ StartQuota \in Nat
  BY RunFacts, QuotaAssumption DEF RunRecord, Inv, TypeOK
<1>1. /\ run' = [run EXCEPT ![r] = L] /\ run[r].pc = "topUp"
      /\ quota' = IF low THEN StartQuota ELSE quota
      /\ granted' = granted + IF low THEN StartQuota - run[r].quota ELSE 0
      /\ bonusAt' = Never
      /\ UNCHANGED <<now, role, task, work, asked, screen, sent, overlapped, crossed, stage, data>>
      /\ UNCHANGED <<cooldown, window, passes, requests, published, charged, faults>>
  BY DEF TopUp, At, Goes, OnlyRow, Others, redis, row, postHistory
<1>2. n \in Nat
  BY <1>0, <1>1 DEF Inv, QuotaFits, Loaded
<1>. HIDE DEF n
<1>3. /\ L \in RunRecord /\ L.pc = "charge" /\ L.quota = n /\ L.q = run[r].q
      /\ L.history = run[r].history /\ L.data = run[r].data
  <2>1. n \in Int
    BY <1>2
  <2>. QED
    BY <2>1, RunFacts, ZenonT(60) DEF RunRecord
<1>. HIDE DEF L
<1>4. Steps(r, L)
  BY <1>1, <1>3, RunFacts DEF Steps
<1>5. LimitsSame(L) /\ NumbersSame(r, L) /\ HistoriesSame(L) /\ PostSame(L)
  BY <1>1, <1>3, RunFacts DEF LimitsSame, NumbersSame, HistoriesSame, PostSame, Asking, Inv, Flags
<1>6. quota' \in Nat /\ granted' \in Int
  BY <1>0, <1>1 DEF Inv, QuotaFits
<1>7. ~overlapped => n = quota' /\ quota' = quota + (granted' - granted) - (charged' - charged)
  <2>. SUFFICES ASSUME ~overlapped
                PROVE  n = quota' /\ quota' = quota + (granted' - granted) - (charged' - charged)
    OBVIOUS
  <2>1. run[r].quota = quota
    BY <1>1 DEF Inv, QuotaFits, Loaded
  <2>2. CASE low
    BY <1>0, <1>1, <2>1, <2>2 DEF n
  <2>3. CASE ~low
    BY <1>0, <1>1, <2>1, <2>3 DEF n
  <2>. QED
    BY <2>2, <2>3
<1>8. /\ L.pc \notin {"read", "publish"}
      /\ L.quota >= 0 /\ (~overlapped => L.quota = quota')
      /\ bonusAt' \in 0..MaxTime \cup {Never} /\ charged' \in Nat /\ charged <= charged'
  BY <1>0, <1>1, <1>2, <1>3, <1>7
<1>. HIDE DEF low
<1>. QED
  BY <1>1, <1>4, <1>5, <1>6, <1>7, <1>8, QuotaWritten

LEMMA ChargeInv == ASSUME Inv, NEW r \in Runs, Charge(r) PROVE Inv'
<1>0. /\ run[r] \in RunRecord /\ run[r].quota \in Int /\ quota \in Int /\ granted \in Int
      /\ charged \in Nat /\ run[r].pc = "charge"
  BY RunFacts DEF RunRecord, Inv, TypeOK, Charge, At
<1>1. CASE run[r].quota <= 0
  <2>1. Goto(r, "clear") /\ Still
    BY <1>1 DEF Charge, Still, OnlyRow, Others, redis, row, postHistory, Inv, TypeOK, Flags
  <2>. QED
    BY <1>0, <2>1, GotoInv DEF Asking
<1>2. CASE ~(run[r].quota <= 0)
  <2>. DEFINE L == [run[r] EXCEPT !.pc = "read"]
  <2>1. /\ run' = [run EXCEPT ![r] = L]
        /\ quota' = run[r].quota - 1 /\ charged' = charged + 1
        /\ UNCHANGED <<now, role, task, work, asked, screen, sent, overlapped, crossed, stage, data>>
        /\ UNCHANGED <<cooldown, window, passes, requests, published, granted, bonusAt, faults>>
    BY <1>2 DEF Charge, Goto, Goes, OnlyRow, Others, redis, row, postHistory
  <2>2. /\ L \in RunRecord /\ L.pc = "read" /\ L.q = run[r].q
        /\ L.history = run[r].history /\ L.data = run[r].data
    BY RunFacts, ZenonT(60) DEF RunRecord
  <2>. HIDE DEF L
  <2>3. Steps(r, L)
    BY <1>0, <2>1, <2>2, RunFacts DEF Steps
  <2>4. LimitsSame(L) /\ NumbersSame(r, L) /\ HistoriesSame(L) /\ PostSame(L)
    BY <1>0, <2>1, <2>2, RunFacts
       DEF LimitsSame, NumbersSame, HistoriesSame, PostSame, Asking, Inv, Flags
  <2>5. quota' \in Nat /\ granted' \in Int /\ charged' \in Nat /\ charged <= charged'
        /\ bonusAt' \in 0..MaxTime \cup {Never}
    BY <1>0, <1>2, <2>1 DEF Inv, TypeOK
  <2>6. ~overlapped => quota' = quota + (granted' - granted) - (charged' - charged)
    <3>. SUFFICES ASSUME ~overlapped
                  PROVE  quota' = quota + (granted' - granted) - (charged' - charged)
      OBVIOUS
    <3>1. run[r].quota = quota
      BY <1>0 DEF Inv, QuotaFits, Loaded
    <3>. QED
      BY <1>0, <2>1, <3>1
  <2>7. ~Loaded(L)
    BY <2>2 DEF Loaded
  <2>. QED
    BY <2>1, <2>3, <2>4, <2>5, <2>6, <2>7, QuotaWritten
<1>. QED
  BY <1>1, <1>2

\* A step on the limits in Redis.
LEMMA LimitsWritten ==
  ASSUME Inv, NEW r, NEW L, Steps(r, L), QuotaSame(r, L), NumbersSame(r, L), HistoriesSame(L),
         PostSame(L), (KeyLasts /\ CooldownHolds /\ WindowKept /\ WindowFits)',
         cooldown' \in Nat, window' \subseteq Members, requests' \subseteq Members,
         passes' \in Seq(0..MaxTime), UNCHANGED <<now, stage, bonusAt>>
  PROVE  Inv'
<1>1. TypeOK' /\ Flags'
  BY StepsRun DEF Inv, TypeOK, Flags, QuotaSame, NumbersSame, HistoriesSame, PostSame
<1>2. Apart'
  BY StepsApart DEF PostSame
<1>. QED
  BY <1>1, <1>2, StepsQuota, StepsNumbers, StepsHistories, StepsPost DEF Inv

LEMMA TakeCooldownInv == ASSUME Inv, NEW r \in Runs, TakeCooldown(r) PROVE Inv'
<1>0. run[r].pc = "limits"
  BY DEF TakeCooldown, At
<1>1. CASE ~(now >= cooldown)
  <2>1. End(r) /\ Still
    BY <1>1 DEF TakeCooldown, Still, OnlyRedis, Others, redis, row, postHistory, Inv, TypeOK, Flags
  <2>. QED
    BY <1>0, <2>1, EndInv
<1>2. CASE now >= cooldown
  <2>. DEFINE L == [run[r] EXCEPT !.pc = "count"]
  <2>1. /\ run' = [run EXCEPT ![r] = L]
        /\ cooldown' = now + Cooldown /\ passes' = Append(passes, now)
        /\ UNCHANGED <<now, role, task, work, asked, screen, sent, overlapped, crossed, stage, data>>
        /\ UNCHANGED <<window, quota, bonusAt, requests, granted, charged, published, faults>>
    BY <1>2 DEF TakeCooldown, Goto, Goes, OnlyRedis, Others, redis, row, postHistory
  <2>2. /\ L \in RunRecord /\ L.pc = "count" /\ L.q = run[r].q
        /\ L.history = run[r].history /\ L.data = run[r].data
    BY RunFacts, ZenonT(60) DEF RunRecord
  <2>. HIDE DEF L
  <2>3. Steps(r, L)
    BY <1>0, <2>1, <2>2, RunFacts DEF Steps
  <2>4. QuotaSame(r, L) /\ NumbersSame(r, L) /\ HistoriesSame(L) /\ PostSame(L)
    BY <1>0, <2>1, <2>2, RunFacts
       DEF QuotaSame, Loaded, NumbersSame, HistoriesSame, PostSame, Asking, Inv, Flags
  <2>5. /\ now \in 0..MaxTime /\ now \in Nat /\ cooldown \in Nat /\ Cooldown \in Nat
        /\ passes \in Seq(0..MaxTime) /\ requests \subseteq Members /\ window \subseteq Members
    BY LimitsAssumption, BoundsAssumption DEF Inv, TypeOK
  <2>. DEFINE n == Len(passes)
  <2>6. /\ n \in Nat /\ passes' \in Seq(0..MaxTime) /\ Len(passes') = n + 1
        /\ passes'[n + 1] = now /\ \A i \in 1..n : passes'[i] = passes[i] /\ passes[i] \in Nat
    BY <2>1, <2>5, BoundsAssumption
  <2>. HIDE DEF n
  <2>7. \A i \in 1..n : passes[i] + Cooldown <= now
    <3>1. \A i \in 1..n : passes[i] + Cooldown <= cooldown
      BY DEF Inv, KeyLasts, n
    <3>. QED
      BY <1>2, <2>5, <2>6, <3>1
  <2>8. KeyLasts'
    <3>. SUFFICES ASSUME NEW i \in 1..n + 1 PROVE passes'[i] + Cooldown <= cooldown'
      BY <2>6 DEF KeyLasts
    <3>1. CASE i \in 1..n
      <4>1. PICK p \in Nat : p = passes[i]
        BY <2>6, <3>1
      <4>2. passes'[i] = p /\ p + Cooldown <= now
        BY <2>6, <2>7, <3>1, <4>1
      <4>. QED
        BY <2>1, <2>5, <4>1, <4>2
    <3>2. CASE i = n + 1
      BY <2>1, <2>5, <2>6, <3>2
    <3>. QED
      BY <2>6, <3>1, <3>2
  <2>9. CooldownHolds'
    <3>. SUFFICES ASSUME NEW i \in 1..n + 1, NEW j \in 1..n + 1, i < j
                  PROVE  passes'[j] - passes'[i] >= Cooldown
      BY <2>6 DEF CooldownHolds
    <3>1. i \in 1..n
      BY <2>6
    <3>2. CASE j \in 1..n
      <4>1. passes[j] - passes[i] >= Cooldown
        BY <3>1, <3>2 DEF Inv, CooldownHolds, n
      <4>. QED
        BY <2>6, <3>1, <3>2, <4>1
    <3>3. CASE j = n + 1
      <4>1. PICK p \in Nat : p = passes[i]
        BY <2>6, <3>1
      <4>2. p + Cooldown <= now /\ passes'[i] = p /\ passes'[j] = now
        BY <2>6, <2>7, <3>1, <3>3, <4>1
      <4>. QED
        BY <2>5, <4>1, <4>2
    <3>. QED
      BY <2>6, <3>2, <3>3
  <2>10. (WindowKept /\ WindowFits)'
    <3>1. run'[r] = L /\ \A s \in Runs \ {r} : run'[s] = run[s]
      BY <2>3, StepsRun
    <3>2. WindowKept'
      BY <2>1, <2>2, <3>1 DEF Inv, WindowKept
    <3>3. \A t : Adding(t)' = Adding(t) /\ Within(t)' = Within(t) /\ Limit' = Limit
      BY <1>0, <2>1, <2>2, <3>1 DEF Adding, Within, Limit
    <3>. QED
      BY <3>2, <3>3 DEF Inv, WindowFits
  <2>11. cooldown' \in Nat
    BY <2>1, <2>5
  <2>. QED
    BY <2>1, <2>3, <2>4, <2>5, <2>6, <2>8, <2>9, <2>10, <2>11, LimitsWritten
<1>. QED
  BY <1>1, <1>2

\* Who counts fewer requests than allowed may add one; the handlers that have
\* counted before and not added yet are other ones, so they overlap with it.
LEMMA CountRequestsInv == ASSUME Inv, NEW r \in Runs, CountRequests(r) PROVE Inv'
<1>. DEFINE L == IF Cardinality(window') >= MaxRequests THEN NoRun
                 ELSE [run[r] EXCEPT !.pc = "add", !.at = now]
<1>1. /\ run' = [run EXCEPT ![r] = L] /\ run[r].pc = "count"
      /\ window' = {m \in window : m.at > now - Window}
      /\ UNCHANGED <<now, role, task, work, asked, screen, sent, overlapped, crossed, stage, data>>
      /\ UNCHANGED <<cooldown, quota, bonusAt, passes, requests, granted, charged, published>>
      /\ UNCHANGED faults
  BY DEF CountRequests, At, Goes, End, OnlyRedis, Others, redis, row, postHistory, Purged
<1>2. /\ now \in 0..MaxTime /\ now \in Nat /\ Window \in Nat \ {0} /\ MaxRequests \in Nat \ {0}
      /\ requests \subseteq Members /\ window \subseteq requests
  BY LimitsAssumption, BoundsAssumption DEF Inv, TypeOK, WindowKept
<1>3. /\ L \in RunRecord /\ Short(L.data) /\ Len(L.history) <= KeepTurns
      /\ Sound(L.history) /\ Sound(L.data.history) /\ L.pc \in {"idle", "add"}
      /\ L.pc = "add" => /\ L.q = run[r].q /\ L.at = now
                         /\ ~(Cardinality(window') >= MaxRequests)
  <2>. DEFINE M == [run[r] EXCEPT !.pc = "add", !.at = now]
  <2>1. /\ M \in RunRecord /\ M.pc = "add" /\ M.at = now /\ M.q = run[r].q
        /\ M.history = run[r].history /\ M.data = run[r].data
    BY <1>2, RunFacts, ZenonT(60) DEF RunRecord
  <2>. HIDE DEF M
  <2>2. L = IF Cardinality(window') >= MaxRequests THEN NoRun ELSE M
    BY DEF M
  <2>. HIDE DEF L
  <2>. QED
    BY <2>1, <2>2, RunFacts, NoRunFacts, NothingSound
<1>. HIDE DEF L
<1>4. Steps(r, L)
  BY <1>1, <1>3 DEF Steps
<1>5. QuotaSame(r, L) /\ NumbersSame(r, L) /\ HistoriesSame(L) /\ PostSame(L)
  BY <1>1, <1>3 DEF QuotaSame, Loaded, NumbersSame, HistoriesSame, PostSame, Asking, Inv, Flags
<1>6. run'[r] = L /\ \A s \in Runs \ {r} : run'[s] = run[s]
  BY <1>4, StepsRun
<1>7. (KeyLasts /\ CooldownHolds)'
  BY <1>1 DEF Inv, KeyLasts, CooldownHolds
<1>8. WindowKept'
  <2>1. window' \subseteq requests
    BY <1>1, <1>2
  <2>2. \A m \in requests : m.at \in Nat
    BY <1>2, BoundsAssumption DEF Members
  <2>3. \A m \in requests : m.at <= now /\ (m \notin window' => m.at <= now - Window)
    BY <1>1, <1>2, <2>2 DEF Inv, WindowKept
  <2>4. \A s \in Runs : run'[s].pc = "add" => run'[s].at <= now
    BY <1>2, <1>3, <1>6 DEF Inv, WindowKept
  <2>. QED
    BY <1>1, <2>1, <2>3, <2>4 DEF WindowKept
<1>9. WindowFits'
  <2>. SUFFICES ASSUME NEW t \in 0..MaxTime
                PROVE  Cardinality(Within(t)') + Cardinality(Adding(t)') <= Limit'
    BY DEF WindowFits
  <2>1. Within(t)' = Within(t) /\ Limit' = Limit
    BY <1>1 DEF Within, Limit
  <2>2. /\ Adding(t) \subseteq Runs /\ Adding(t)' \subseteq Runs
        /\ Within(t) \subseteq Members /\ window' \subseteq Members
    BY <1>1, <1>2 DEF Adding, Within
  <2>3. /\ Cardinality(Adding(t)) \in Nat /\ Cardinality(Adding(t)') \in Nat
        /\ Cardinality(Within(t)) \in Nat /\ Limit \in Int /\ IsFiniteSet(window')
        /\ Cardinality(window') \in Nat /\ Cardinality(Runs) \in Nat
    BY <2>2, RunsFinite, MembersFinite, LimitsAssumption DEF Limit
  <2>4. CASE r \notin Adding(t)'
    <3>1. Adding(t)' \subseteq Adding(t)
      BY <1>6, <2>4 DEF Adding
    <3>2. Cardinality(Adding(t)') <= Cardinality(Adding(t))
      BY <3>1, AddingShrinks
    <3>3. Cardinality(Within(t)) + Cardinality(Adding(t)) <= Limit
      BY DEF Inv, WindowFits
    <3>. QED
      BY <2>1, <2>3, <3>2, <3>3
  <2>5. CASE r \in Adding(t)'
    <3>1. L.pc = "add" /\ now <= t /\ ~(Cardinality(window') >= MaxRequests)
      BY <1>3, <1>6, <2>5 DEF Adding
    <3>2. Within(t) \subseteq window'
      <4>. SUFFICES ASSUME NEW m \in requests, m.at > t - Window PROVE m \in window'
        BY DEF Within
      <4>1. m.at \in Nat
        BY <1>2, BoundsAssumption DEF Members
      <4>2. m.at > now - Window
        BY <1>2, <3>1, <4>1
      <4>3. m \in window
        BY <1>2, <4>1, <4>2 DEF Inv, WindowKept
      <4>. QED
        BY <1>1, <4>2, <4>3
    <3>3. Cardinality(Within(t)) <= Cardinality(window')
      BY <2>3, <3>2, FS_Subset
    <3>4. Cardinality(Adding(t)') <= Cardinality(Runs)
      BY <2>2, UserAssumption, FS_Subset
    <3>5. CASE overlapped
      BY <1>2, <2>1, <2>3, <3>1, <3>3, <3>4, <3>5 DEF Limit
    <3>6. CASE ~overlapped
      <4>1. Adding(t)' \subseteq {r}
        BY <1>1, <1>6, <3>6 DEF Adding, Inv, Apart
      <4>2. IsFiniteSet({r}) /\ Cardinality({r}) = 1
        BY FS_Singleton
      <4>3. Cardinality(Adding(t)') <= 1
        BY <4>1, <4>2, FS_Subset
      <4>. QED
        BY <1>2, <2>1, <2>3, <3>1, <3>3, <3>6, <4>3 DEF Limit
    <3>. QED
      BY <3>5, <3>6
  <2>. QED
    BY <2>4, <2>5
<1>10. cooldown' \in Nat /\ window' \subseteq Members /\ requests' \subseteq Members
       /\ passes' \in Seq(0..MaxTime)
  BY <1>1, <1>2 DEF Inv, TypeOK
<1>. QED
  BY <1>1, <1>4, <1>5, <1>7, <1>8, <1>9, <1>10, LimitsWritten

\* What is added was counted as about to be added.
LEMMA AddRequestInv == ASSUME Inv, NEW r \in Runs, AddRequest(r) PROVE Inv'
<1>. DEFINE m == [q |-> run[r].q, at |-> run[r].at]
            L == [run[r] EXCEPT !.pc = "user"]
<1>1. /\ run' = [run EXCEPT ![r] = L] /\ run[r].pc = "add"
      /\ window' = window \cup {m} /\ requests' = requests \cup {m}
      /\ UNCHANGED <<now, role, task, work, asked, screen, sent, overlapped, crossed, stage, data>>
      /\ UNCHANGED <<cooldown, quota, bonusAt, passes, granted, charged, published, faults>>
  BY DEF AddRequest, At, Goto, Goes, OnlyRedis, Others, redis, row, postHistory
<1>2. /\ L \in RunRecord /\ L.pc = "user" /\ L.q = run[r].q
      /\ L.history = run[r].history /\ L.data = run[r].data
  BY RunFacts, ZenonT(60) DEF RunRecord
<1>3. m \in Members /\ m.at = run[r].at /\ m.at <= now /\ m.at \in Nat
  <2>1. run[r].at \in 0..MaxTime /\ run[r].q \in Questions
    BY <1>1, RunFacts DEF RunRecord, Inv, Numbers, Asking
  <2>2. run[r].at <= now
    BY <1>1 DEF Inv, WindowKept
  <2>. QED
    BY <2>1, <2>2, BoundsAssumption DEF Members
<1>. HIDE DEF L, m
<1>4. Steps(r, L)
  BY <1>1, <1>2, RunFacts DEF Steps
<1>5. QuotaSame(r, L) /\ NumbersSame(r, L) /\ HistoriesSame(L) /\ PostSame(L)
  BY <1>1, <1>2, RunFacts
     DEF QuotaSame, Loaded, NumbersSame, HistoriesSame, PostSame, Asking, Inv, Flags
<1>6. run'[r] = L /\ \A s \in Runs \ {r} : run'[s] = run[s]
  BY <1>4, StepsRun
<1>7. (KeyLasts /\ CooldownHolds)'
  BY <1>1 DEF Inv, KeyLasts, CooldownHolds
<1>8. WindowKept'
  BY <1>1, <1>2, <1>3, <1>6 DEF Inv, WindowKept
<1>9. WindowFits'
  <2>. SUFFICES ASSUME NEW t \in 0..MaxTime
                PROVE  Cardinality(Within(t)') + Cardinality(Adding(t)') <= Limit'
    BY DEF WindowFits
  <2>1. Limit' = Limit /\ Cardinality(Within(t)) + Cardinality(Adding(t)) <= Limit
    BY <1>1 DEF Limit, Inv, WindowFits
  <2>2. Adding(t) \subseteq Runs /\ Adding(t)' \subseteq Runs /\ Within(t) \subseteq Members
    BY DEF Adding, Within, Inv, TypeOK
  <2>3. /\ Cardinality(Adding(t)) \in Nat /\ Cardinality(Adding(t)') \in Nat
        /\ IsFiniteSet(Adding(t)) /\ Limit \in Int
        /\ IsFiniteSet(Within(t)) /\ Cardinality(Within(t)) \in Nat
    BY <2>2, RunsFinite, MembersFinite, LimitsAssumption DEF Limit
  <2>4. Adding(t)' = Adding(t) \ {r}
    BY <1>1, <1>2, <1>6 DEF Adding
  <2>5. CASE r \in Adding(t)
    <3>1. Cardinality(Adding(t)') = Cardinality(Adding(t)) - 1
      BY <2>3, <2>4, <2>5, FS_RemoveElement
    <3>2. Within(t)' \subseteq Within(t) \cup {m}
      BY <1>1 DEF Within
    <3>3. /\ IsFiniteSet(Within(t) \cup {m})
          /\ Cardinality(Within(t) \cup {m}) \in {Cardinality(Within(t)), Cardinality(Within(t)) + 1}
      BY <2>3, FS_AddElement
    <3>4. Cardinality(Within(t)') <= Cardinality(Within(t) \cup {m}) /\ Cardinality(Within(t)') \in Nat
      BY <3>2, <3>3, FS_Subset, FS_CardinalityType
    <3>. QED
      BY <2>1, <2>3, <3>1, <3>3, <3>4
  <2>6. CASE r \notin Adding(t)
    <3>1. Adding(t)' = Adding(t)
      BY <2>4, <2>6
    <3>2. ~(m.at > t - Window /\ m.at <= t)
      BY <1>1, <1>3, <2>6 DEF Adding
    <3>3. Within(t)' = Within(t)
      BY <1>1, <3>2 DEF Within
    <3>. QED
      BY <2>1, <3>1, <3>3
  <2>. QED
    BY <2>5, <2>6
<1>10. cooldown' \in Nat /\ window' \subseteq Members /\ requests' \subseteq Members
       /\ passes' \in Seq(0..MaxTime)
  BY <1>1, <1>3 DEF Inv, TypeOK
<1>. QED
  BY <1>1, <1>4, <1>5, <1>7, <1>8, <1>9, <1>10, LimitsWritten

\* The question can be answered from now on; until now no history held an answer.
LEMMA PublishInv == ASSUME Inv, NEW r \in Runs, Publish(r) PROVE Inv'
<1>. DEFINE L == [run[r] EXCEPT !.pc = "get"]
            q == run[r].q
<1>1. /\ run' = [run EXCEPT ![r] = L] /\ run[r].pc = "publish"
      /\ task' = [task EXCEPT ![q] = "queued"] /\ published' = published + 1
      /\ UNCHANGED <<now, role, work, asked, screen, sent, overlapped, crossed, stage, data>>
      /\ UNCHANGED <<cooldown, window, quota, bonusAt, passes, requests, granted, charged, faults>>
  BY DEF Publish, At, Goto, Goes, redis, row, counters, postHistory
<1>2. /\ L \in RunRecord /\ L.pc = "get" /\ L.q = q
      /\ L.history = run[r].history /\ L.data = run[r].data
  BY RunFacts, ZenonT(60) DEF RunRecord
<1>3. /\ q \in Questions /\ task[q] = "none" /\ Unanswered(run[r].history, q)
      /\ q <= asked /\ \A s \in Runs \ {r} : run[s].pc \in Asking => run[s].q # q
  BY <1>1, RunFacts DEF Inv, Numbers, Asking, Sound
<1>. HIDE DEF L, q
<1>4. Steps(r, L)
  BY <1>1, <1>2, RunFacts DEF Steps
<1>5. run'[r] = L /\ \A s \in Runs \ {r} : run'[s] = run[s]
  BY <1>4, StepsRun
<1>6. LimitsSame(L) /\ PostSame(L)
  BY <1>1, <1>2 DEF LimitsSame, PostSame, Inv, Flags
<1>7. /\ task' \in [Questions -> {"none", "queued", "taken", "done"}] /\ task'[q] = "queued"
      /\ \A p \in Questions \ {q} : task'[p] = task[p]
  BY <1>1, <1>3 DEF Inv, TypeOK
<1>8. TypeOK' /\ Flags'
  BY <1>1, <1>4, <1>7, StepsRun DEF Inv, TypeOK, Flags
<1>9. QuotaFits'
  <2>1. Limited' => published' + Cardinality(Paid') <= charged'
    <3>. SUFFICES ASSUME Limited PROVE published + 1 + Cardinality(Paid') <= charged
      BY <1>1 DEF Limited
    <3>1. Paid' = Paid \ {r} /\ r \in Paid /\ Paid \subseteq Runs
      BY <1>1, <1>2, <1>5 DEF Paid
    <3>2. IsFiniteSet(Paid) /\ Cardinality(Paid) \in Nat /\ published \in Nat /\ charged \in Nat
      BY <3>1, RunsFinite DEF Inv, TypeOK
    <3>3. Cardinality(Paid') = Cardinality(Paid) - 1
      BY <3>1, <3>2, FS_RemoveElement
    <3>4. published + Cardinality(Paid) <= charged
      BY DEF Inv, QuotaFits
    <3>. QED
      BY <3>2, <3>3, <3>4
  <2>. QED
    BY <1>1, <1>2, <1>5, <2>1 DEF Inv, QuotaFits, Loaded
<1>10. Numbers'
  <2>1. \A p \in Questions : p > asked' => task'[p] = "none"
    <3>. SUFFICES ASSUME NEW p \in Questions, p > asked PROVE task'[p] = "none"
      BY <1>1
    <3>1. p # q
      BY <1>3, BoundsAssumption DEF Inv, TypeOK, Questions
    <3>. QED
      BY <1>7, <3>1 DEF Inv, Numbers
  <2>2. \A s \in Runs : run'[s].pc \in Asking => s # r /\ run'[s] = run[s]
    BY <1>2, <1>5 DEF Asking
  <2>3. \A s \in Runs : run'[s].pc \in Asking =>
          run'[s].q \in Questions /\ run'[s].q <= asked' /\ task'[run'[s].q] = "none"
    BY <1>1, <1>3, <1>7, <2>2 DEF Inv, Numbers
  <2>4. \A w \in Deliveries : work'[w].pc # "idle" =>
          work'[w].q \in Questions /\ task'[work'[w].q] # "none"
    BY <1>1, <1>7 DEF Inv, Numbers
  <2>. QED
    BY <2>1, <2>2, <2>3, <2>4 DEF Inv, Numbers
<1>11. Histories'
  <2>1. \A h : Sound(h) => Sound(h)'
    BY <1>7 DEF Sound
  <2>. QED
    BY <1>1, <1>2, <1>3, <1>5, <2>1 DEF Inv, Histories, Sound
<1>. QED
  BY <1>1, <1>4, <1>6, <1>8, <1>9, <1>10, <1>11, StepsApart, StepsLimits, StepsPost DEF Inv

-----------------------------------------------------------------------------
(***************************************************************************)
(* Updates from the user.                                                  *)
(***************************************************************************)

\* A handler begins; it has read nothing and asks at most a new question.
LEMMA BeginInv ==
  ASSUME Inv, NEW r \in Runs, NEW L \in RunRecord, Begin(r, L),
         L.history = <<>>, L.data = NoData,
         L.pc \in {"idle", "context", "enter", "clear", "checkout", "buyer", "limits", "voice"},
         \/ asked' = asked /\ L.pc \notin Asking
         \/ asked < MaxQuestions /\ asked' = asked + 1 /\ L.q = asked + 1,
         screen' \in {0, screen}, sent'.post \in 0..MaxQuestions, BroadcastsShownPost'
  PROVE  Inv'
<1>1. /\ run[r].pc = "idle" /\ run' = [run EXCEPT ![r] = L]
      /\ overlapped' = (overlapped \/ Busy(run)) /\ crossed' = (crossed \/ Busy(work))
      /\ UNCHANGED <<now, role, stage, data, task, work, faults>>
      /\ UNCHANGED <<cooldown, window, quota, bonusAt, passes, requests, granted, charged, published>>
  BY DEF Begin, redis, row, limitsHistory
<1>2. /\ run' \in [Runs -> RunRecord] /\ run'[r] = L
      /\ \A s \in Runs \ {r} : run'[s] = run[s]
  BY <1>1, RunFacts
<1>3. Short(L.data) /\ Len(L.history) <= KeepTurns /\ Sound(L.history) /\ Sound(L.data.history)
  BY NoRunFacts, NothingSound
<1>4. asked \in 0..MaxQuestions /\ asked' \in 0..MaxQuestions
  BY BoundsAssumption DEF Inv, TypeOK
<1>5. Busy(run) \in BOOLEAN /\ Busy(work) \in BOOLEAN
  BY DEF Busy
<1>6. overlapped' \in BOOLEAN /\ crossed' \in BOOLEAN
  BY <1>1, <1>5, Zenon DEF Inv, Flags
<1>7. /\ ~overlapped' => ~overlapped /\ \A s \in Runs : run[s].pc = "idle"
      /\ ~crossed' => ~crossed /\ \A w \in Deliveries : work[w].pc = "idle"
  BY <1>1 DEF Busy, Active, Inv, TypeOK
<1>8. TypeOK' /\ Flags'
  <2>1. Flags'
    BY <1>1, <1>6 DEF Inv, Flags
  <2>2. screen' \in 0..MaxQuestions
    BY BoundsAssumption DEF Inv, TypeOK
  <2>3. \A s \in Runs : Short(run'[s].data) /\ Len(run'[s].history) <= KeepTurns
    BY <1>2, <1>3 DEF Inv, TypeOK
  <2>4. TypeOK'
    BY <1>1, <1>2, <1>4, <2>2, <2>3 DEF Inv, TypeOK
  <2>. QED
    BY <2>1, <2>4
<1>9. Apart'
  BY <1>1, <1>2, <1>7 DEF Inv, Apart
<1>10. (KeyLasts /\ CooldownHolds)'
  BY <1>1 DEF Inv, KeyLasts, CooldownHolds
<1>11. WindowKept'
  BY <1>1, <1>2 DEF Inv, WindowKept
<1>12. WindowFits'
  <2>. SUFFICES ASSUME NEW t \in 0..MaxTime
                PROVE  Cardinality(Within(t)') + Cardinality(Adding(t)') <= Limit'
    BY DEF WindowFits
  <2>1. Within(t)' = Within(t) /\ Adding(t)' = Adding(t)
    BY <1>1, <1>2 DEF Within, Adding
  <2>2. Cardinality(Runs) \in Nat /\ Cardinality(Runs) # 0
    BY UserAssumption, FS_CardinalityType, FS_EmptySet
  <2>3. Limit \in Int /\ Limit' \in Int /\ Limit <= Limit'
    BY <1>7, <2>2, LimitsAssumption DEF Limit
  <2>4. Adding(t) \subseteq Runs /\ Within(t) \subseteq Members
    BY DEF Adding, Within, Inv, TypeOK
  <2>5. Cardinality(Adding(t)) \in Nat /\ Cardinality(Within(t)) \in Nat
    BY <2>4, RunsFinite, MembersFinite
  <2>6. Cardinality(Within(t)) + Cardinality(Adding(t)) <= Limit
    BY DEF Inv, WindowFits
  <2>. QED
    BY <2>1, <2>3, <2>5, <2>6
<1>13. QuotaFits'
  <2>1. Paid' = Paid
    BY <1>1, <1>2 DEF Paid
  <2>. QED
    BY <1>1, <1>2, <1>7, <2>1 DEF Inv, QuotaFits, Loaded, Limited
<1>14. Numbers'
  <2>0. /\ asked \in Nat /\ asked <= asked' /\ asked' \in Nat
        /\ \A s \in Runs : run[s].pc \in Asking =>
             run[s].q \in Questions /\ run[s].q <= asked /\ task[run[s].q] = "none"
        /\ \A p \in Questions : p \in Nat
    BY <1>4, BoundsAssumption, TurnNumbers DEF Inv, Numbers
  <2>1. \A p \in Questions : p > asked' => task'[p] = "none"
    BY <1>1, <2>0 DEF Inv, Numbers
  <2>2. \A s \in Runs : run'[s].pc \in Asking =>
          run'[s].q \in Questions /\ run'[s].q <= asked' /\ task'[run'[s].q] = "none"
    <3>. SUFFICES ASSUME NEW s \in Runs, run'[s].pc \in Asking
                  PROVE  run'[s].q \in Questions /\ run'[s].q <= asked' /\ task[run'[s].q] = "none"
      BY <1>1
    <3>1. CASE s # r
      BY <1>2, <2>0, <3>1
    <3>2. CASE s = r
      <4>1. asked < MaxQuestions /\ asked' = asked + 1 /\ run'[s].q = asked + 1
        BY <1>2, <3>2
      <4>2. asked + 1 \in Questions
        BY <2>0, <4>1, BoundsAssumption DEF Questions
      <4>3. task[asked + 1] = "none"
        BY <2>0, <4>2 DEF Inv, Numbers
      <4>. QED
        BY <2>0, <4>1, <4>2, <4>3
    <3>. QED
      BY <3>1, <3>2
  <2>3. \A s \in Runs \ {r} :
          run[s].pc \in Asking /\ L.pc \in Asking => run[s].q # L.q
    BY <2>0
  <2>4. \A s, u \in Runs :
          run'[s].pc \in Asking /\ run'[u].pc \in Asking /\ run'[s].q = run'[u].q => s = u
    BY <1>2, <2>3 DEF Inv, Numbers
  <2>. QED
    BY <1>1, <2>1, <2>2, <2>4 DEF Inv, Numbers
<1>15. Histories'
  <2>1. \A h : Sound(h)' = Sound(h)
    BY <1>1 DEF Sound
  <2>. QED
    BY <1>1, <1>2, <1>3, <2>1 DEF Inv, Histories, Sound
<1>16. PostFits'
  <2>1. Clean' => Clean
    BY <1>1, <1>7 DEF Clean
  <2>2. Clean' => \A w \in Deliveries : work'[w].pc = "idle" /\ work[w].pc = "idle"
    BY <1>1, <1>7 DEF Clean
  <2>3. Clean' /\ screen' # 0 => data.post \in {0, screen} /\ screen' = screen
    BY <2>1, <2>2 DEF Inv, PostFits, Writes
  <2>. QED
    BY <1>1, <1>2, <2>1, <2>2, <2>3 DEF Inv, PostFits, Writes
<1>. QED
  BY <1>8, <1>9, <1>10, <1>11, <1>12, <1>13, <1>14, <1>15, <1>16 DEF Inv

LEMMA UpdatesInv == ASSUME Inv, NEW r \in Runs, Updates(r) PROVE Inv'
<1>0. /\ 0 \in 0..MaxQuestions /\ 0 \in Nat /\ Bonus \in Nat /\ 1 \in Nat
      /\ sent.post \in 0..MaxQuestions /\ BroadcastsShownPost
  BY BoundsAssumption, QuotaAssumption DEF Inv, TypeOK, PostFits
<1>1. ASSUME NEW pc \in {"context", "enter", "clear", "checkout"}, Simple(r, pc)
      PROVE  Inv'
  <2>. DEFINE L == [NoRun EXCEPT !.pc = pc]
  <2>1. L \in RunRecord /\ L.pc = pc /\ L.history = <<>> /\ L.data = NoData
    BY NoRunFacts, ZenonT(60) DEF RunRecord, NoRun
  <2>2. Begin(r, L) /\ asked' = asked /\ screen' = screen /\ sent' = sent
    BY <1>1 DEF Simple, postHistory
  <2>3. pc \notin Asking /\ BroadcastsShownPost'
    BY <1>0, <2>2 DEF Asking, BroadcastsShownPost
  <2>. HIDE DEF L
  <2>. QED
    BY <1>0, <2>1, <2>2, <2>3, BeginInv
<1>2. ASSUME NEW gift \in Nat, Begin(r, [NoRun EXCEPT !.pc = "buyer", !.gift = gift]),
             UNCHANGED <<asked, postHistory>>
      PROVE  Inv'
  <2>. DEFINE L == [NoRun EXCEPT !.pc = "buyer", !.gift = gift]
  <2>1. L \in RunRecord /\ L.pc = "buyer" /\ L.history = <<>> /\ L.data = NoData
    BY NoRunFacts DEF RunRecord, NoRun
  <2>2. Begin(r, L) /\ asked' = asked /\ screen' = screen /\ sent' = sent
    BY <1>2 DEF postHistory
  <2>3. "buyer" \notin Asking /\ BroadcastsShownPost'
    BY <1>0, <2>2 DEF Asking, BroadcastsShownPost
  <2>. HIDE DEF L
  <2>. QED
    BY <1>0, <2>1, <2>2, <2>3, BeginInv
<1>3. ASSUME NEW pc \in {"limits", "voice"}, Ask(r, pc)
      PROVE  Inv'
  <2>. DEFINE L == [NoRun EXCEPT !.pc = pc, !.q = asked + 1]
  <2>1. /\ Begin(r, L) /\ asked < MaxQuestions /\ asked' = asked + 1 /\ screen' = screen
        /\ sent' = sent
    BY <1>3 DEF Ask, postHistory
  <2>2. asked + 1 \in 0..MaxQuestions
    BY <2>1, BoundsAssumption DEF Inv, TypeOK
  <2>3. /\ L \in RunRecord /\ L.pc = pc /\ L.q = asked + 1 /\ L.history = <<>>
        /\ L.data = NoData
    BY <2>2, NoRunFacts, ZenonT(60) DEF RunRecord, NoRun
  <2>4. BroadcastsShownPost'
    BY <1>0, <2>1 DEF BroadcastsShownPost
  <2>. HIDE DEF L
  <2>. QED
    BY <1>0, <2>1, <2>3, <2>4, BeginInv
<1>4. CASE PressBroadcast(r)
  <2>1. /\ screen # 0 /\ Begin(r, NoRun) /\ asked' = asked /\ screen' = 0
        /\ sent' = [shown |-> screen, post |-> data.post,
                    sure |-> task[screen] = "done" /\ ~overlapped' /\ ~crossed' /\ faults = 0]
    BY <1>4 DEF PressBroadcast
  <2>2. sent'.post = data.post /\ sent'.shown = screen /\ data.post \in 0..MaxQuestions
    BY <2>1, RunFacts DEF Record
  <2>3. BroadcastsShownPost'
    <3>. SUFFICES ASSUME sent'.sure PROVE data.post \in {0, screen}
      BY <2>2 DEF BroadcastsShownPost
    <3>1. ~overlapped' /\ ~crossed' /\ faults = 0
      BY <2>1
    <3>2. ~overlapped /\ ~crossed /\ \A w \in Deliveries : work[w].pc = "idle"
      BY <2>1, <3>1 DEF Begin, Busy, Active, Inv, TypeOK
    <3>. QED
      BY <2>1, <3>1, <3>2 DEF Inv, PostFits, Clean, Writes
  <2>4. "idle" \notin Asking
    BY DEF Asking
  <2>. QED
    BY <2>1, <2>2, <2>3, <2>4, NoRunFacts, BeginInv
<1>. QED
  BY <1>0, <1>1, <1>2, <1>3, <1>4
     DEF Updates, StartChat, PressProvider, BackToChat, Exit, AskCheckout, LeaveCheckout, Buy,
         Grant, AskText, AskVoice

-----------------------------------------------------------------------------
(***************************************************************************)
(* The worker.                                                             *)
(***************************************************************************)

\* A step of delivery w touches neither the limits nor the quota.
LEMMA WorksInv ==
  ASSUME Inv, NEW w \in Deliveries, NEW L \in DeliveryRecord, Works(w, L), Short(L.data),
         data' \in Record, Short(data'), faults' \in Nat,
         task' \in [Questions -> {"none", "queued", "taken", "done"}],
         screen' \in 0..MaxQuestions, crossed' \in BOOLEAN,
         (Apart /\ Numbers /\ Histories /\ PostFits)'
  PROVE  Inv'
<1>1. /\ work' = [work EXCEPT ![w] = L]
      /\ UNCHANGED <<now, role, stage, run, asked, updates, sent, overlapped>>
      /\ UNCHANGED <<cooldown, window, quota, bonusAt, passes, requests, granted, charged, published>>
  BY DEF Works, redis, row, limitsHistory
<1>2. TypeOK' /\ Flags'
  BY <1>1 DEF Inv, TypeOK, Flags
<1>3. (KeyLasts /\ CooldownHolds)'
  BY <1>1 DEF Inv, KeyLasts, CooldownHolds
<1>4. (WindowKept /\ WindowFits)'
  <2>1. \A t : Within(t)' = Within(t) /\ Adding(t)' = Adding(t) /\ Limit' = Limit
    BY <1>1 DEF Within, Adding, Limit
  <2>2. WindowFits'
    BY <2>1 DEF Inv, WindowFits
  <2>. QED
    BY <1>1, <2>2 DEF Inv, WindowKept
<1>5. QuotaFits'
  <2>1. Paid' = Paid
    BY <1>1 DEF Paid
  <2>. QED
    BY <1>1, <2>1 DEF Inv, QuotaFits, Loaded, Limited
<1>. QED
  BY <1>2, <1>3, <1>4, <1>5 DEF Inv

LEMMA WorkFacts ==
  ASSUME Inv, NEW w \in Deliveries
  PROVE  /\ work \in [Deliveries -> DeliveryRecord] /\ work[w] \in DeliveryRecord
         /\ Short(work[w].data) /\ Sound(work[w].data.history)
         /\ data \in Record /\ Short(data) /\ Sound(data.history)
         /\ task \in [Questions -> {"none", "queued", "taken", "done"}]
         /\ screen \in 0..MaxQuestions /\ faults \in Nat /\ crossed \in BOOLEAN
         /\ work[w].pc # "idle" => work[w].q \in Questions /\ task[work[w].q] # "none"
         /\ work[w].pc # "idle" /\ Clean =>
              /\ \A r \in Runs : run[r].pc = "idle"
              /\ \A v \in Deliveries \ {w} : work[v].pc = "idle"
BY DEF Inv, TypeOK, Flags, Numbers, Histories, Apart, Clean

LEMMA NoDeliveryFacts ==
  /\ NoDelivery \in DeliveryRecord /\ NoDelivery.pc = "idle" /\ NoDelivery.data = NoData
  /\ NoData \in Record /\ Short(NoData) /\ Sound(NoData.history)
<1>1. NoData \in Record /\ Short(NoData) /\ Sound(NoData.history)
  BY NoRunFacts, NothingSound DEF Short
<1>2. 0 \in 0..MaxQuestions
  BY BoundsAssumption
<1>. QED
  BY <1>1, <1>2 DEF NoDelivery, DeliveryRecord

LEMMA DeliverInv == ASSUME Inv, NEW w \in Deliveries, Deliver(w) PROVE Inv'
<1>1. PICK q \in Questions :
        /\ work[w].pc = "idle" /\ task[q] = "queued" /\ task' = [task EXCEPT ![q] = "taken"]
        /\ Works(w, [NoDelivery EXCEPT !.pc = "answer", !.q = q])
        /\ crossed' = (crossed \/ Busy(run) \/ Busy(work))
        /\ UNCHANGED <<data, screen, faults>>
  BY DEF Deliver
<1>. DEFINE L == [NoDelivery EXCEPT !.pc = "answer", !.q = q]
<1>2. L \in DeliveryRecord /\ L.pc = "answer" /\ L.q = q /\ L.data = NoData
  <2>1. NoData \in Record /\ q \in 0..MaxQuestions
    BY NoDeliveryFacts, BoundsAssumption DEF Questions
  <2>. QED
    BY <2>1 DEF NoDelivery, DeliveryRecord
<1>3. Works(w, L)
  BY <1>1
<1>. HIDE DEF L
<1>4. work'[w] = L /\ (\A v \in Deliveries \ {w} : work'[v] = work[v])
      /\ UNCHANGED <<run, asked, sent, overlapped>>
  BY <1>3, WorkFacts DEF Works
<1>5. /\ task' \in [Questions -> {"none", "queued", "taken", "done"}]
      /\ \A p \in Questions : (task'[p] = "none") <=> (task[p] = "none")
  BY <1>1, WorkFacts
<1>6. Busy(run) \in BOOLEAN /\ Busy(work) \in BOOLEAN
  BY DEF Busy
<1>7. crossed' \in BOOLEAN
  BY <1>1, <1>6, Zenon DEF Inv, Flags
<1>8. ~crossed' => /\ ~crossed /\ (\A r \in Runs : run[r].pc = "idle")
                   /\ \A v \in Deliveries : work[v].pc = "idle"
  BY <1>1 DEF Busy, Active, Inv, TypeOK
<1>9. Apart'
  BY <1>4, <1>8 DEF Inv, Apart
<1>10. Numbers'
  <2>1. task[q] # "none" /\ task'[q] # "none"
    BY <1>1, <1>5
  <2>. QED
    BY <1>2, <1>4, <1>5, <2>1 DEF Inv, Numbers
<1>11. Histories'
  <2>1. \A h : Sound(h)' <=> Sound(h)
    BY <1>5 DEF Sound
  <2>. QED
    BY <1>1, <1>2, <1>4, <2>1, NoDeliveryFacts DEF Inv, Histories, Sound
<1>12. PostFits'
  BY <1>1, <1>2, <1>4, <1>8 DEF Inv, PostFits, Writes, Clean, BroadcastsShownPost
<1>. QED
  BY <1>1, <1>2, <1>3, <1>5, <1>7, <1>9, <1>10, <1>11, <1>12, WorkFacts, NoDeliveryFacts, WorksInv

\* Writes(L) after the step.
WillWrite(L) ==
  L.q = screen' /\ L.post /\ L.pc \in {"getHistory", "setHistory", "getPost", "setPost"}

\* A delivery reads or writes the record, or sends the answer.
LEMMA AnswerInv ==
  ASSUME Inv, NEW w \in Deliveries, NEW L \in DeliveryRecord, Works(w, L),
         work[w].pc # "idle", L.pc # "idle", L.q = work[w].q,
         Short(L.data), Sound(L.data.history),
         data' \in Record, Short(data'), Sound(data'.history),
         screen' \in 0..MaxQuestions, UNCHANGED <<task, crossed, faults>>,
         Clean =>
           /\ screen' # 0 => data'.post \in {0, screen'} \/ WillWrite(L)
           /\ L.pc \in {"setHistory", "setPost"} => L.data.post = data'.post
           /\ \/ L.pc \in {"getPost", "setPost"}
              \/ L.pc \in {"getHistory", "setHistory"} /\ L.post
              => WillWrite(L)
  PROVE  Inv'
<1>1. work'[w] = L /\ (\A v \in Deliveries \ {w} : work'[v] = work[v])
      /\ UNCHANGED <<run, asked, sent, overlapped>>
  BY WorkFacts DEF Works
<1>2. Clean' = Clean
  BY <1>1 DEF Clean
<1>3. Apart'
  BY <1>1 DEF Inv, Apart
<1>4. Numbers'
  BY <1>1 DEF Inv, Numbers
<1>5. Histories'
  <2>1. \A h : Sound(h)' <=> Sound(h)
    BY DEF Sound
  <2>2. Sound(data.history)' /\ Sound(L.data.history)'
    BY <2>1 DEF Sound
  <2>. QED
    BY <1>1, <2>1, <2>2 DEF Inv, Histories, Sound
<1>6. PostFits'
  <2>1. Clean => /\ \A r \in Runs : run[r].pc = "idle"
                 /\ \A v \in Deliveries \ {w} : work[v].pc = "idle"
    BY WorkFacts
  <2>2. BroadcastsShownPost'
    BY <1>1 DEF Inv, PostFits, BroadcastsShownPost
  <2>. QED
    BY <1>1, <1>2, <2>1, <2>2 DEF PostFits, Writes, WillWrite
<1>. QED
  BY <1>3, <1>4, <1>5, <1>6, WorkFacts, WorksInv

LEMMA SendInv == ASSUME Inv, NEW w \in Deliveries, Send(w) PROVE Inv'
<1>1. PICK post \in BOOLEAN :
        /\ work[w].pc = "answer" /\ screen' = IF post THEN work[w].q ELSE screen
        /\ Works(w, [work[w] EXCEPT !.pc = "getHistory", !.post = post])
        /\ UNCHANGED <<data, task, crossed, faults>>
  BY DEF Send
<1>. DEFINE L == [work[w] EXCEPT !.pc = "getHistory", !.post = post]
<1>2. /\ L \in DeliveryRecord /\ L.pc = "getHistory" /\ L.q = work[w].q /\ L.post = post
      /\ L.data = work[w].data
  BY WorkFacts DEF DeliveryRecord
<1>3. Works(w, L)
  BY <1>1
<1>. HIDE DEF L
<1>4. screen' \in 0..MaxQuestions
  BY <1>1, WorkFacts DEF DeliveryRecord
<1>5. Clean /\ ~post => (screen # 0 => data.post \in {0, screen})
  BY <1>1, WorkFacts DEF Inv, PostFits, Writes
<1>6. post => WillWrite(L)
  BY <1>1, <1>2 DEF Writes, WillWrite
<1>. QED
  BY <1>1, <1>2, <1>3, <1>4, <1>5, <1>6, WorkFacts, AnswerInv

LEMMA ReadByWorkerInv ==
  ASSUME Inv, NEW w \in Deliveries, GetHistory(w) \/ GetPost(w)
  PROVE  Inv'
<1>1. PICK pc \in {"setHistory", "setPost"} :
        /\ work[w].pc = IF pc = "setHistory" THEN "getHistory" ELSE "getPost"
        /\ Works(w, [work[w] EXCEPT !.pc = pc, !.data = data])
        /\ UNCHANGED <<data, task, screen, crossed, faults>>
  BY DEF GetHistory, GetPost
<1>. DEFINE L == [work[w] EXCEPT !.pc = pc, !.data = data]
<1>2. /\ L \in DeliveryRecord /\ L.pc = pc /\ L.q = work[w].q /\ L.post = work[w].post
      /\ L.data = data
  BY WorkFacts DEF DeliveryRecord
<1>3. Works(w, L)
  BY <1>1
<1>. HIDE DEF L
<1>4. Clean /\ screen # 0 => data.post \in {0, screen} \/ Writes(work[w])
  BY <1>1, WorkFacts DEF Inv, PostFits, Writes
<1>5. Writes(work[w]) => WillWrite(L)
  BY <1>1, <1>2 DEF Writes, WillWrite
<1>6. Clean /\ (pc = "setPost" \/ L.post) => Writes(work[w])
  BY <1>1, <1>2 DEF Inv, PostFits
<1>. QED
  BY <1>1, <1>2, <1>3, <1>4, <1>5, <1>6, WorkFacts, AnswerInv

LEMMA SetHistoryInv == ASSUME Inv, NEW w \in Deliveries, SetHistory(w) PROVE Inv'
<1>. DEFINE a == Append(work[w].data.history, -work[w].q)
            h == Trim(a, MaxHistory)
            pc == IF work[w].post THEN "getPost" ELSE "ack"
            L == [work[w] EXCEPT !.pc = pc, !.data = NoData]
<1>1. /\ work[w].pc = "setHistory" /\ data' = [work[w].data EXCEPT !.history = h]
      /\ Works(w, L) /\ UNCHANGED <<task, screen, crossed, faults>>
  BY DEF SetHistory
<1>2. pc \in {"getPost", "ack"} /\ (pc = "getPost" <=> work[w].post)
  BY WorkFacts DEF DeliveryRecord
<1>. HIDE DEF pc
<1>3. /\ L \in DeliveryRecord /\ L.pc = pc /\ L.q = work[w].q /\ L.post = work[w].post
      /\ L.data = NoData
  BY <1>2, WorkFacts, NoRunFacts, ZenonT(60) DEF DeliveryRecord
<1>. HIDE DEF L
<1>4. h \in Seq(Turns) /\ Len(h) <= MaxHistory /\ Sound(h)
  <2>1. /\ work[w].q \in Questions /\ task[work[w].q] # "none"
        /\ work[w].data.history \in Seq(Turns) /\ Sound(work[w].data.history)
    BY <1>1, WorkFacts DEF DeliveryRecord, Record
  <2>2. a \in Seq(Turns) /\ Sound(a)
    BY <2>1, AppendAnswer DEF Sound
  <2>. HIDE DEF a
  <2>. QED
    BY <2>2, TrimTurns, HistoryAssumption DEF Sound
<1>. HIDE DEF h
<1>5. data' \in Record /\ data'.history = h /\ data'.post = work[w].data.post /\ Short(data')
  <2>1. work[w].data \in Record
    BY WorkFacts DEF DeliveryRecord
  <2>. QED
    BY <1>1, <1>4, <2>1 DEF Record, Short
<1>6. Clean => data'.post = data.post
  BY <1>1, <1>5 DEF Inv, PostFits
<1>7. Clean /\ screen # 0 => data.post \in {0, screen} \/ Writes(work[w])
  BY <1>1, WorkFacts DEF Inv, PostFits, Writes
<1>8. Writes(work[w]) => WillWrite(L)
  BY <1>1, <1>2, <1>3 DEF Writes, WillWrite
<1>9. Clean /\ pc = "getPost" => Writes(work[w])
  BY <1>1, <1>2 DEF Inv, PostFits
<1>. QED
  BY <1>1, <1>2, <1>3, <1>4, <1>5, <1>6, <1>7, <1>8, <1>9, WorkFacts, NoDeliveryFacts, AnswerInv

LEMMA SetPostInv == ASSUME Inv, NEW w \in Deliveries, SetPost(w) PROVE Inv'
<1>. DEFINE L == [work[w] EXCEPT !.pc = "ack", !.data = NoData]
<1>1. /\ work[w].pc = "setPost" /\ data' = [work[w].data EXCEPT !.post = work[w].q]
      /\ Works(w, L) /\ UNCHANGED <<task, screen, crossed, faults>>
  BY DEF SetPost
<1>2. L \in DeliveryRecord /\ L.pc = "ack" /\ L.q = work[w].q /\ L.data = NoData
  <2>1. NoData \in Record /\ work[w] \in DeliveryRecord
    BY WorkFacts, NoDeliveryFacts
  <2>. QED
    BY <2>1 DEF DeliveryRecord
<1>. HIDE DEF L
<1>3. /\ data' \in Record /\ data'.history = work[w].data.history /\ data'.post = work[w].q
      /\ Short(data')
  <2>1. work[w].data \in Record /\ work[w].q \in 0..MaxQuestions
    BY WorkFacts DEF DeliveryRecord
  <2>. QED
    BY <1>1, <2>1, WorkFacts DEF Record, Short
<1>4. Clean => data'.post = screen
  BY <1>1, <1>3 DEF Inv, PostFits, Writes
<1>. QED
  BY <1>1, <1>2, <1>3, <1>4, WorkFacts, NoDeliveryFacts, AnswerInv

\* A delivery that is over has written its post, or has failed.
LEMMA OverInv == ASSUME Inv, NEW w \in Deliveries, Ack(w) \/ WorkerFails(w) PROVE Inv'
<1>1. PICK to \in {"done", "queued"} :
        /\ work[w].pc # "idle" /\ task' = [task EXCEPT ![work[w].q] = to]
        /\ (work[w].pc = "ack" /\ faults' = faults) \/ faults' = faults + 1
        /\ Works(w, NoDelivery) /\ UNCHANGED <<data, screen, crossed>>
  BY DEF Ack, WorkerFails
<1>2. /\ work'[w] = NoDelivery /\ \A v \in Deliveries \ {w} : work'[v] = work[v]
      /\ UNCHANGED <<run, asked, sent, overlapped>>
  BY <1>1, WorkFacts DEF Works
<1>3. /\ task' \in [Questions -> {"none", "queued", "taken", "done"}]
      /\ \A p \in Questions : (task'[p] = "none") <=> (task[p] = "none")
  BY <1>1, WorkFacts
<1>4. Clean' => Clean /\ work[w].pc = "ack"
  BY <1>1, <1>2, WorkFacts DEF Clean
<1>5. Apart'
  BY <1>1, <1>2, NoDeliveryFacts DEF Inv, Apart
<1>6. Numbers'
  BY <1>2, <1>3, NoDeliveryFacts DEF Inv, Numbers
<1>7. Histories'
  <2>1. \A h : Sound(h)' <=> Sound(h)
    BY <1>3 DEF Sound
  <2>. QED
    BY <1>1, <1>2, <2>1, NoDeliveryFacts DEF Inv, Histories, Sound
<1>8. PostFits'
  <2>1. Clean' => /\ \A r \in Runs : run[r].pc = "idle"
                  /\ \A v \in Deliveries \ {w} : work[v].pc = "idle"
    BY <1>1, <1>4, WorkFacts
  <2>2. Clean' /\ screen # 0 => data.post \in {0, screen}
    BY <1>4, <2>1 DEF Inv, PostFits, Writes
  <2>3. BroadcastsShownPost'
    BY <1>2 DEF Inv, PostFits, BroadcastsShownPost
  <2>. QED
    BY <1>1, <1>2, <2>1, <2>2, <2>3, NoDeliveryFacts DEF PostFits
<1>9. faults' \in Nat
  BY <1>1, WorkFacts
<1>. QED
  BY <1>1, <1>3, <1>5, <1>6, <1>7, <1>8, <1>9, WorkFacts, NoDeliveryFacts, WorksInv

-----------------------------------------------------------------------------
(***************************************************************************)
(* The invariant, and what follows from it.                                *)
(***************************************************************************)

LEMMA TickInv == ASSUME Inv, Tick PROVE Inv'
<1>1. /\ now < MaxTime /\ now' = now + 1
      /\ UNCHANGED <<role, stage, data, task, run, work, asked, screen, sent, overlapped, crossed>>
      /\ UNCHANGED <<cooldown, window, quota, bonusAt, passes, requests, granted, charged, published>>
      /\ UNCHANGED faults
  BY DEF Tick, redis, row, counters, limitsHistory, postHistory
<1>2. now \in Nat /\ now' \in 0..MaxTime /\ Window \in Nat /\ requests \subseteq Members
  BY <1>1, BoundsAssumption, LimitsAssumption DEF Inv, TypeOK
<1>3. TypeOK' /\ Flags' /\ Apart'
  BY <1>1, <1>2 DEF Inv, TypeOK, Flags, Apart
<1>4. (KeyLasts /\ CooldownHolds)'
  BY <1>1 DEF Inv, KeyLasts, CooldownHolds
<1>5. WindowKept'
  <2>1. \A m \in requests : m.at \in Nat
    BY <1>2, BoundsAssumption DEF Members
  <2>2. \A m \in requests : m.at <= now' /\ (m \notin window => m.at <= now' - Window)
    BY <1>1, <1>2, <2>1 DEF Inv, WindowKept
  <2>3. \A r \in Runs : run[r].at \in Nat
    BY BoundsAssumption DEF Inv, TypeOK, RunRecord
  <2>4. \A r \in Runs : run[r].pc = "add" => run[r].at <= now'
    BY <1>1, <1>2, <2>3 DEF Inv, WindowKept
  <2>. QED
    BY <1>1, <2>2, <2>4 DEF Inv, WindowKept
<1>6. WindowFits'
  <2>1. \A t : Within(t)' = Within(t) /\ Adding(t)' = Adding(t) /\ Limit' = Limit
    BY <1>1 DEF Within, Adding, Limit
  <2>. QED
    BY <2>1 DEF Inv, WindowFits
<1>7. QuotaFits'
  <2>1. Paid' = Paid
    BY <1>1 DEF Paid
  <2>. QED
    BY <1>1, <2>1 DEF Inv, QuotaFits, Loaded, Limited
<1>8. Numbers'
  BY <1>1 DEF Inv, Numbers
<1>9. Histories'
  BY <1>1 DEF Inv, Histories, Sound
<1>10. PostFits'
  BY <1>1 DEF Inv, PostFits, Clean, Writes, BroadcastsShownPost
<1>. QED
  BY <1>3, <1>4, <1>5, <1>6, <1>7, <1>8, <1>9, <1>10 DEF Inv

LEMMA InitInv == Init => Inv
<1>. SUFFICES ASSUME Init PROVE Inv
  OBVIOUS
<1>1. /\ 0 \in 0..MaxTime /\ 0 \in 0..MaxQuestions /\ Len(<<>>) = 0 /\ StartQuota \in Nat
      /\ MaxHistory \in Nat /\ Window \in Nat /\ MaxRequests \in Nat
  BY BoundsAssumption, QuotaAssumption, HistoryAssumption, LimitsAssumption
<1>2. /\ \A r \in Runs : run[r] = NoRun
      /\ \A w \in Deliveries : work[w] = NoDelivery
      /\ task \in [Questions -> {"none", "queued", "taken", "done"}]
      /\ run \in [Runs -> RunRecord] /\ work \in [Deliveries -> DeliveryRecord]
  BY NoRunFacts, NoDeliveryFacts DEF Init
<1>3. TypeOK
  <2>1. \A r \in Runs : Short(run[r].data) /\ Len(run[r].history) <= KeepTurns
    BY <1>2, NoRunFacts
  <2>2. \A w \in Deliveries : Short(work[w].data)
    BY <1>2, NoDeliveryFacts
  <2>3. passes \in Seq(0..MaxTime)
    BY DEF Init
  <2>. QED
    BY <1>1, <1>2, <2>1, <2>2, <2>3, NoDeliveryFacts DEF Init, TypeOK
<1>4. Flags /\ Apart
  BY <1>2, NoRunFacts, NoDeliveryFacts DEF Init, Flags, Apart
<1>5. KeyLasts /\ CooldownHolds
  BY <1>1 DEF Init, KeyLasts, CooldownHolds
<1>6. WindowKept
  BY <1>2, NoRunFacts DEF Init, WindowKept
<1>7. WindowFits
  <2>. SUFFICES ASSUME NEW t \in 0..MaxTime
                PROVE  Cardinality(Within(t)) + Cardinality(Adding(t)) <= Limit
    BY DEF WindowFits
  <2>1. Within(t) = {} /\ Adding(t) = {}
    BY <1>2, NoRunFacts DEF Init, Within, Adding
  <2>2. Cardinality({}) = 0 /\ ~overlapped
    BY FS_EmptySet DEF Init
  <2>. QED
    BY <1>1, <2>1, <2>2 DEF Limit
<1>8. QuotaFits
  <2>1. Paid = {} /\ Cardinality({}) = 0
    BY <1>2, NoRunFacts, FS_EmptySet DEF Paid
  <2>2. \A r \in Runs : ~Loaded(run[r])
    BY <1>2, NoRunFacts DEF Loaded
  <2>. QED
    BY <1>1, <2>1, <2>2 DEF Init, QuotaFits
<1>9. Numbers
  BY <1>2, NoRunFacts, NoDeliveryFacts DEF Init, Numbers, Asking
<1>10. Histories
  BY <1>2, NoRunFacts, NoDeliveryFacts, NothingSound DEF Init, Histories
<1>11. PostFits
  BY <1>2, NoRunFacts, NoDeliveryFacts DEF Init, PostFits, BroadcastsShownPost
<1>. QED
  BY <1>3, <1>4, <1>5, <1>6, <1>7, <1>8, <1>9, <1>10, <1>11 DEF Inv

LEMMA NextInv == Inv /\ [Next]_vars => Inv'
<1>. SUFFICES ASSUME Inv, [Next]_vars PROVE Inv'
  OBVIOUS
<1>1. ASSUME NEW r \in Runs, Handling(r) PROVE Inv'
  BY <1>1, ReadContextInv, WriteSessionInv, PassingInv, ClearDataInv, LoadInv, PayGiftInv,
     TakeCooldownInv, CountRequestsInv, AddRequestInv, TopUpInv, ChargeInv, ReadHistoryInv,
     PublishInv, GetDataInv, SetDataInv, Zenon DEF Handling
<1>2. ASSUME NEW w \in Deliveries, Answering(w) PROVE Inv'
  BY <1>2, DeliverInv, SendInv, ReadByWorkerInv, SetHistoryInv, SetPostInv, OverInv, Zenon
     DEF Answering
<1>3. CASE UNCHANGED vars
  <2>1. UNCHANGED <<now, role, stage, data, cooldown, window, quota, bonusAt, task, run, work, asked,
                    updates, faults, passes, requests, granted, charged, published, screen, sent,
                    overlapped, crossed>>
    BY <1>3 DEF vars, redis, row, counters, limitsHistory, postHistory
  <2>2. TypeOK' /\ Flags' /\ Apart' /\ Numbers'
    BY <2>1 DEF Inv, TypeOK, Flags, Apart, Numbers
  <2>3. (KeyLasts /\ CooldownHolds /\ WindowKept)'
    BY <2>1 DEF Inv, KeyLasts, CooldownHolds, WindowKept
  <2>4. WindowFits'
    <3>1. \A t : Within(t)' = Within(t) /\ Adding(t)' = Adding(t) /\ Limit' = Limit
      BY <2>1 DEF Within, Adding, Limit
    <3>. QED
      BY <3>1 DEF Inv, WindowFits
  <2>5. QuotaFits'
    <3>1. Paid' = Paid
      BY <2>1 DEF Paid
    <3>. QED
      BY <2>1, <3>1 DEF Inv, QuotaFits, Loaded, Limited
  <2>6. Histories' /\ PostFits'
    BY <2>1 DEF Inv, Histories, Sound, PostFits, Clean, Writes, BroadcastsShownPost
  <2>. QED
    BY <2>2, <2>3, <2>4, <2>5, <2>6 DEF Inv
<1>. QED
  BY <1>1, <1>2, <1>3, TickInv, UpdatesInv DEF Next

\* The invariant that the properties below follow from: what every handler of bot
\* and worker can rely on in what it has read, whichever others ran since.
THEOREM Invariance == Spec => []Inv
BY InitInv, NextInv, PTL DEF Spec

\* Every variable keeps its type; in particular the history in the FSM record
\* never grows beyond its limit, however reads and writes of it interleave
\* (_append_history, _process_ai_input_text).
THEOREM TypeCorrect == Spec => []TypeOK
<1>1. Inv => TypeOK
  BY DEF Inv
<1>. QED
  BY <1>1, Invariance, PTL

\* For any number of handler runs, faults of Redis and lengths of the cooldown,
\* two questions that get the key are a cooldown apart (_acquire_ai_cooldown).
THEOREM CooldownKept == Spec => []CooldownHolds
<1>1. Inv => CooldownHolds
  BY DEF Inv
<1>. QED
  BY <1>1, Invariance, PTL

\* However many handlers interleave, a window holds at most one request more
\* than allowed for each further handler, and none more if they never overlap
\* (_acquire_ai_rate_limit).
THEOREM WindowBounded == Spec => []WindowHolds
<1>1. Inv => WindowHolds
  <2>. SUFFICES ASSUME Inv, NEW t \in 0..MaxTime
                PROVE  Cardinality(Within(t)) <= Limit
    BY DEF WindowHolds, Limit
  <2>1. Adding(t) \subseteq Runs /\ Within(t) \subseteq Members
    BY DEF Adding, Within, Inv, TypeOK
  <2>2. /\ Cardinality(Adding(t)) \in Nat /\ Cardinality(Within(t)) \in Nat
        /\ Cardinality(Runs) \in Nat /\ MaxRequests \in Nat /\ Limit \in Int
    BY <2>1, RunsFinite, MembersFinite, LimitsAssumption DEF Limit
  <2>3. Cardinality(Within(t)) + Cardinality(Adding(t)) <= Limit
    BY DEF Inv, WindowFits
  <2>. QED
    BY <2>2, <2>3
<1>. QED
  BY <1>1, Invariance, PTL

\* The quota is never negative, a client's published questions are all charged,
\* and nothing is lost while handlers do not overlap (_process_ai_input_text,
\* ai_checkout_phone, owner_gift_quota).
THEOREM QuotaIsPaid == Spec => []QuotaPays
<1>1. Inv => QuotaPays
  <2>. SUFFICES ASSUME Inv PROVE QuotaPays
    OBVIOUS
  <2>1. Cardinality(Paid) \in Nat /\ published \in Nat /\ charged \in Nat
    BY RunsFinite DEF Paid, Inv, TypeOK
  <2>. QED
    BY <2>1 DEF Inv, QuotaFits, QuotaPays
<1>. QED
  BY <1>1, Invariance, PTL

\* In the history no answer stands before its question, for any number of
\* questions, handlers and deliveries, and whatever turns each side overwrites
\* (_process_ai_input_text, _append_history).
THEOREM AnswersFollow == Spec => []HistoryOrdered
<1>1. Inv => HistoryOrdered
  BY DEF Inv, Histories, Sound, Ordered, HistoryOrdered
<1>. QED
  BY <1>1, Invariance, PTL

\* If no two handlers ever ran at once and none failed, the newest button
\* broadcasts the answer it stands under or nothing (process_ai_broadcast,
\* _set_pending_post).
THEOREM ButtonSendsItsAnswer == Spec => []BroadcastsShownPost
<1>1. Inv => BroadcastsShownPost
  BY DEF Inv, PostFits
<1>. QED
  BY <1>1, Invariance, PTL

=============================================================================
