-------------------------- MODULE WorkerQueueProofs --------------------------
(***************************************************************************)
(* Proofs about WorkerQueue for any sets of tasks and workers, any retry   *)
(* limit and any number of faults.                                         *)
(*                                                                         *)
(* The argument that no task is lost is an order on its copies: a worker   *)
(* that acknowledges a message it has retried leaves a copy with a higher  *)
(* retry_count behind (HandedOver). The copy with the highest count cannot *)
(* be given away like this, so however many copies there are, the last one *)
(* is only removed once there is an answer or a dead letter.               *)
(***************************************************************************)
EXTENDS WorkerQueue, FiniteSets, FiniteSetTheorems, TLAPS

-----------------------------------------------------------------------------
(***************************************************************************)
(* Types.                                                                  *)
(***************************************************************************)

LEMMA GotoWork ==
  ASSUME TypeOK, NEW w \in Workers, NEW p \in Phases, Goto(w, p)
  PROVE  /\ work' \in [Workers -> WorkRecord]
         /\ work'[w].pc = p /\ work'[w].task = work[w].task
         /\ work'[w].retry = work[w].retry /\ work'[w].owned = work[w].owned
         /\ \A v \in Workers : v # w => work'[v] = work[v]
<1>1. work[w] \in WorkRecord /\ work' = [work EXCEPT ![w] = [work[w] EXCEPT !.pc = p]]
  BY DEF TypeOK, Goto
<1>. QED
  BY <1>1 DEF TypeOK, WorkRecord

LEMMA LeaveWork ==
  ASSUME TypeOK, NEW w \in Workers, Leave(w)
  PROVE  /\ work' \in [Workers -> WorkRecord]
         /\ work'[w].pc = "idle"
         /\ \A v \in Workers : v # w => work'[v] = work[v]
<1>1. work[w] \in WorkRecord
  BY DEF TypeOK
<1>2. work' = [work EXCEPT ![w] = [work[w] EXCEPT !.pc = "idle", !.owned = FALSE]]
  BY DEF TypeOK, Leave
<1>3. /\ [work[w] EXCEPT !.pc = "idle", !.owned = FALSE] \in WorkRecord
      /\ [work[w] EXCEPT !.pc = "idle", !.owned = FALSE].pc = "idle"
  BY <1>1 DEF WorkRecord, Phases
<1>. QED
  BY <1>2, <1>3 DEF TypeOK

LEMMA EnqueuedReady ==
  ASSUME TypeOK, NEW t \in Tasks, NEW r \in Retries
  PROVE  /\ Enqueued(t, r) \in [Tasks -> [Retries -> Nat]]
         /\ \A u \in Tasks, q \in Retries :
              Enqueued(t, r)[u][q] = IF u = t /\ q = r THEN ready[u][q] + 1 ELSE ready[u][q]
BY DEF TypeOK, Enqueued

\* A step of one worker leaves the others at what they do.
LEMMA OthersWork ==
  ASSUME TypeOK, NEW w \in Workers, WorkerStep(w) \/ Adverse(w)
  PROVE  \A v \in Workers : v # w => work'[v] = work[v]
<1>1. CASE Take(w)
  <2>1. work' = work \/ \E x : work' = [work EXCEPT ![w] = x]
    BY <1>1 DEF Take
  <2>. QED
    BY <2>1 DEF TypeOK
<1>2. CASE (\E p \in Phases : Goto(w, p)) \/ Leave(w)
  BY <1>2, GotoWork, LeaveWork
<1>3. CASE LoseConnection(w)
  BY <1>3 DEF LoseConnection, TypeOK
<1>. QED
  BY <1>1, <1>2, <1>3 DEF WorkerStep, Adverse, Compute, SendAnswer, Remember, Ack,
     Republish, Bury, Settle, Nack, Raise, PublishFails, Crash, Phases

LEMMA InitType == Init => TypeOK
<1>. SUFFICES ASSUME Init PROVE TypeOK
  OBVIOUS
<1>1. ready \in [Tasks -> [Retries -> Nat]] /\ 0 \in Retries
  BY RetriesAssumption DEF Init, Retries
<1>2. \A t \in Tasks :
        [pc |-> "idle", task |-> t, retry |-> 0, owned |-> FALSE] \in WorkRecord
  BY <1>1 DEF WorkRecord, Phases
<1>3. work \in [Workers -> WorkRecord]
  BY <1>2 DEF Init
<1>4. Zero \in [Tasks -> Nat]
  BY DEF Zero
<1>. QED
  BY <1>1, <1>3, <1>4, FaultsAssumption DEF Init, TypeOK

LEMMA NextType == TypeOK /\ [Next]_vars => TypeOK'
<1>. SUFFICES ASSUME TypeOK, [Next]_vars PROVE TypeOK'
  OBVIOUS
<1>1. CASE UNCHANGED vars
  BY <1>1 DEF vars, TypeOK
<1>2. ASSUME NEW t \in Tasks, Publish(t) PROVE TypeOK'
  <2>1. 0 \in Retries
    BY RetriesAssumption DEF Retries
  <2>. QED
    BY <1>2, <2>1, EnqueuedReady DEF Publish, TypeOK
<1>3. ASSUME NEW w \in Workers, WorkerStep(w) \/ Adverse(w) PROVE TypeOK'
  <2>0. /\ work[w] \in WorkRecord /\ work[w].task \in Tasks /\ work[w].retry \in Retries
        /\ work[w].retry < MaxRetries => work[w].retry + 1 \in Retries
    BY RetriesAssumption DEF TypeOK, WorkRecord, Retries
  <2>1. Fault => faults' \in 0..MaxFaults
    BY FaultsAssumption DEF Fault, TypeOK
  <2>2. CASE Take(w)
    <3>1. PICK t \in Tasks, r \in Retries :
            /\ ready[t][r] > 0
            /\ ready' = [ready EXCEPT ![t][r] = @ - 1]
            /\ \/ work' = work
               \/ work' = [work EXCEPT ![w] = [pc |-> "ask", task |-> t, retry |-> r,
                                               owned |-> TRUE]]
      BY <2>2 DEF Take
    <3>2. ready' \in [Tasks -> [Retries -> Nat]]
      BY <3>1 DEF TypeOK
    <3>3. [pc |-> "ask", task |-> t, retry |-> r, owned |-> TRUE] \in WorkRecord
      BY DEF WorkRecord, Phases
    <3>4. work' \in [Workers -> WorkRecord]
      BY <3>1, <3>3 DEF TypeOK
    <3>. QED
      BY <2>2, <3>2, <3>4 DEF Take, TypeOK
  <2>3. CASE Compute(w) \/ Remember(w)
    <3>1. work' \in [Workers -> WorkRecord]
      BY <2>3, GotoWork DEF Compute, Remember, Phases
    <3>. QED
      BY <2>3, <3>1 DEF Compute, Remember, TypeOK
  <2>4. CASE SendAnswer(w) \/ Raise(w)
    <3>1. work' \in [Workers -> WorkRecord]
      BY <2>4, GotoWork DEF SendAnswer, Raise, Phases
    <3>2. /\ answers' = answers \/ answers' = [answers EXCEPT ![work[w].task] = @ + 1]
          /\ failures' = failures \/ failures' = [failures EXCEPT ![work[w].task] = @ + 1]
      BY <2>4 DEF SendAnswer, Raise
    <3>3. answers' \in [Tasks -> Nat] /\ failures' \in [Tasks -> Nat]
      BY <2>0, <3>2 DEF TypeOK
    <3>. QED
      BY <2>4, <3>1, <3>3 DEF SendAnswer, Raise, TypeOK
  <2>5. CASE Ack(w)
    <3>1. work' \in [Workers -> WorkRecord]
      BY <2>5, GotoWork, LeaveWork DEF Ack, Phases
    <3>2. failures' \in [Tasks -> Nat]
      BY <2>0, <2>5 DEF Ack, TypeOK
    <3>. QED
      BY <2>5, <3>1, <3>2 DEF Ack, TypeOK
  <2>6. CASE Republish(w) \/ Bury(w) \/ PublishFails(w)
    <3>1. work' \in [Workers -> WorkRecord]
      BY <2>6, GotoWork DEF Republish, Bury, PublishFails, Phases
    <3>2. ready' \in [Tasks -> [Retries -> Nat]]
      BY <2>0, <2>6, EnqueuedReady DEF Republish, Bury, PublishFails, TypeOK
    <3>3. dead' \in [Tasks -> Nat]
      BY <2>0, <2>6 DEF Republish, Bury, PublishFails, TypeOK
    <3>4. faults' \in 0..MaxFaults
      BY <2>1, <2>6 DEF Republish, Bury, PublishFails, TypeOK
    <3>. QED
      BY <2>6, <3>1, <3>2, <3>3, <3>4 DEF Republish, Bury, PublishFails, TypeOK, Bystanders
  <2>7. CASE Settle(w)
    <3>1. work' \in [Workers -> WorkRecord]
      BY <2>7, GotoWork, LeaveWork DEF Settle, Phases
    <3>. QED
      BY <2>7, <3>1 DEF Settle, TypeOK, Bystanders
  <2>8. CASE Nack(w) \/ Crash(w)
    <3>1. work' \in [Workers -> WorkRecord]
      BY <2>8, LeaveWork DEF Nack, Crash
    <3>2. ready' \in [Tasks -> [Retries -> Nat]]
      BY <2>0, <2>8, EnqueuedReady DEF Nack, Crash, TypeOK
    <3>3. faults' \in 0..MaxFaults
      BY <2>1, <2>8 DEF Nack, Crash, TypeOK
    <3>. QED
      BY <2>8, <3>1, <3>2, <3>3 DEF Nack, Crash, TypeOK, Bystanders
  <2>9. CASE LoseConnection(w)
    <3>1. work' \in [Workers -> WorkRecord]
      BY <2>0, <2>9 DEF LoseConnection, TypeOK, WorkRecord
    <3>2. ready' \in [Tasks -> [Retries -> Nat]]
      BY <2>0, <2>9, EnqueuedReady DEF LoseConnection
    <3>. QED
      BY <2>1, <2>9, <3>1, <3>2 DEF LoseConnection, TypeOK, Bystanders
  <2>. QED
    BY <1>3, <2>2, <2>3, <2>4, <2>5, <2>6, <2>7, <2>8, <2>9 DEF WorkerStep, Adverse
<1>. QED
  BY <1>1, <1>2, <1>3 DEF Next, Quiet

\* Messages carry retry counts up to the limit only and no counter of the broker
\* ever becomes negative.
THEOREM TypeCorrect == Spec => []TypeOK
  BY InitType, NextType, PTL DEF Spec

-----------------------------------------------------------------------------
(***************************************************************************)
(* Retries are earned by failures.                                         *)
(***************************************************************************)

\* The failures behind the message a worker holds.
Earned(w) ==
  /\ Busy(w) => failures[work[w].task] >= work[w].retry
  /\ work[w].pc = "failed" => failures[work[w].task] > work[w].retry

EInv == TypeOK /\ RetriesEarned /\ \A w \in Workers : Earned(w)

LEMMA EInvInit == Init => EInv
<1>. SUFFICES ASSUME Init PROVE EInv
  OBVIOUS
<1>1. RetriesEarned
  BY DEF Init, RetriesEarned, Zero
<1>2. ASSUME NEW w \in Workers PROVE Earned(w)
  BY <1>2 DEF Init, Earned, Busy
<1>. QED
  BY <1>1, <1>2, InitType DEF EInv

\* The failures of a task only grow, and the others keep theirs.
LEMMA FailuresGrow ==
  ASSUME EInv, NEW w \in Workers, WorkerStep(w) \/ Adverse(w)
  PROVE  \A t \in Tasks : failures'[t] \in Nat /\ failures[t] \in Nat /\ failures'[t] >= failures[t]
<1>1. failures' = failures \/ failures' = [failures EXCEPT ![work[w].task] = @ + 1]
  BY DEF WorkerStep, Adverse, Take, Compute, SendAnswer, Remember, Ack, Republish, Bury,
         Settle, Nack, Raise, PublishFails, Crash, LoseConnection, Bystanders
<1>2. failures \in [Tasks -> Nat]
  BY DEF EInv, TypeOK
<1>3. \A t \in Tasks : failures'[t] = failures[t] \/ failures'[t] = failures[t] + 1
  BY <1>1, <1>2
<1>. QED
  BY <1>2, <1>3

LEMMA EInvNext == EInv /\ [Next]_vars => EInv'
<1>. SUFFICES ASSUME EInv, [Next]_vars PROVE EInv'
  OBVIOUS
<1>0. TypeOK /\ TypeOK'
  BY NextType DEF EInv
<1>1. CASE UNCHANGED vars
  BY <1>0, <1>1 DEF EInv, RetriesEarned, Earned, Busy, vars
<1>2. ASSUME NEW t \in Tasks, Publish(t) PROVE EInv'
  <2>1. 0 \in Retries
    BY RetriesAssumption DEF Retries
  <2>2. \A u \in Tasks, r \in Retries : ready'[u][r] > 0 => ready[u][r] > 0 \/ r = 0
    BY <1>0, <1>2, <2>1, EnqueuedReady DEF Publish
  <2>3. \A u \in Tasks : failures[u] \in Nat
    BY <1>0 DEF TypeOK
  <2>4. RetriesEarned'
    BY <1>2, <2>2, <2>3 DEF Publish, EInv, RetriesEarned
  <2>. QED
    BY <1>0, <1>2, <2>4 DEF Publish, EInv, Earned, Busy
<1>3. ASSUME NEW w \in Workers, WorkerStep(w) \/ Adverse(w) PROVE EInv'
  <2>. DEFINE t == work[w].task
              q == work[w].retry
  <2>0. /\ t \in Tasks /\ q \in Retries /\ q \in Nat /\ q <= MaxRetries
        /\ q < MaxRetries => q + 1 \in Retries
    <3>1. work[w] \in WorkRecord
      BY <1>0 DEF TypeOK
    <3>. QED
      BY <3>1, RetriesAssumption DEF WorkRecord, Retries
  <2>1. \A u \in Tasks : failures'[u] \in Nat /\ failures[u] \in Nat /\ failures'[u] >= failures[u]
    BY <1>3, FailuresGrow
  <2>2. /\ Earned(w)
        /\ \A u \in Tasks, r \in Retries : ready[u][r] > 0 => failures[u] >= r
        /\ \A u \in Tasks : dead[u] > 0 => failures[u] > MaxRetries
    BY DEF EInv, RetriesEarned
  <2>3. ASSUME NEW u \in Tasks, NEW r \in Retries, ready'[u][r] > 0
        PROVE  failures'[u] >= r
    <3>1. \/ ready[u][r] > 0
          \/ u = t /\ r = q /\ Busy(w)
          \/ u = t /\ r = q + 1 /\ work[w].pc = "failed"
      <4>1. CASE Take(w)
        BY <1>0, <2>3, <4>1 DEF Take, TypeOK
      <4>2. CASE Republish(w) \/ PublishFails(w)
        BY <1>0, <2>0, <2>3, <4>2, EnqueuedReady DEF Republish, PublishFails
      <4>3. CASE Nack(w) \/ Crash(w) \/ LoseConnection(w)
        BY <1>0, <2>0, <2>3, <4>3, EnqueuedReady DEF Nack, Crash, LoseConnection, Busy
      <4>4. CASE ready' = ready
        BY <2>3, <4>4
      <4>. QED
        BY <1>3, <4>1, <4>2, <4>3, <4>4
        DEF WorkerStep, Adverse, Compute, SendAnswer, Remember, Ack, Bury, Settle, Raise
    <3>2. r \in Nat
      BY DEF Retries
    <3>. QED
      BY <2>0, <2>1, <2>2, <3>1, <3>2 DEF Earned
  <2>4. ASSUME NEW u \in Tasks, dead'[u] > 0
        PROVE  failures'[u] > MaxRetries
    <3>1. \/ dead[u] > 0
          \/ u = t /\ q >= MaxRetries /\ work[w].pc = "failed"
      <4>1. \/ dead' = dead
            \/ /\ dead' = [dead EXCEPT ![work[w].task] = @ + 1]
               /\ work[w].pc = "failed" /\ work[w].retry >= MaxRetries
        BY <1>3 DEF WorkerStep, Adverse, Take, Compute, SendAnswer, Remember, Ack,
           Republish, Bury, Settle, Nack, Raise, PublishFails, Crash, LoseConnection, Bystanders
      <4>2. dead \in [Tasks -> Nat]
        BY <1>0 DEF TypeOK
      <4>. QED
        BY <2>0, <2>4, <4>1, <4>2
    <3>. QED
      BY <2>0, <2>1, <2>2, <3>1, RetriesAssumption DEF Earned
  <2>5. ASSUME NEW v \in Workers PROVE Earned(v)'
    <3>1. CASE v # w
      <4>1. work'[v] = work[v]
        BY <1>0, <1>3, <3>1, OthersWork
      <4>2. Earned(v) /\ work[v].task \in Tasks /\ work[v].retry \in Nat
        <5>1. work[v] \in WorkRecord
          BY <1>0 DEF TypeOK
        <5>. QED
          BY <5>1 DEF EInv, WorkRecord, Retries
      <4>. QED
        BY <2>1, <4>1, <4>2 DEF Earned, Busy
    <3>2. CASE v = w
      <4>1. CASE Take(w)
        <5>1. PICK u \in Tasks, r \in Retries :
                /\ ready[u][r] > 0 /\ failures' = failures
                /\ \/ work' = work
                   \/ work' = [work EXCEPT ![w] = [pc |-> "ask", task |-> u, retry |-> r,
                                                   owned |-> TRUE]]
          BY <4>1 DEF Take
        <5>2. CASE work' = work
          BY <2>2, <3>2, <5>1, <5>2 DEF Earned, Busy
        <5>3. CASE work' = [work EXCEPT ![w] = [pc |-> "ask", task |-> u, retry |-> r,
                                                owned |-> TRUE]]
          <6>1. work'[w].pc = "ask" /\ work'[w].task = u /\ work'[w].retry = r
            BY <1>0, <5>3 DEF TypeOK
          <6>. QED
            BY <2>2, <3>2, <5>1, <6>1 DEF Earned, Busy
        <5>. QED
          BY <5>1, <5>2, <5>3
      <4>2. ASSUME NEW p \in Phases \ {"failed"}, Goto(w, p), Busy(w) PROVE Earned(w)'
        <5>1. /\ work'[w].pc = p /\ work'[w].task = t /\ work'[w].retry = q
          BY <1>0, <4>2, GotoWork
        <5>. QED
          BY <2>0, <2>1, <2>2, <4>2, <5>1 DEF Earned, Busy
      <4>3. ASSUME Goto(w, "failed"), Busy(w), failures' = [failures EXCEPT ![t] = @ + 1]
            PROVE  Earned(w)'
        <5>1. /\ work'[w].task = t /\ work'[w].retry = q
          BY <1>0, <4>3, GotoWork DEF Phases
        <5>2. failures'[t] = failures[t] + 1
          BY <1>0, <2>0, <4>3 DEF TypeOK
        <5>. QED
          BY <2>0, <2>1, <2>2, <4>3, <5>1, <5>2 DEF Earned, Busy
      <4>4. ASSUME Leave(w) PROVE Earned(w)'
        BY <1>0, <4>4, LeaveWork DEF Earned, Busy
      <4>5. CASE Raise(w) \/ Ack(w)
        BY <3>2, <4>3, <4>4, <4>5 DEF Raise, Ack, Busy
      <4>6. CASE Compute(w) \/ SendAnswer(w) \/ Remember(w) \/ Republish(w) \/ Bury(w)
                  \/ PublishFails(w) \/ Settle(w)
        BY <3>2, <4>2, <4>4, <4>6 DEF Compute, SendAnswer, Remember, Republish, Bury,
           PublishFails, Settle, Busy, Phases
      <4>7. CASE Nack(w) \/ Crash(w)
        BY <3>2, <4>4, <4>7 DEF Nack, Crash
      <4>8. CASE LoseConnection(w)
        <5>1. /\ work'[w].pc = work[w].pc /\ work'[w].task = t /\ work'[w].retry = q
              /\ failures' = failures
          BY <1>0, <4>8 DEF LoseConnection, TypeOK, WorkRecord, Bystanders
        <5>. QED
          BY <2>2, <3>2, <5>1 DEF Earned, Busy
      <4>. QED
        BY <1>3, <4>1, <4>5, <4>6, <4>7, <4>8 DEF WorkerStep, Adverse
    <3>. QED
      BY <3>1, <3>2
  <2>. QED
    BY <1>0, <2>3, <2>4, <2>5 DEF EInv, RetriesEarned
<1>. QED
  BY <1>1, <1>2, <1>3 DEF Next, Quiet

\* A task is retried, and given up, only for failures of its own: r of them for
\* the r-th retry, MaxRetries + 1 for the dead letter queue.
THEOREM RetriesAreEarned == Spec => []RetriesEarned
<1>1. EInv => RetriesEarned
  BY DEF EInv
<1>. QED
  BY <1>1, EInvInit, EInvNext, PTL DEF Spec

-----------------------------------------------------------------------------
(***************************************************************************)
(* No task is lost.                                                        *)
(***************************************************************************)

Alive(t, r) == Resolved(t) \/ Pending(t, r)

\* A worker past SendAnswer has answered; none holds a malformed message.
Answering(w) ==
  /\ Busy(w) => work[w].task \notin Malformed
  /\ work[w].pc \in {"remember", "ack"} => answers[work[w].task] > 0

\* HandedOver for one worker.
Handed(w) ==
  work[w].pc = "settle" =>
    \/ Resolved(work[w].task)
    \/ work[w].retry < MaxRetries /\ Pending(work[w].task, work[w].retry + 1)

NInv == /\ TypeOK
        /\ NoTaskLost
        /\ \A w \in Workers : Answering(w) /\ Handed(w)

LEMMA NInvInit == Init => NInv
<1>. SUFFICES ASSUME Init PROVE NInv
  OBVIOUS
<1>1. NoTaskLost
  BY DEF Init, NoTaskLost
<1>2. ASSUME NEW w \in Workers PROVE Answering(w) /\ Handed(w)
  BY <1>2 DEF Init, Answering, Handed, Busy
<1>. QED
  BY <1>1, <1>2, InitType DEF NInv

\* Answers and dead letters are never taken back.
LEMMA ResolvedStays ==
  ASSUME TypeOK, [Next]_vars, NEW t \in Tasks, Resolved(t)
  PROVE  Resolved(t)'
<1>1. answers \in [Tasks -> Nat] /\ dead \in [Tasks -> Nat]
  BY DEF TypeOK
<1>2. /\ answers' = answers \/ \E u : answers' = [answers EXCEPT ![u] = @ + 1]
      /\ dead' = dead \/ \E u : dead' = [dead EXCEPT ![u] = @ + 1]
  BY DEF Next, vars, Publish, Quiet, WorkerStep, Adverse, Take, Compute, SendAnswer,
         Remember, Ack, Republish, Bury, Settle, Nack, Raise, PublishFails, Crash,
         LoseConnection, Bystanders
<1>3. answers[t] > 0 => answers'[t] > 0
  BY <1>1, <1>2
<1>4. dead[t] > 0 => dead'[t] > 0
  BY <1>1, <1>2
<1>. QED
  BY <1>3, <1>4 DEF Resolved

\* The central fact: a copy that counts for Alive(t, r) is replaced by another one
\* or by an outcome in every step.
LEMMA StaysAlive ==
  ASSUME NInv, NEW w \in Workers, WorkerStep(w) \/ Adverse(w),
         NEW t \in Tasks \ Malformed, NEW r \in Nat, Alive(t, r)
  PROVE  Alive(t, r)'
<1>0. /\ TypeOK /\ Answering(w) /\ Handed(w) /\ work[w] \in WorkRecord
      /\ \A v \in Workers : work[v].retry \in Nat
  BY DEF NInv, TypeOK, WorkRecord, Retries
<1>1. CASE Resolved(t)
  BY <1>0, <1>1, ResolvedStays DEF Next, Alive
<1>2. ASSUME NEW q \in Retries, q >= r, ready[t][q] > 0
      PROVE  Alive(t, r)'
  <2>1. CASE Take(w)
    <3>1. PICK u \in Tasks, p \in Retries :
            /\ ready[u][p] > 0
            /\ ready' = [ready EXCEPT ![u][p] = @ - 1]
            /\ u \notin Malformed =>
                 work' = [work EXCEPT ![w] = [pc |-> "ask", task |-> u, retry |-> p,
                                              owned |-> TRUE]]
      BY <2>1 DEF Take
    <3>2. CASE u = t /\ p = q
      <4>1. /\ work'[w].pc = "ask" /\ work'[w].task = t /\ work'[w].retry = q
            /\ work'[w].owned = TRUE
        BY <1>0, <3>1, <3>2 DEF TypeOK
      <4>. QED
        BY <1>2, <4>1 DEF Alive, Pending, Busy
    <3>3. CASE ~(u = t /\ p = q)
      <4>1. ready'[t][q] = ready[t][q]
        BY <1>0, <3>1, <3>3 DEF TypeOK
      <4>. QED
        BY <1>2, <4>1 DEF Alive, Pending
    <3>. QED
      BY <3>2, <3>3
  <2>2. CASE ready' = ready
    <3>1. ready'[t][q] > 0
      BY <1>2, <2>2
    <3>. QED
      BY <1>2, <3>1 DEF Alive, Pending
  <2>3. ASSUME NEW u \in Tasks, NEW p \in Retries, ready' = Enqueued(u, p)
        PROVE  Alive(t, r)'
    <3>1. ready[t][q] \in Nat
      BY <1>0 DEF TypeOK
    <3>2. Enqueued(u, p)[t][q] = IF t = u /\ q = p THEN ready[t][q] + 1 ELSE ready[t][q]
      BY <1>0, EnqueuedReady
    <3>3. Enqueued(u, p)[t][q] > 0
      BY <1>2, <3>1, <3>2
    <3>4. ready'[t][q] > 0
      BY <2>3, <3>3
    <3>. QED
      BY <1>2, <3>4 DEF Alive, Pending
  <2>4. \/ Take(w) \/ ready' = ready
        \/ \E u \in Tasks, p \in Retries : ready' = Enqueued(u, p)
    <3>1. /\ work[w].task \in Tasks /\ work[w].retry \in Retries
          /\ work[w].retry < MaxRetries => work[w].retry + 1 \in Retries
      BY <1>0, RetriesAssumption DEF WorkRecord, Retries
    <3>. QED
      BY <3>1 DEF WorkerStep, Adverse, Compute, SendAnswer, Remember, Ack, Republish, Bury,
         Settle, Nack, Raise, PublishFails, Crash, LoseConnection
  <2>. QED
    BY <2>1, <2>2, <2>3, <2>4
<1>3. ASSUME NEW q \in Retries, q >= r, NEW v \in Workers, v # w,
             Busy(v), work[v].owned, work[v].task = t, work[v].retry = q
      PROVE  Alive(t, r)'
  <2>1. work'[v] = work[v]
    BY <1>0, <1>3, OthersWork
  <2>. QED
    BY <1>3, <2>1 DEF Alive, Pending, Busy
<1>4. ASSUME NEW q \in Retries, q >= r,
             Busy(w), work[w].owned, work[w].task = t, work[w].retry = q
      PROVE  Alive(t, r)'
  <2>1. ASSUME NEW p \in Phases, Goto(w, p), p # "idle" PROVE Alive(t, r)'
    <3>1. /\ work'[w].pc = p /\ work'[w].task = t /\ work'[w].retry = q
          /\ work'[w].owned = work[w].owned
      BY <1>0, <1>4, <2>1, GotoWork
    <3>. QED
      BY <1>4, <2>1, <3>1 DEF Alive, Pending, Busy
  <2>2. ASSUME ready' = Enqueued(t, q) PROVE Alive(t, r)'
    <3>1. ready'[t][q] > 0
      BY <1>0, <2>2, EnqueuedReady DEF TypeOK
    <3>. QED
      BY <1>4, <3>1 DEF Alive, Pending
  <2>3. CASE Ack(w) /\ Leave(w)
    <3>1. Resolved(t)
      BY <1>0, <1>4, <2>3 DEF Ack, Answering, Resolved
    <3>. QED
      BY <1>0, <3>1, ResolvedStays DEF Next, Alive
  <2>4. CASE Settle(w) /\ Leave(w)
    <3>1. CASE Resolved(t)
      BY <1>0, <3>1, ResolvedStays DEF Next, Alive
    <3>2. CASE Pending(t, q + 1)
      <4>1. PICK p \in Retries :
              /\ p >= q + 1
              /\ \/ ready[t][p] > 0
                 \/ \E v \in Workers : /\ Busy(v) /\ work[v].owned
                                       /\ work[v].task = t /\ work[v].retry = p
        BY <3>2 DEF Pending
      <4>2. p >= r /\ p # q
        BY <1>4, <4>1 DEF Retries
      <4>. QED
        BY <1>2, <1>3, <1>4, <4>1, <4>2
    <3>3. Resolved(t) \/ Pending(t, q + 1)
      BY <1>0, <1>4, <2>4 DEF Settle, Handed
    <3>. QED
      BY <3>1, <3>2, <3>3
  <2>. QED
    BY <1>4, <2>1, <2>2, <2>3, <2>4
    DEF WorkerStep, Adverse, Take, Compute, SendAnswer, Remember, Ack, Republish, Bury,
        Settle, Nack, Raise, PublishFails, Crash, LoseConnection, Phases
<1>. QED
  BY <1>1, <1>2, <1>3, <1>4 DEF Alive, Pending

\* What is alive for every task is so for the message of a worker that keeps it.
LEMMA HandedStays ==
  ASSUME NEW w \in Workers, Handed(w),
         work'[w].pc = work[w].pc, work'[w].task = work[w].task,
         work'[w].retry = work[w].retry, work[w].retry + 1 \in Nat,
         work[w].pc = "settle" => work[w].task \in Tasks \ Malformed,
         \A t \in Tasks : Resolved(t) => Resolved(t)',
         \A t \in Tasks \ Malformed, r \in Nat :
           Resolved(t) \/ Pending(t, r) => Resolved(t)' \/ Pending(t, r)'
  PROVE  Handed(w)'
<1>. SUFFICES ASSUME work[w].pc = "settle",
                     NEW t \in Tasks \ Malformed, t = work[w].task,
                     NEW r \in Nat, r = work[w].retry + 1
              PROVE  Handed(w)'
  BY DEF Handed
<1>1. CASE Resolved(t)'
  BY <1>1 DEF Handed, Resolved
<1>2. CASE Pending(t, r)' /\ work[w].retry < MaxRetries
  BY <1>2 DEF Handed, Pending
<1>3. Resolved(t) \/ (Pending(t, r) /\ work[w].retry < MaxRetries)
  BY DEF Handed
<1>. QED
  BY <1>1, <1>2, <1>3

LEMMA NInvNext == NInv /\ [Next]_vars => NInv'
<1>. SUFFICES ASSUME NInv, [Next]_vars PROVE NInv'
  OBVIOUS
<1>0. TypeOK /\ TypeOK' /\ 0 \in Retries
  BY NextType, RetriesAssumption DEF NInv, Retries
<1>1. CASE UNCHANGED vars
  BY <1>0, <1>1 DEF NInv, NoTaskLost, Answering, Handed, Resolved, Pending, Busy, vars
<1>2. ASSUME NEW t \in Tasks, Publish(t) PROVE NInv'
  <2>1. \A u \in Tasks, q \in Retries :
          ready'[u][q] = IF u = t /\ q = 0 THEN ready[u][q] + 1 ELSE ready[u][q]
    BY <1>0, <1>2, EnqueuedReady DEF Publish
  <2>2. \A u \in Tasks, q \in Retries : ready[u][q] > 0 => ready'[u][q] > 0
    <3>1. \A u \in Tasks, q \in Retries : ready[u][q] \in Nat
      BY <1>0 DEF TypeOK
    <3>. QED
      BY <2>1, <3>1
  <2>3. ready'[t][0] > 0
    BY <1>0, <2>1 DEF TypeOK
  <2>4. ASSUME NEW u \in Tasks, NEW r \in Nat, Pending(u, r) PROVE Pending(u, r)'
    BY <1>2, <2>2, <2>4 DEF Publish, Pending, Busy
  <2>5. \A u \in Tasks : Resolved(u) => Resolved(u)'
    BY <1>2 DEF Publish, Resolved
  <2>6. Pending(t, 0)'
    BY <1>0, <2>3 DEF Pending
  <2>7. NoTaskLost'
    BY <1>0, <1>2, <2>4, <2>5, <2>6 DEF NInv, NoTaskLost, Publish, TypeOK
  <2>8. ASSUME NEW w \in Workers PROVE Answering(w)' /\ Handed(w)'
    <3>1. work[w] \in WorkRecord /\ Answering(w) /\ Handed(w) /\ work' = work
      BY <1>0, <1>2 DEF NInv, TypeOK, Publish
    <3>2. work[w].task \in Tasks /\ work[w].retry + 1 \in Nat
      BY <3>1 DEF WorkRecord, Retries
    <3>. QED
      BY <1>2, <2>4, <2>5, <3>1, <3>2 DEF Answering, Handed, Busy, Publish
  <2>. QED
    BY <1>0, <2>7, <2>8 DEF NInv
<1>3. ASSUME NEW w \in Workers, WorkerStep(w) \/ Adverse(w) PROVE NInv'
  <2>0. /\ work[w] \in WorkRecord /\ Answering(w)
        /\ work[w].task \in Tasks /\ work[w].retry \in Retries
        /\ work[w].retry < MaxRetries => work[w].retry + 1 \in Retries
    <3>1. work[w] \in WorkRecord /\ Answering(w)
      BY <1>0 DEF NInv, TypeOK
    <3>. QED
      BY <3>1, RetriesAssumption DEF WorkRecord, Retries
  <2>a. \A t \in Tasks \ Malformed, r \in Nat :
          Resolved(t) \/ Pending(t, r) => Resolved(t)' \/ Pending(t, r)'
    BY <1>3, StaysAlive DEF Alive
  <2>b. \A t \in Tasks : Resolved(t) => Resolved(t)'
    BY <1>0, ResolvedStays
  <2>1. NoTaskLost'
    <3>1. accepted' = accepted
      BY <1>3 DEF WorkerStep, Adverse, Take, Compute, SendAnswer, Remember, Ack, Republish,
         Bury, Settle, Nack, Raise, PublishFails, Crash, LoseConnection, Bystanders
    <3>2. \A t \in accepted \ Malformed : t \in Tasks /\ (Resolved(t) \/ Pending(t, 0))
      BY <1>0 DEF NInv, NoTaskLost, TypeOK
    <3>. QED
      BY <2>a, <3>1, <3>2 DEF NoTaskLost
  <2>2. ASSUME NEW v \in Workers, v # w PROVE Answering(v)' /\ Handed(v)'
    <3>0. /\ work[v] \in WorkRecord /\ Answering(v) /\ Handed(v)
      BY <1>0 DEF NInv, TypeOK
    <3>1. /\ work'[v] = work[v] /\ work[v].task \in Tasks /\ work[v].retry + 1 \in Nat
      BY <1>0, <1>3, <2>2, <3>0, OthersWork DEF WorkRecord, Retries
    <3>2. answers[work[v].task] > 0 => answers'[work[v].task] > 0
      <4>1. answers' = answers \/ answers' = [answers EXCEPT ![work[w].task] = @ + 1]
        BY <1>3 DEF WorkerStep, Adverse, Take, Compute, SendAnswer, Remember, Ack, Republish,
           Bury, Settle, Nack, Raise, PublishFails, Crash, LoseConnection, Bystanders
      <4>2. answers \in [Tasks -> Nat]
        BY <1>0 DEF TypeOK
      <4>. QED
        BY <2>0, <3>1, <4>1, <4>2
    <3>3. Answering(v)'
      BY <3>0, <3>1, <3>2 DEF Answering, Busy
    <3>4. work[v].pc = "settle" => work[v].task \in Tasks \ Malformed
      BY <3>0, <3>1 DEF Answering, Busy
    <3>. QED
      BY <2>a, <2>b, <3>0, <3>1, <3>3, <3>4, HandedStays
  <2>3. Answering(w)' /\ Handed(w)'
    <3>1. CASE Take(w)
      <4>1. PICK u \in Tasks, p \in Retries :
              \/ work' = work
              \/ /\ u \notin Malformed
                 /\ work' = [work EXCEPT ![w] = [pc |-> "ask", task |-> u, retry |-> p,
                                                 owned |-> TRUE]]
        BY <3>1 DEF Take
      <4>2. \/ work'[w].pc = "idle"
            \/ u \notin Malformed /\ work'[w].pc = "ask" /\ work'[w].task = u
        BY <1>0, <3>1, <4>1 DEF Take, Busy, TypeOK
      <4>. QED
        BY <4>2 DEF Answering, Handed, Busy
    <3>2. ASSUME NEW p \in Phases \ {"remember", "ack", "settle"}, Goto(w, p), Busy(w)
          PROVE  Answering(w)' /\ Handed(w)'
      <4>1. work'[w].pc = p /\ work'[w].task = work[w].task
        BY <1>0, <3>2, GotoWork
      <4>. QED
        BY <2>0, <3>2, <4>1 DEF Answering, Handed, Busy
    <3>3. ASSUME Leave(w) PROVE Answering(w)' /\ Handed(w)'
      BY <1>0, <3>3, LeaveWork DEF Answering, Handed, Busy
    <3>4. CASE SendAnswer(w)
      <4>1. /\ work'[w].pc = "remember" /\ work'[w].task = work[w].task
        BY <1>0, <3>4, GotoWork DEF SendAnswer, Phases
      <4>2. answers[work[w].task] \in Nat /\ answers'[work[w].task] = answers[work[w].task] + 1
        BY <1>0, <2>0, <3>4 DEF SendAnswer, TypeOK
      <4>. QED
        BY <2>0, <3>4, <4>1, <4>2 DEF SendAnswer, Answering, Handed, Busy
    <3>5. CASE Remember(w)
      <4>1. /\ work'[w].pc = "ack" /\ work'[w].task = work[w].task
        BY <1>0, <3>5, GotoWork DEF Remember, Phases
      <4>. QED
        BY <2>0, <3>5, <4>1 DEF Remember, Answering, Handed, Busy
    <3>6. ASSUME Goto(w, "settle"), Busy(w), answers' = answers,
                 \/ Resolved(work[w].task)'
                 \/ work[w].retry < MaxRetries /\ Pending(work[w].task, work[w].retry + 1)'
          PROVE  Answering(w)' /\ Handed(w)'
      <4>1. /\ work'[w].pc = "settle" /\ work'[w].task = work[w].task
            /\ work'[w].retry = work[w].retry
        BY <1>0, <3>6, GotoWork DEF Phases
      <4>. QED
        BY <2>0, <3>6, <4>1 DEF Answering, Handed, Busy, Resolved, Pending
    <3>7. CASE Republish(w)
      <4>1. ready'[work[w].task][work[w].retry + 1] > 0
        BY <1>0, <2>0, <3>7, EnqueuedReady DEF Republish, TypeOK
      <4>2. work[w].retry + 1 >= work[w].retry + 1
        BY <2>0 DEF Retries
      <4>3. Pending(work[w].task, work[w].retry + 1)'
        BY <2>0, <3>7, <4>1, <4>2, GotoWork, <1>0 DEF Republish, Pending, Phases
      <4>. QED
        BY <3>6, <3>7, <4>3 DEF Republish, Busy, Bystanders
    <3>8. CASE Bury(w)
      <4>1. dead'[work[w].task] > 0
        BY <1>0, <2>0, <3>8 DEF Bury, TypeOK
      <4>2. work'[w].task = work[w].task
        BY <1>0, <3>8, GotoWork DEF Bury, Phases
      <4>3. Resolved(work[w].task)'
        BY <4>1, <4>2 DEF Resolved
      <4>. QED
        BY <3>6, <3>8, <4>3 DEF Bury, Busy, Bystanders
    <3>9. CASE LoseConnection(w)
      <4>1. /\ work'[w].pc = work[w].pc /\ work'[w].task = work[w].task
            /\ work'[w].retry = work[w].retry /\ answers' = answers
        BY <1>0, <3>9 DEF LoseConnection, TypeOK, WorkRecord, Bystanders
      <4>2. work[w].pc = "settle" => work[w].task \in Tasks \ Malformed
        BY <2>0 DEF Answering, Busy
      <4>3. Handed(w) /\ work[w].retry + 1 \in Nat
        BY <1>0, <2>0 DEF NInv, Retries
      <4>4. Handed(w)'
        BY <2>a, <2>b, <4>1, <4>2, <4>3, HandedStays
      <4>. QED
        BY <2>0, <4>1, <4>4 DEF Answering, Busy
    <3>10. CASE Compute(w) \/ Ack(w) \/ PublishFails(w) \/ Settle(w) \/ Raise(w) \/ Nack(w)
                \/ Crash(w)
      BY <3>2, <3>3, <3>10 DEF Compute, Ack, PublishFails, Settle, Raise, Nack, Crash, Busy, Phases
    <3>. QED
      BY <1>3, <3>1, <3>4, <3>5, <3>7, <3>8, <3>9, <3>10 DEF WorkerStep, Adverse
  <2>. QED
    BY <1>0, <2>1, <2>2, <2>3 DEF NInv
<1>. QED
  BY <1>1, <1>2, <1>3 DEF Next, Quiet

\* A question the bot has enqueued is answered, dead-lettered or still with the
\* broker, through any number of crashes, lost connections and failed
\* publications, at every step of the handler.
THEOREM TasksAreKept == Spec => []NoTaskLost
<1>1. NInv => NoTaskLost
  BY DEF NInv
<1>. QED
  BY <1>1, NInvInit, NInvNext, PTL DEF Spec

\* A worker that acknowledges a message it has given up on leaves an outcome, or
\* a copy with more retries behind it.
THEOREM MessagesAreHandedOver == Spec => []HandedOver
<1>1. NInv => HandedOver
  BY DEF NInv, Handed, HandedOver
<1>. QED
  BY <1>1, NInvInit, NInvNext, PTL DEF Spec

-----------------------------------------------------------------------------
(***************************************************************************)
(* The answers to one question are bounded.                                *)
(*                                                                         *)
(* A message with retry_count r may still lead to MaxRetries + 1 - r       *)
(* answers: its own and those of the copy its failure makes. Once its      *)
(* answer is sent, only the copy's are left. No step of a worker raises    *)
(* the answers given plus those still allowed; a fault raises them by at   *)
(* most the allowance of a new message, and so does the question itself.   *)
(* The answers allowed are the members of two sets, so that their number   *)
(* is a cardinality.                                                       *)
(***************************************************************************)

\* The answers a message may still lead to, by its retry_count.
Allowance(r) == MaxRetries + 1 - r

\* Those of the messages ready, numbered for each message.
Queued(t) ==
  {x \in (Retries \X Nat) \X Nat :
     x[1][2] \in 1..ready[t][x[1][1]] /\ x[2] \in 1..Allowance(x[1][1])}

\* How many a worker may still give or hand on, with the message it holds.
Duty(w) ==
  IF work[w].pc \in {"ask", "answer"} \/ (work[w].pc = "nack" /\ work[w].owned)
  THEN Allowance(work[w].retry)
  ELSE IF work[w].pc \in {"remember", "ack", "failed"}
  THEN Allowance(work[w].retry) - 1
  ELSE 0

DutyTo(w, t) == IF work[w].task = t THEN Duty(w) ELSE 0

Held(t) == {x \in Workers \X Nat : x[2] \in 1..DutyTo(x[1], t)}

\* The rounds of answers a question may have had.
Rounds(t) == IF t \in accepted THEN faults + 1 ELSE faults

Bounded(t) ==
  /\ IsFiniteSet(Queued(t)) /\ IsFiniteSet(Held(t))
  /\ answers[t] + Cardinality(Queued(t)) + Cardinality(Held(t)) <= (MaxRetries + 1) * Rounds(t)

AInv == TypeOK /\ \A t \in Tasks : Bounded(t)

\* n further members for one message or worker.
LEMMA ShareSize ==
  ASSUME NEW S, IsFiniteSet(S), NEW p, NEW n \in Nat, S \cap ({p} \X (1..n)) = {}
  PROVE  /\ IsFiniteSet(S \cup ({p} \X (1..n)))
         /\ Cardinality(S \cup ({p} \X (1..n))) = Cardinality(S) + n
         /\ Cardinality(S) \in Nat
<1>. DEFINE share == {p} \X (1..n)
<1>1. IsFiniteSet({p}) /\ Cardinality({p}) = 1
  BY FS_Singleton
<1>2. IsFiniteSet(1..n) /\ Cardinality(1..n) = n
  BY FS_Interval
<1>3. IsFiniteSet(share) /\ Cardinality(share) = 1 * n
  <2>1. IsFiniteSet({p} \X (1..n)) /\ Cardinality({p} \X (1..n)) = Cardinality({p}) * Cardinality(1..n)
    BY <1>1, <1>2, FS_Product
  <2>. QED
    BY <1>1, <1>2, <2>1
<1>4. Cardinality(S \cap share) = 0
  BY FS_EmptySet
<1>5. Cardinality(S) \in Nat
  BY FS_CardinalityType
<1>. HIDE DEF share
<1>6. IsFiniteSet(S \cup share) /\ Cardinality(S \cup share) = Cardinality(S) + n - 0
  BY <1>3, <1>4, FS_Union
<1>. QED
  BY <1>5, <1>6 DEF share

LEMMA DutyType ==
  ASSUME TypeOK, NEW w \in Workers
  PROVE  /\ Duty(w) \in Nat /\ Allowance(work[w].retry) \in Nat \ {0}
         /\ \A t : DutyTo(w, t) \in Nat
<1>1. work[w].retry \in 0..MaxRetries
  BY DEF TypeOK, WorkRecord, Retries
<1>. QED
  BY <1>1, RetriesAssumption DEF Duty, DutyTo, Allowance

LEMMA NextDutyType ==
  ASSUME TypeOK', NEW w \in Workers, NEW t
  PROVE  DutyTo(w, t)' \in Nat
<1>1. work'[w].retry \in 0..MaxRetries
  BY DEF TypeOK, WorkRecord, Retries
<1>. QED
  BY <1>1, RetriesAssumption DEF Duty, DutyTo, Allowance

LEMMA AllowanceType == \A r \in Retries : Allowance(r) \in Nat \ {0}
BY RetriesAssumption DEF Allowance, Retries

\* What a step of w does to the answers held for t.
LEMMA HeldStep ==
  ASSUME TypeOK, TypeOK', NEW w \in Workers, NEW t \in Tasks, IsFiniteSet(Held(t)),
         \A v \in Workers : v # w => work'[v] = work[v]
  PROVE  /\ IsFiniteSet(Held(t)')
         /\ Cardinality(Held(t)') + DutyTo(w, t) = Cardinality(Held(t)) + DutyTo(w, t)'
         /\ Cardinality(Held(t)) \in Nat /\ Cardinality(Held(t)') \in Nat
<1>. DEFINE rest == {x \in Held(t) : x[1] # w}
            n == DutyTo(w, t)
            m == DutyTo(w, t)'
<1>1. IsFiniteSet(rest)
  BY FS_Subset
<1>2. n \in Nat /\ m \in Nat
  <2>1. TypeOK => \A t1 : DutyTo(w, t1) \in Nat
    BY DutyType
  <2>. QED
    BY <2>1, NextDutyType
<1>3. \A v \in Workers : v # w => DutyTo(v, t)' = DutyTo(v, t)
  BY DEF DutyTo, Duty
<1>4. Held(t) = rest \cup ({w} \X (1..n))
  BY <1>2 DEF Held
<1>5. Held(t)' = rest \cup ({w} \X (1..m))
  BY <1>2, <1>3 DEF Held
<1>6. rest \cap ({w} \X (1..n)) = {} /\ rest \cap ({w} \X (1..m)) = {}
  OBVIOUS
<1>. HIDE DEF rest, n, m
<1>7. Cardinality(rest \cup ({w} \X (1..n))) = Cardinality(rest) + n /\ Cardinality(rest) \in Nat
  BY <1>1, <1>2, <1>6, ShareSize
<1>8. /\ Cardinality(rest \cup ({w} \X (1..m))) = Cardinality(rest) + m
      /\ IsFiniteSet(rest \cup ({w} \X (1..m)))
  BY <1>1, <1>2, <1>6, ShareSize
<1>9. Cardinality(Held(t)) = Cardinality(rest) + n /\ Cardinality(Held(t)') = Cardinality(rest) + m
  BY <1>4, <1>5, <1>7, <1>8
<1>10. Cardinality(Held(t)') + n = Cardinality(Held(t)) + m
  BY <1>2, <1>7, <1>9
<1>. QED
  BY <1>2, <1>5, <1>7, <1>8, <1>9, <1>10 DEF n, m

\* A message more, and the answers it may lead to.
LEMMA QueueGrows ==
  ASSUME TypeOK, NEW t \in Tasks, NEW r \in Retries, ready' = Enqueued(t, r),
         NEW u \in Tasks, IsFiniteSet(Queued(u))
  PROVE  /\ IsFiniteSet(Queued(u)') /\ Cardinality(Queued(u)) \in Nat
         /\ Cardinality(Queued(u)') =
              Cardinality(Queued(u)) + (IF u = t THEN Allowance(r) ELSE 0)
<1>. DEFINE n == ready[t][r] + 1
            p == <<r, n>>
            share == {p} \X (1..Allowance(r))
<1>1. ready[t][r] \in Nat /\ Allowance(r) \in Nat /\ Cardinality(Queued(u)) \in Nat
  BY AllowanceType, FS_CardinalityType DEF TypeOK
<1>2. \A q \in Retries : ready'[u][q] = IF u = t /\ q = r THEN n ELSE ready[u][q]
  BY EnqueuedReady
<1>3. CASE u # t
  <2>1. Queued(u)' = Queued(u)
    BY <1>2, <1>3 DEF Queued
  <2>. QED
    BY <1>1, <1>3, <2>1
<1>4. CASE u = t
  <2>1. \A x : x \in Queued(u)' <=> x \in Queued(u) \cup share
    <3>1. ASSUME NEW q \in Retries, NEW i \in Nat
          PROVE  i \in 1..ready'[u][q] <=> i \in 1..ready[u][q] \/ (q = r /\ i = n)
      <4>1. ready[u][q] \in Nat
        BY DEF TypeOK
      <4>. QED
        BY <1>1, <1>2, <1>4, <4>1
    <3>2. \A x : x \in share <=> /\ x \in (Retries \X Nat) \X Nat
                                 /\ x[1][1] = r /\ x[1][2] = n /\ x[2] \in 1..Allowance(x[1][1])
      BY <1>1
    <3>. QED
      BY <3>1, <3>2 DEF Queued
  <2>2. Queued(u) \cap share = {}
    BY <1>1, <1>4 DEF Queued
  <2>3. Queued(u)' = Queued(u) \cup share
    BY <2>1
  <2>4. IsFiniteSet(Queued(u) \cup share) /\ Cardinality(Queued(u) \cup share) = Cardinality(Queued(u)) + Allowance(r)
    BY <1>1, <2>2, ShareSize
  <2>. QED
    BY <1>1, <1>4, <2>3, <2>4
<1>. QED
  BY <1>3, <1>4

\* A message less.
LEMMA QueueShrinks ==
  ASSUME TypeOK, NEW t \in Tasks, NEW r \in Retries, ready[t][r] > 0,
         ready' = [ready EXCEPT ![t][r] = @ - 1],
         NEW u \in Tasks, IsFiniteSet(Queued(u))
  PROVE  /\ IsFiniteSet(Queued(u)') /\ Cardinality(Queued(u)') \in Nat
         /\ Cardinality(Queued(u)) =
              Cardinality(Queued(u)') + (IF u = t THEN Allowance(r) ELSE 0)
<1>. DEFINE n == ready[t][r]
            p == <<r, n>>
            share == {p} \X (1..Allowance(r))
<1>1. ready[t][r] \in Nat /\ Allowance(r) \in Nat
  BY AllowanceType DEF TypeOK
<1>2. \A q \in Retries : ready'[u][q] = IF u = t /\ q = r THEN n - 1 ELSE ready[u][q]
  BY DEF TypeOK
<1>3. CASE u # t
  <2>1. Queued(u)' = Queued(u)
    BY <1>2, <1>3 DEF Queued
  <2>. QED
    BY <1>1, <1>3, <2>1, FS_CardinalityType
<1>4. CASE u = t
  <2>1. \A x : x \in Queued(u) <=> x \in Queued(u)' \cup share
    <3>1. ASSUME NEW q \in Retries, NEW i \in Nat
          PROVE  i \in 1..ready[u][q] <=> i \in 1..ready'[u][q] \/ (q = r /\ i = n)
      <4>1. ready[u][q] \in Nat
        BY DEF TypeOK
      <4>. QED
        BY <1>1, <1>2, <1>4, <4>1
    <3>2. \A x : x \in share <=> /\ x \in (Retries \X Nat) \X Nat
                                 /\ x[1][1] = r /\ x[1][2] = n /\ x[2] \in 1..Allowance(x[1][1])
      BY <1>1
    <3>. QED
      BY <3>1, <3>2 DEF Queued
  <2>2. Queued(u)' \cap share = {}
    BY <1>1, <1>2, <1>4 DEF Queued
  <2>3. Queued(u) = Queued(u)' \cup share
    BY <2>1
  <2>4. IsFiniteSet(Queued(u)')
    BY <2>3, FS_Subset
  <2>5. /\ Cardinality(Queued(u)' \cup share) = Cardinality(Queued(u)') + Allowance(r)
        /\ Cardinality(Queued(u)') \in Nat
    BY <1>1, <2>2, <2>4, ShareSize
  <2>. QED
    BY <1>4, <2>3, <2>4, <2>5
<1>. QED
  BY <1>3, <1>4

LEMMA AInvInit == Init => AInv
<1>. SUFFICES ASSUME Init, NEW t \in Tasks PROVE Bounded(t)
  BY InitType DEF AInv
<1>1. Queued(t) = {} /\ Held(t) = {}
  <2>1. \A r \in Retries : ready[t][r] = 0
    BY DEF Init
  <2>2. \A w \in Workers : DutyTo(w, t) = 0
    BY DEF Init, DutyTo, Duty
  <2>. QED
    BY <2>1, <2>2 DEF Queued, Held
<1>2. answers[t] = 0 /\ Rounds(t) = 0 /\ (MaxRetries + 1) * 0 = 0
  BY RetriesAssumption DEF Init, Zero, Rounds
<1>. QED
  BY <1>1, <1>2, FS_EmptySet DEF Bounded

\* A step of a worker gives no more answers to u, and leaves no more to be given,
\* than were left before, except for one new allowance with a fault.
LEMMA Spends ==
  ASSUME AInv, TypeOK', NEW w \in Workers, WorkerStep(w) \/ Adverse(w), NEW u \in Tasks
  PROVE  /\ IsFiniteSet(Queued(u)') /\ faults' \in {faults, faults + 1}
         /\ answers'[u] + Cardinality(Queued(u)') + DutyTo(w, u)'
              <= answers[u] + Cardinality(Queued(u)) + DutyTo(w, u)
                   + (IF faults' = faults THEN 0 ELSE MaxRetries + 1)
<1>. DEFINE t == work[w].task
            q == work[w].retry
            A == Allowance(q)
            qu == Cardinality(Queued(u))
            qv == Cardinality(Queued(u)')
            du == DutyTo(w, u)
            dv == DutyTo(w, u)'
<1>1. /\ TypeOK /\ t \in Tasks /\ q \in Retries /\ IsFiniteSet(Queued(u)) /\ qu \in Nat
      /\ answers[u] \in Nat /\ faults \in Nat /\ MaxRetries \in Nat
  <2>1. TypeOK /\ IsFiniteSet(Queued(u))
    BY DEF AInv, Bounded
  <2>2. t \in Tasks /\ q \in Retries /\ answers[u] \in Nat /\ faults \in Nat
    BY <2>1, FaultsAssumption DEF TypeOK, WorkRecord
  <2>. QED
    BY <2>1, <2>2, RetriesAssumption, FS_CardinalityType
<1>2. /\ A \in 1..(MaxRetries + 1)
      /\ q < MaxRetries => A - 1 = Allowance(q + 1) /\ q + 1 \in Retries
      /\ Duty(w) \in 0..A /\ du = IF u = t THEN Duty(w) ELSE 0
  BY <1>1 DEF Allowance, Retries, Duty, DutyTo
<1>3. ASSUME ready' = ready PROVE IsFiniteSet(Queued(u)') /\ qv = qu
  <2>1. Queued(u)' = Queued(u)
    BY <1>3 DEF Queued
  <2>. QED
    BY <1>1, <2>1
<1>4. ASSUME NEW r \in Retries, ready' = Enqueued(t, r)
      PROVE  IsFiniteSet(Queued(u)') /\ qv = qu + (IF u = t THEN Allowance(r) ELSE 0)
  BY <1>1, <1>4, QueueGrows
<1>5. ASSUME work'[w].task = t PROVE dv = IF u = t THEN Duty(w)' ELSE 0
  BY <1>5 DEF DutyTo
<1>6. ASSUME NEW p \in Phases, Goto(w, p)
      PROVE  /\ dv = IF u = t THEN Duty(w)' ELSE 0
             /\ Duty(w)' = IF p \in {"ask", "answer"} \/ (p = "nack" /\ work[w].owned) THEN A
                           ELSE IF p \in {"remember", "ack", "failed"} THEN A - 1 ELSE 0
  <2>1. /\ work'[w].pc = p /\ work'[w].task = t /\ work'[w].retry = q
        /\ work'[w].owned = work[w].owned
    BY <1>1, <1>6, GotoWork
  <2>. QED
    BY <1>5, <2>1 DEF Duty, Allowance
<1>7. ASSUME Leave(w) PROVE dv = 0
  BY <1>1, <1>7, LeaveWork DEF DutyTo, Duty
<1>8. Duty(w) = IF work[w].pc \in {"ask", "answer"} \/ (work[w].pc = "nack" /\ work[w].owned) THEN A
                ELSE IF work[w].pc \in {"remember", "ack", "failed"} THEN A - 1 ELSE 0
  BY DEF Duty
<1>. HIDE DEF t, q, A, qu, qv, du, dv
<1>9. CASE Compute(w) \/ Remember(w) \/ Raise(w) \/ Ack(w) \/ Bury(w) \/ Settle(w)
  <2>1. /\ ready' = ready /\ answers' = answers /\ faults' = faults
        /\ work[w].pc \in {"ask", "answer", "remember", "ack", "failed", "settle"}
        /\ \/ Leave(w)
           \/ Goto(w, "answer") /\ work[w].pc = "ask"
           \/ Goto(w, "ack") /\ work[w].pc = "remember"
           \/ Goto(w, "failed") /\ work[w].pc \in {"ask", "answer", "remember", "ack"}
           \/ Goto(w, "settle")
           \/ Goto(w, "nack") /\ ~work[w].owned
    BY <1>9 DEF Compute, Remember, Raise, Ack, Bury, Settle, Bystanders
  <2>2. dv <= du /\ dv \in Nat /\ du \in Nat
    BY <1>2, <1>6, <1>7, <1>8, <2>1 DEF Phases
  <2>. QED
    BY <1>1, <1>3, <2>1, <2>2 DEF qu, qv, du, dv
<1>10. CASE SendAnswer(w)
  <2>1. /\ ready' = ready /\ answers' = [answers EXCEPT ![t] = @ + 1] /\ faults' = faults
        /\ work[w].pc = "answer" /\ Goto(w, "remember")
    BY <1>10 DEF SendAnswer, t
  <2>2. answers'[u] = answers[u] + (IF u = t THEN 1 ELSE 0)
    BY <1>1, <2>1 DEF TypeOK
  <2>3. dv + (IF u = t THEN 1 ELSE 0) = du /\ dv \in Nat
    BY <1>2, <1>6, <1>8, <2>1 DEF Phases
  <2>. QED
    BY <1>1, <1>3, <2>1, <2>2, <2>3 DEF qu, qv, du, dv
<1>11. CASE Republish(w)
  <2>1. /\ q < MaxRetries /\ ready' = Enqueued(t, q + 1) /\ answers' = answers /\ faults' = faults
        /\ work[w].pc = "failed" /\ Goto(w, "settle")
    BY <1>11 DEF Republish, t, q, Bystanders
  <2>2. dv = 0 /\ du = IF u = t THEN A - 1 ELSE 0
    BY <1>2, <1>6, <1>8, <2>1 DEF Phases
  <2>3. IsFiniteSet(Queued(u)') /\ qv = qu + (IF u = t THEN A - 1 ELSE 0)
    BY <1>2, <1>4, <2>1
  <2>. QED
    BY <1>1, <1>2, <2>1, <2>2, <2>3 DEF qu, qv, du, dv
<1>12. CASE PublishFails(w)
  <2>1. /\ ready' = ready \/ (q < MaxRetries /\ ready' = Enqueued(t, q + 1))
        /\ answers' = answers /\ faults' = faults + 1
        /\ work[w].pc = "failed" /\ Goto(w, "nack")
    BY <1>12 DEF PublishFails, Fault, t, q, Bystanders
  <2>2. /\ dv <= (IF u = t THEN A ELSE 0) /\ dv \in Nat
        /\ du = IF u = t THEN A - 1 ELSE 0
    BY <1>2, <1>6, <1>8, <2>1 DEF Phases
  <2>3. IsFiniteSet(Queued(u)') /\ qv <= qu + (IF u = t THEN A - 1 ELSE 0) /\ qv \in Nat
    BY <1>1, <1>2, <1>3, <1>4, <2>1
  <2>. QED
    BY <1>1, <1>2, <2>1, <2>2, <2>3 DEF qu, qv, du, dv
<1>13. CASE Nack(w)
  <2>1. /\ ready' = IF work[w].owned THEN Enqueued(t, q) ELSE ready
        /\ answers' = answers /\ faults' = faults /\ work[w].pc = "nack" /\ Leave(w)
    BY <1>13 DEF Nack, t, q, Bystanders
  <2>2. dv = 0 /\ du = IF u = t /\ work[w].owned THEN A ELSE 0
    BY <1>2, <1>7, <1>8, <2>1
  <2>3. /\ IsFiniteSet(Queued(u)')
        /\ qv = qu + (IF u = t /\ work[w].owned THEN A ELSE 0)
    BY <1>1, <1>3, <1>4, <2>1 DEF A
  <2>. QED
    BY <1>1, <1>2, <2>1, <2>2, <2>3 DEF qu, qv, du, dv
<1>14. CASE Crash(w) \/ LoseConnection(w)
  <2>1. /\ ready' = Enqueued(t, q) \/ ready' = ready
        /\ answers' = answers /\ faults' = faults + 1
    BY <1>14 DEF Crash, LoseConnection, Fault, t, q, Bystanders
  <2>2. dv <= du /\ dv \in Nat /\ du \in Nat
    <3>1. CASE Crash(w)
      BY <1>2, <1>7, <3>1 DEF Crash
    <3>2. CASE LoseConnection(w)
      <4>1. /\ work'[w].pc = work[w].pc /\ work'[w].task = t /\ work'[w].retry = q
            /\ work'[w].owned = FALSE
        BY <1>1, <3>2 DEF LoseConnection, TypeOK, WorkRecord, t, q
      <4>2. Duty(w)' <= Duty(w) /\ Duty(w)' \in Nat
        BY <1>2, <1>8, <4>1 DEF Duty, A, q
      <4>. QED
        BY <1>2, <1>5, <4>1, <4>2
    <3>. QED
      BY <1>14, <3>1, <3>2
  <2>3. IsFiniteSet(Queued(u)') /\ qv <= qu + A /\ qv \in Nat
    BY <1>1, <1>2, <1>3, <1>4, <2>1 DEF A
  <2>. QED
    BY <1>1, <1>2, <2>1, <2>2, <2>3 DEF qu, qv, du, dv
<1>15. CASE Take(w)
  <2>1. PICK v \in Tasks, r \in Retries :
          /\ ready[v][r] > 0 /\ ready' = [ready EXCEPT ![v][r] = @ - 1]
          /\ \/ work' = work
             \/ work' = [work EXCEPT ![w] = [pc |-> "ask", task |-> v, retry |-> r, owned |-> TRUE]]
    BY <1>15 DEF Take
  <2>2. work[w].pc = "idle" /\ answers' = answers /\ faults' = faults
    BY <1>15 DEF Take, Busy
  <2>3. /\ IsFiniteSet(Queued(u)') /\ qv \in Nat
        /\ qu = qv + (IF u = v THEN Allowance(r) ELSE 0)
    BY <1>1, <2>1, QueueShrinks DEF qu, qv
  <2>4. Allowance(r) \in Nat
    BY AllowanceType
  <2>5. du = 0
    BY <1>2, <1>8, <2>2
  <2>6. dv = 0 \/ dv = IF u = v THEN Allowance(r) ELSE 0
    <3>1. CASE work' = work
      BY <2>5, <3>1 DEF du, dv, DutyTo, Duty
    <3>2. CASE work' = [work EXCEPT ![w] = [pc |-> "ask", task |-> v, retry |-> r, owned |-> TRUE]]
      <4>1. work'[w].pc = "ask" /\ work'[w].task = v /\ work'[w].retry = r
        BY <1>1, <3>2 DEF TypeOK
      <4>. QED
        BY <4>1 DEF dv, DutyTo, Duty
    <3>. QED
      BY <2>1, <3>1, <3>2
  <2>. QED
    BY <1>1, <2>2, <2>3, <2>4, <2>5, <2>6 DEF qu, qv, du, dv
<1>. QED
  BY <1>9, <1>10, <1>11, <1>12, <1>13, <1>14, <1>15 DEF WorkerStep, Adverse

LEMMA OneMoreRound ==
  ASSUME NEW n \in Nat
  PROVE  /\ (MaxRetries + 1) * (n + 1) = (MaxRetries + 1) * n + (MaxRetries + 1)
         /\ (MaxRetries + 1) * n \in Nat
<1>. DEFINE m == MaxRetries + 1
<1>1. m \in Nat
  BY RetriesAssumption
<1>. HIDE DEF m
<1>2. m * (n + 1) = m * n + m /\ m * n \in Nat
  BY <1>1
<1>. QED
  BY <1>2 DEF m

LEMMA AInvNext == AInv /\ [Next]_vars => AInv'
<1>. SUFFICES ASSUME AInv, [Next]_vars PROVE AInv'
  OBVIOUS
<1>0. TypeOK /\ TypeOK'
  BY NextType DEF AInv
<1>1. CASE UNCHANGED vars
  BY <1>0, <1>1 DEF AInv, Bounded, Queued, Held, DutyTo, Duty, Rounds, vars
<1>2. ASSUME NEW t \in Tasks, Publish(t), NEW u \in Tasks PROVE Bounded(u)'
  <2>1. 0 \in Retries /\ Allowance(0) = MaxRetries + 1 /\ MaxRetries \in Nat /\ faults \in Nat
    BY <1>0, RetriesAssumption, FaultsAssumption DEF Retries, Allowance, TypeOK
  <2>2. /\ Held(u)' = Held(u) /\ answers' = answers
        /\ Rounds(u)' = IF u = t THEN Rounds(u) + 1 ELSE Rounds(u)
    BY <1>2, <2>1 DEF Publish, Held, DutyTo, Duty, Rounds
  <2>3. Bounded(u)
    BY DEF AInv
  <2>4. /\ IsFiniteSet(Queued(u)') /\ Cardinality(Queued(u)) \in Nat
        /\ Cardinality(Queued(u)') = Cardinality(Queued(u)) + (IF u = t THEN MaxRetries + 1 ELSE 0)
    BY <1>0, <1>2, <2>1, <2>3, QueueGrows DEF Publish, Bounded
  <2>5. /\ Rounds(u) \in Nat /\ answers[u] \in Nat /\ Cardinality(Held(u)) \in Nat
        /\ (MaxRetries + 1) * (Rounds(u) + 1) = (MaxRetries + 1) * Rounds(u) + (MaxRetries + 1)
        /\ (MaxRetries + 1) * Rounds(u) \in Nat
    <3>1. Rounds(u) \in Nat /\ answers[u] \in Nat
      BY <1>0, <2>1 DEF Rounds, TypeOK
    <3>2. Cardinality(Held(u)) \in Nat
      BY <2>3, FS_CardinalityType DEF Bounded
    <3>. QED
      BY <3>1, <3>2, OneMoreRound
  <2>. QED
    BY <2>1, <2>2, <2>3, <2>4, <2>5 DEF Bounded
<1>3. ASSUME NEW w \in Workers, WorkerStep(w) \/ Adverse(w), NEW u \in Tasks PROVE Bounded(u)'
  <2>1. Bounded(u)
    BY DEF AInv
  <2>2. /\ IsFiniteSet(Queued(u)') /\ faults' \in {faults, faults + 1}
        /\ answers'[u] + Cardinality(Queued(u)') + DutyTo(w, u)'
             <= answers[u] + Cardinality(Queued(u)) + DutyTo(w, u)
                  + (IF faults' = faults THEN 0 ELSE MaxRetries + 1)
    BY <1>0, <1>3, Spends
  <2>3. /\ IsFiniteSet(Held(u)')
        /\ Cardinality(Held(u)') + DutyTo(w, u) = Cardinality(Held(u)) + DutyTo(w, u)'
        /\ Cardinality(Held(u)) \in Nat /\ Cardinality(Held(u)') \in Nat
    BY <1>0, <1>3, <2>1, OthersWork, HeldStep DEF Bounded
  <2>4. accepted' = accepted
    BY <1>3 DEF WorkerStep, Adverse, Take, Compute, SendAnswer, Remember, Ack, Republish, Bury,
         Settle, Nack, Raise, PublishFails, Crash, LoseConnection, Bystanders
  <2>5. /\ answers[u] \in Nat /\ answers'[u] \in Nat /\ MaxRetries \in Nat /\ faults \in Nat
        /\ Cardinality(Queued(u)) \in Nat /\ Cardinality(Queued(u)') \in Nat
        /\ DutyTo(w, u) \in Nat
    BY <1>0, <2>1, <2>2, DutyType, RetriesAssumption, FaultsAssumption, FS_CardinalityType, SMTT(30)
    DEF TypeOK, Bounded
  <2>6. DutyTo(w, u)' \in Nat
    BY <1>0, NextDutyType
  <2>7. /\ Rounds(u) \in Nat
        /\ Rounds(u)' = IF faults' = faults THEN Rounds(u) ELSE Rounds(u) + 1
    <3>1. faults' = faults \/ faults' = faults + 1
      BY <2>2
    <3>2. /\ u \in accepted => Rounds(u) = faults + 1 /\ Rounds(u)' = faults' + 1
          /\ u \notin accepted => Rounds(u) = faults /\ Rounds(u)' = faults'
      BY <2>4 DEF Rounds
    <3>. QED
      BY <2>5, <3>1, <3>2
  <2>8. /\ (MaxRetries + 1) * (Rounds(u) + 1) = (MaxRetries + 1) * Rounds(u) + (MaxRetries + 1)
        /\ (MaxRetries + 1) * Rounds(u) \in Nat
    BY <2>7, OneMoreRound
  <2>. QED
    BY <2>1, <2>2, <2>3, <2>5, <2>6, <2>7, <2>8 DEF Bounded
<1>. QED
  BY <1>0, <1>1, <1>2, <1>3 DEF Next, Quiet, AInv

\* The price of delivery at least once: however messages and their copies are
\* redelivered, a fault lets the user see at most one more round of answers.
THEOREM AnswersAreBounded == Spec => []AnswersBounded
<1>1. AInv => AnswersBounded
  <2>. SUFFICES ASSUME AInv, NEW t \in Tasks
                PROVE  answers[t] <= (MaxRetries + 1) * (faults + 1)
    BY DEF AnswersBounded
  <2>1. /\ answers[t] \in Nat /\ faults \in Nat /\ MaxRetries \in Nat
        /\ Cardinality(Queued(t)) \in Nat /\ Cardinality(Held(t)) \in Nat
        /\ answers[t] + Cardinality(Queued(t)) + Cardinality(Held(t)) <= (MaxRetries + 1) * Rounds(t)
    BY RetriesAssumption, FaultsAssumption, FS_CardinalityType DEF AInv, Bounded, TypeOK
  <2>2. (MaxRetries + 1) * Rounds(t) <= (MaxRetries + 1) * (faults + 1)
    <3>1. (MaxRetries + 1) * (faults + 1) = (MaxRetries + 1) * faults + (MaxRetries + 1)
      BY <2>1, OneMoreRound
    <3>. QED
      BY <2>1, <3>1 DEF Rounds
  <2>3. (MaxRetries + 1) * Rounds(t) \in Nat /\ (MaxRetries + 1) * (faults + 1) \in Nat
    BY <2>1 DEF Rounds
  <2>. QED
    BY <2>1, <2>2, <2>3
<1>. QED
  BY <1>1, AInvInit, AInvNext, PTL DEF Spec

=============================================================================
