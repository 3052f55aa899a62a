---------------------------- MODULE WorkerQueue ----------------------------
(***************************************************************************)
(* The AI tasks between the bot and the worker: the RabbitMQ queue         *)
(* ai_generation, its dead letter queue, and worker.py, which answers,     *)
(* retries by publishing a copy with a higher retry_count, and gives up.   *)
(*                                                                         *)
(* RabbitMQ delivers at least once: a message that was delivered and not   *)
(* acknowledged when the connection is lost, or when its worker dies, is   *)
(* ready again. Which ready message a worker gets next is left open (the   *)
(* broker may put a returned message anywhere near the head, and the       *)
(* prefetched ones come back too), so ready is a bag.                      *)
(***************************************************************************)
EXTENDS Integers

CONSTANTS
  Tasks,      \* the questions the bot may enqueue
  Malformed,  \* those whose payload lacks chat_id or messages
  Workers,    \* worker processes that consume the queue
  MaxRetries, \* settings.ai_max_retries
  MaxFaults   \* bound: crashes, lost connections, failed publications

ASSUME TasksAssumption == Malformed \subseteq Tasks
ASSUME RetriesAssumption == MaxRetries \in Nat
ASSUME FaultsAssumption == MaxFaults \in Nat

VARIABLES
  accepted, \* tasks the bot has published
  ready,    \* messages in ai_generation, by task and retry_count
  dead,     \* messages in the dead letter queue, by task
  work,     \* what each worker is doing with which message
  answers,  \* answers each user has got, by task
  failures, \* history: processing attempts of the task that raised
  faults    \* history: faults so far

vars == <<accepted, ready, dead, work, answers, failures, faults>>

Retries == 0..MaxRetries

Phases == {"idle", "ask", "answer", "remember", "ack", "failed", "settle", "nack"}

\* The message a worker holds; owned while the broker still waits for its ack.
WorkRecord == [pc : Phases, task : Tasks, retry : Retries, owned : BOOLEAN]

TypeOK ==
  /\ accepted \in SUBSET Tasks
  /\ ready \in [Tasks -> [Retries -> Nat]]
  /\ dead \in [Tasks -> Nat]
  /\ work \in [Workers -> WorkRecord]
  /\ answers \in [Tasks -> Nat]
  /\ failures \in [Tasks -> Nat]
  /\ faults \in 0..MaxFaults

Zero == [t \in Tasks |-> 0]

Init ==
  /\ accepted = {}
  /\ ready = [t \in Tasks |-> [r \in Retries |-> 0]]
  /\ dead = Zero
  /\ work \in [Workers -> {[pc |-> "idle", task |-> t, retry |-> 0, owned |-> FALSE] : t \in Tasks}]
  /\ answers = Zero
  /\ failures = Zero
  /\ faults = 0

-----------------------------------------------------------------------------
Busy(w) == work[w].pc # "idle"

Goto(w, p) == work' = [work EXCEPT ![w].pc = p]

\* The worker is through with its message and waits for the next one.
Leave(w) == work' = [work EXCEPT ![w].pc = "idle", ![w].owned = FALSE]

Enqueued(t, r) == [ready EXCEPT ![t][r] = @ + 1]

Fault == faults < MaxFaults /\ faults' = faults + 1

\* What a step of the worker on its own message leaves alone.
Bystanders == <<accepted, answers, failures>>

\* The bot publishes a question (send_task_to_queue); it has no retry_count.
Publish(t) ==
  /\ t \notin accepted
  /\ accepted' = accepted \cup {t}
  /\ ready' = Enqueued(t, 0)
  /\ UNCHANGED <<dead, work, answers, failures, faults>>

\* Mutant: a message already delivered is delivered again while it is held.
Take_Twice(w) ==
  /\ ~Busy(w)
  /\ \E t \in accepted, r \in Retries :
       /\ ready' = [ready EXCEPT ![t][r] = @ - 1]
       /\ work' = [work EXCEPT ![w] = [pc |-> "ask", task |-> t, retry |-> r,
                                     owned |-> TRUE]]
  /\ UNCHANGED <<accepted, dead, answers, failures, faults>>

\* The next message is delivered. One that lacks its fields is dropped with
\* nack(requeue=False); the queue has no dead letter exchange.
Take(w) ==
  /\ ~Busy(w)
  /\ \E t \in Tasks, r \in Retries :
       /\ ready[t][r] > 0
       /\ ready' = [ready EXCEPT ![t][r] = @ - 1]
       /\ IF t \in Malformed
          THEN UNCHANGED work
          ELSE work' = [work EXCEPT ![w] = [pc |-> "ask", task |-> t, retry |-> r,
                                            owned |-> TRUE]]
  /\ UNCHANGED <<accepted, dead, answers, failures, faults>>

\* The answer is computed or fetched, and the chat log written.
Compute(w) ==
  /\ work[w].pc = "ask"
  /\ Goto(w, "answer")
  /\ UNCHANGED <<accepted, ready, dead, answers, failures, faults>>

\* The answer is sent to the user's chat.
SendAnswer(w) ==
  /\ work[w].pc = "answer"
  /\ Goto(w, "remember")
  /\ answers' = [answers EXCEPT ![work[w].task] = @ + 1]
  /\ UNCHANGED <<accepted, ready, dead, failures, faults>>

\* Product cards are sent, history and pending post are stored.
Remember(w) ==
  /\ work[w].pc = "remember"
  /\ Goto(w, "ack")
  /\ UNCHANGED <<accepted, ready, dead, answers, failures, faults>>

\* The provider, the database, Telegram or Redis raises.
Raise(w) ==
  /\ work[w].pc \in {"ask", "answer", "remember"}
  /\ Goto(w, "failed")
  /\ failures' = [failures EXCEPT ![work[w].task] = @ + 1]
  /\ UNCHANGED <<accepted, ready, dead, answers, faults>>

\* message.ack(). After a lost connection it has no effect, and may raise: that
\* is an exception of the try block like any other.
Ack(w) ==
  /\ work[w].pc = "ack"
  /\ \/ Leave(w) /\ UNCHANGED failures
     \/ /\ ~work[w].owned
        /\ Goto(w, "failed")
        /\ failures' = [failures EXCEPT ![work[w].task] = @ + 1]
  /\ UNCHANGED <<accepted, ready, dead, answers, faults>>

\* Mutant: the copy keeps the retry_count of the original.
Republish_SameCount(w) ==
  /\ work[w].pc = "failed"
  /\ work[w].retry < MaxRetries
  /\ ready' = Enqueued(work[w].task, work[w].retry)
  /\ Goto(w, "settle")
  /\ UNCHANGED <<dead, faults>> /\ UNCHANGED Bystanders

\* _republish_with_retry.
Republish(w) ==
  /\ work[w].pc = "failed"
  /\ work[w].retry < MaxRetries
  /\ ready' = Enqueued(work[w].task, work[w].retry + 1)
  /\ Goto(w, "settle")
  /\ UNCHANGED <<dead, faults>> /\ UNCHANGED Bystanders

\* Mutant: the last retry is not made.
Bury_Early(w) ==
  /\ work[w].pc = "failed"
  /\ work[w].retry + 1 >= MaxRetries
  /\ dead' = [dead EXCEPT ![work[w].task] = @ + 1]
  /\ Goto(w, "settle")
  /\ UNCHANGED <<ready, faults>> /\ UNCHANGED Bystanders

\* _publish_to_dlq.
Bury(w) ==
  /\ work[w].pc = "failed"
  /\ work[w].retry >= MaxRetries
  /\ dead' = [dead EXCEPT ![work[w].task] = @ + 1]
  /\ Goto(w, "settle")
  /\ UNCHANGED <<ready, faults>> /\ UNCHANGED Bystanders

\* The publication of the copy raises, with the broker having it or not.
PublishFails(w) ==
  /\ work[w].pc = "failed"
  /\ Fault
  /\ \/ UNCHANGED <<ready, dead>>
     \/ /\ work[w].retry < MaxRetries
        /\ ready' = Enqueued(work[w].task, work[w].retry + 1)
        /\ UNCHANGED dead
     \/ /\ work[w].retry >= MaxRetries
        /\ dead' = [dead EXCEPT ![work[w].task] = @ + 1]
        /\ UNCHANGED ready
  /\ Goto(w, "nack")
  /\ UNCHANGED Bystanders

\* message.ack() after the copy was published.
Settle(w) ==
  /\ work[w].pc = "settle"
  /\ \/ Leave(w)
     \/ ~work[w].owned /\ Goto(w, "nack")
  /\ UNCHANGED <<ready, dead, faults>> /\ UNCHANGED Bystanders

\* Mutant: a message whose retry could not be published is dropped.
Nack_Dropped(w) ==
  /\ work[w].pc = "nack"
  /\ Leave(w)
  /\ UNCHANGED <<ready, dead, faults>> /\ UNCHANGED Bystanders

\* message.nack(requeue=True). After a lost connection it raises, and the loop
\* of _consume_queue opens a new one.
Nack(w) ==
  /\ work[w].pc = "nack"
  /\ ready' = IF work[w].owned THEN Enqueued(work[w].task, work[w].retry) ELSE ready
  /\ Leave(w)
  /\ UNCHANGED <<dead, faults>> /\ UNCHANGED Bystanders

\* The worker process dies; its unacknowledged message is ready again.
Crash(w) ==
  /\ Busy(w)
  /\ Fault
  /\ ready' = IF work[w].owned THEN Enqueued(work[w].task, work[w].retry) ELSE ready
  /\ Leave(w)
  /\ UNCHANGED dead /\ UNCHANGED Bystanders

\* The connection is lost while the handler runs on: the broker gives the
\* message to the next consumer, the handler does not know.
LoseConnection(w) ==
  /\ Busy(w)
  /\ work[w].owned
  /\ Fault
  /\ ready' = Enqueued(work[w].task, work[w].retry)
  /\ work' = [work EXCEPT ![w].owned = FALSE]
  /\ UNCHANGED dead /\ UNCHANGED Bystanders

-----------------------------------------------------------------------------
\* What a live worker does without a fault.
WorkerStep(w) ==
  \/ Take(w) \/ Compute(w) \/ SendAnswer(w) \/ Remember(w) \/ Ack(w)
  \/ Republish(w) \/ Bury(w) \/ Settle(w) \/ Nack(w)

Adverse(w) == Raise(w) \/ PublishFails(w) \/ Crash(w) \/ LoseConnection(w)

\* Every question has been asked and settled.
Quiet ==
  /\ accepted = Tasks
  /\ \A w \in Workers : ~Busy(w)
  /\ \A t \in Tasks, r \in Retries : ready[t][r] = 0
  /\ UNCHANGED vars

Next == \/ \E t \in Tasks : Publish(t)
        \/ \E w \in Workers : WorkerStep(w) \/ Adverse(w)
        \/ Quiet

Spec == Init /\ [][Next]_vars

\* A live worker goes on: its process is restarted (restart: always), its loop
\* reconnects for ever. Nothing forces the bot to publish.
FairSpec == Spec /\ \A w \in Workers : WF_vars(WorkerStep(w))

(***************************************************************************)
(* Properties.                                                             *)
(***************************************************************************)

\* A copy of the task with at least r retries behind it is still to be worked on.
Pending(t, r) ==
  \E q \in Retries :
    /\ q >= r
    /\ \/ ready[t][q] > 0
       \/ \E w \in Workers : /\ Busy(w) /\ work[w].owned
                             /\ work[w].task = t /\ work[w].retry = q

Resolved(t) == answers[t] > 0 \/ dead[t] > 0

\* No question is lost: whatever crashes between two steps of the worker, an
\* accepted task is answered, dead-lettered, or still held by the broker.
NoTaskLost ==
  \A t \in accepted \ Malformed : Resolved(t) \/ Pending(t, 0)

\* A copy with retry_count r was preceded by r failures of that task, and a task
\* is given up only after MaxRetries + 1 of them, also when redelivered
\* originals and their copies are worked on side by side.
RetriesEarned ==
  /\ \A t \in Tasks, r \in Retries : ready[t][r] > 0 => failures[t] >= r
  /\ \A t \in Tasks : dead[t] > 0 => failures[t] > MaxRetries

\* A worker that acknowledges the message it gave up on leaves a copy behind
\* that has been retried more often, or a final outcome.
HandedOver ==
  \A w \in Workers :
    work[w].pc = "settle" =>
      \/ Resolved(work[w].task)
      \/ work[w].retry < MaxRetries /\ Pending(work[w].task, work[w].retry + 1)

\* At-least-once has a price, and it is bounded: each fault can let the user see
\* at most one more round of MaxRetries + 1 answers to one question.
AnswersBounded ==
  \A t \in Tasks : answers[t] <= (MaxRetries + 1) * (faults + 1)

\* Every question the bot has enqueued is eventually answered or dead-lettered
\* and no copy of it stays behind: retries end, although copies make copies.
EveryTaskSettles ==
  \A t \in Tasks \ Malformed :
    t \in accepted ~> Resolved(t) /\ ~Pending(t, 0)

=============================================================================
