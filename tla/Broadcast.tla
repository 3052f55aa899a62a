------------------------------ MODULE Broadcast ------------------------------
(***************************************************************************)
(* The pool that sends one text to many users (_broadcast_post in ai.py,   *)
(* _broadcast_promo_video in promo_menu_support.py): a queue of user ids,  *)
(* workers that take, send, count and call task_done, and a caller that    *)
(* waits in queue.join() and then cancels the workers. A component: it has *)
(* no Next of its own; Tenants starts broadcasts and waits for them.       *)
(***************************************************************************)
EXTENDS Naturals, FiniteSets

CONSTANT Workers        \* min(32, recipients), or 16 for the promo video
ASSUME WorkersAssumption == IsFiniteSet(Workers)

VARIABLES
  phase,                \* what the caller does: "idle", "joining", "returned"
  todo,                 \* the ids in the queue
  hand,                 \* the id each worker holds, and what it does with it
  unfinished,           \* items put into the queue and not yet task_done
  counted,              \* sent_count
  got, unsure           \* history: copies each user got; copies not counted

pool == <<phase, todo, hand, unfinished, counted, got, unsure>>

Nobody == [pc |-> "get", to |-> 0]
PoolTypeOK(users) ==
  /\ phase \in {"idle", "joining", "returned"} /\ todo \subseteq users
  /\ hand \in [Workers -> [pc : {"get", "send", "plain", "count", "done"},
                           to : users \cup {0}]]
  /\ unfinished \in 0..Cardinality(users) /\ counted \in Nat /\ unsure \in Nat
  /\ got \in [users -> Nat]

PoolInit(users) ==
  /\ phase = "idle" /\ todo = {} /\ hand = [w \in Workers |-> Nobody]
  /\ unfinished = 0 /\ counted = 0 /\ got = [u \in users |-> 0] /\ unsure = 0

\* Nobody to send to: the caller says so and returns.
PoolStart(recipients) ==
  /\ phase = "idle" /\ recipients # {}
  /\ phase' = "joining" /\ todo' = recipients /\ unfinished' = Cardinality(recipients)
  /\ counted' = 0 /\ got' = [u \in DOMAIN got |-> 0] /\ unsure' = 0
  /\ UNCHANGED hand

Holds(w, pc) == phase = "joining" /\ hand[w].pc = pc
Goes(w, pc) == hand' = [hand EXCEPT ![w].pc = pc]

Take(w) ==
  /\ Holds(w, "get")
  /\ \E u \in todo : todo' = todo \ {u} /\ hand' = [hand EXCEPT ![w] = [pc |-> "send", to |-> u]]
  /\ UNCHANGED <<phase, unfinished, counted, got, unsure>>

\* Telegram delivers and says so; it refuses; or it delivers and the answer is
\* lost, which the worker cannot tell from a failure.
Attempt(w, onRefusal) ==
  /\ \/ Goes(w, "count") /\ got' = [got EXCEPT ![hand[w].to] = @ + 1] /\ UNCHANGED unsure
     \/ Goes(w, onRefusal) /\ UNCHANGED <<got, unsure>>
     \/ /\ Goes(w, "done") /\ got' = [got EXCEPT ![hand[w].to] = @ + 1]
        /\ unsure' = unsure + 1
  /\ UNCHANGED <<phase, todo, unfinished, counted>>

\* A refused HTML text is sent again as plain text; a promo video is not.
Send(w) == Holds(w, "send") /\ \E onRefusal \in {"plain", "done"} : Attempt(w, onRefusal)
SendPlain(w) == Holds(w, "plain") /\ Attempt(w, "done")

\* Under the lock.
Count(w) ==
  /\ Holds(w, "count") /\ counted' = counted + 1 /\ Goes(w, "done")
  /\ UNCHANGED <<phase, todo, unfinished, got, unsure>>

\* Mutant: task_done is not in the finally clause, so a refusal leaves it out.
TaskDone_NotFinally(w) ==
  /\ Holds(w, "done") /\ unfinished' = unfinished - (IF got[hand[w].to] > 0 THEN 1 ELSE 0)
  /\ hand' = [hand EXCEPT ![w] = Nobody]
  /\ UNCHANGED <<phase, todo, counted, got, unsure>>

TaskDone(w) ==
  /\ Holds(w, "done") /\ unfinished' = unfinished - 1
  /\ hand' = [hand EXCEPT ![w] = Nobody]
  /\ UNCHANGED <<phase, todo, counted, got, unsure>>

\* join() returns and the workers, all waiting in get(), are cancelled.
Join ==
  /\ phase = "joining" /\ unfinished = 0 /\ phase' = "returned"
  /\ UNCHANGED <<todo, hand, unfinished, counted, got, unsure>>

Report ==
  phase = "returned" /\ phase' = "idle"
  /\ UNCHANGED <<todo, hand, unfinished, counted, got, unsure>>

PoolStep ==
  \/ \E w \in Workers : Take(w) \/ Send(w) \/ SendPlain(w) \/ Count(w) \/ TaskDone(w)
  \/ Join

=============================================================================
