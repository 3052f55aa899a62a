------------------------------- MODULE AiDialog -------------------------------
(***************************************************************************)
(* The dialogue with the AI consultant (ai.py): a question passes the      *)
(* cooldown and the sliding window in Redis and the quota in PostgreSQL,   *)
(* is published, and is appended to the history in the user's FSM record.  *)
(* The worker answers (worker.py) and writes history and pending post into *)
(* the same record, which each side reads, changes and writes whole. One   *)
(* user's chat; bot handlers and deliveries to the worker run at once.     *)
(***************************************************************************)
EXTENDS Integers, Sequences, FiniteSets

CONSTANTS
  Runs,         \* handler runs of the user that may be under way
  Deliveries,   \* messages the worker handles at once (prefetch)
  Roles,        \* the user's role: "client", "staff" or "owner"
  Cooldown, Window, MaxRequests,      \* ai_min_interval_sec, ai_rate_limit_*
  StartQuota, Bonus, ResetAfter,      \* ai_client_*_quota, five hours
  KeepTurns, MaxHistory,              \* 6 and 12 turns in the code
  MaxTime, MaxUpdates, MaxQuestions, MaxFaults, MaxAtOnce   \* bounds

\* The limits are on, the quotas are not negative, and a history has room for
\* the question behind the turns that are kept.
ASSUME UserAssumption == IsFiniteSet(Runs) /\ Roles \subseteq {"client", "staff", "owner"}
ASSUME LimitsAssumption ==
  Cooldown \in Nat /\ Window \in Nat \ {0} /\ MaxRequests \in Nat \ {0}
ASSUME QuotaAssumption == StartQuota \in Nat /\ Bonus \in Nat /\ ResetAfter \in Nat
ASSUME HistoryAssumption == KeepTurns \in Nat /\ MaxHistory \in Nat /\ KeepTurns < MaxHistory
ASSUME BoundsAssumption == MaxTime \in Nat /\ MaxQuestions \in Nat

VARIABLES
  now, role,
  stage, data,           \* the FSM record: its state; history and pending post
  cooldown, window,      \* Redis: when the key expires; the sorted set of requests
  quota, bonusAt,        \* the user's row
  task,                  \* where each question is
  run, work,             \* handler runs of the bot; deliveries at the worker
  asked, updates, faults,            \* counters of the bounds
  passes, requests,      \* history: times a question passed the cooldown; ever added
  granted, charged, published,       \* history of the quota
  screen, sent,          \* history: the post under the newest button; last sent
  overlapped, crossed    \* history: two runs, or any two handlers, at once

redis == <<cooldown, window>>
row == <<quota, bonusAt>>
counters == <<updates, faults>>
limitsHistory == <<passes, requests, granted, charged, published>>
postHistory == <<screen, sent>>
vars == <<now, role, stage, data, redis, row, task, run, work, asked, counters,
          limitsHistory, postHistory, overlapped, crossed>>

Questions == 1..MaxQuestions
Never == -1
NoData == [history |-> <<>>, post |-> 0]
\* In a history, q is a question and -q its answer.
Turns == (-MaxQuestions..MaxQuestions) \ {0}

NoRun == [pc |-> "idle", q |-> 0, at |-> 0, quota |-> 0, bonusAt |-> Never, gift |-> 0,
          history |-> <<>>, data |-> NoData]
NoDelivery == [pc |-> "idle", q |-> 0, post |-> FALSE, data |-> NoData]

\* The members of the sorted set, by the time that is their score.
Members == [q : Questions, at : 0..MaxTime]

Record == [history : Seq(Turns), post : 0..MaxQuestions]
Short(d) == Len(d.history) <= MaxHistory
RunRecord ==
  [pc : {"idle", "context", "session", "enter", "checkout", "clear", "clearData", "buyer",
         "gift", "voice", "limits", "count", "add", "user", "topUp", "charge", "read",
         "publish", "get", "set"},
   q : 0..MaxQuestions, at : 0..MaxTime, quota : Int, bonusAt : 0..MaxTime \cup {Never},
   gift : Nat, history : Seq(Turns), data : Record]
DeliveryRecord ==
  [pc : {"idle", "answer", "getHistory", "setHistory", "getPost", "setPost", "ack"},
   q : 0..MaxQuestions, post : BOOLEAN, data : Record]

TypeOK ==
  /\ now \in 0..MaxTime /\ role \in Roles
  /\ stage \in {"idle", "chat", "checkout"} /\ data \in Record /\ Short(data)
  /\ cooldown \in Nat /\ window \subseteq Members /\ requests \subseteq Members
  /\ quota \in Int /\ bonusAt \in 0..MaxTime \cup {Never} /\ passes \in Seq(0..MaxTime)
  /\ granted \in Int /\ charged \in Nat /\ published \in Nat /\ asked \in 0..MaxQuestions
  /\ task \in [Questions -> {"none", "queued", "taken", "done"}]
  /\ run \in [Runs -> RunRecord]
  /\ \A r \in Runs : Short(run[r].data) /\ Len(run[r].history) <= KeepTurns
  /\ work \in [Deliveries -> DeliveryRecord] /\ \A w \in Deliveries : Short(work[w].data)
  /\ screen \in 0..MaxQuestions /\ sent.post \in 0..MaxQuestions

Init ==
  /\ now = 0 /\ role \in Roles
  /\ stage = "chat" /\ data = NoData
  /\ cooldown = 0 /\ window = {}
  /\ quota = StartQuota /\ bonusAt = Never
  /\ task = [q \in Questions |-> "none"]
  /\ run = [r \in Runs |-> NoRun] /\ work = [w \in Deliveries |-> NoDelivery]
  /\ asked = 0 /\ updates = 0 /\ faults = 0
  /\ passes = <<>> /\ requests = {}
  /\ granted = 0 /\ charged = 0 /\ published = 0
  /\ screen = 0 /\ sent = [shown |-> 0, post |-> 0, sure |-> FALSE]
  /\ overlapped = FALSE /\ crossed = FALSE

Active(runs) == {r \in DOMAIN runs : runs[r].pc # "idle"}
Busy(runs) == Active(runs) # {}
\* Bound: handlers of bot and worker at work at once.
Room == Cardinality(Active(run)) + Cardinality(Active(work)) < MaxAtOnce

\* Bound: time, gifts and limits are explored for the others; an owner has none.
Limited == role # "owner"
Tick ==
  /\ Limited /\ now < MaxTime /\ now' = now + 1
  /\ UNCHANGED <<role, stage, data, redis, row, task, run, work, asked, counters,
                 limitsHistory, postHistory, overlapped, crossed>>

-----------------------------------------------------------------------------
(***************************************************************************)
(* Updates from the user.                                                  *)
(***************************************************************************)

Begin(r, L) ==
  /\ run[r].pc = "idle" /\ updates < MaxUpdates /\ updates' = updates + 1
  /\ Room
  /\ run' = [run EXCEPT ![r] = L]
  /\ overlapped' = (overlapped \/ Busy(run))
  /\ crossed' = (crossed \/ Busy(work))
  /\ UNCHANGED <<now, role, stage, data, redis, row, task, work, faults, limitsHistory>>

Simple(r, pc) ==
  Begin(r, [NoRun EXCEPT !.pc = pc]) /\ UNCHANGED <<asked, postHistory>>

\* A seller is refused; a client starts at once, an owner by choosing a provider.
StartChat(r) == role = "client" /\ Simple(r, "context")
PressProvider(r) == role = "owner" /\ Simple(r, "context")
BackToChat(r) == Simple(r, "enter")

Exit(r) == stage = "chat" /\ Simple(r, "clear")
AskCheckout(r) == stage = "chat" /\ Simple(r, "checkout")
LeaveCheckout(r) == stage = "checkout" /\ Simple(r, "enter")

\* The last message of a checkout, and the owner's grant of further questions.
Buy(r) ==
  /\ stage = "checkout" /\ Limited
  /\ Begin(r, [NoRun EXCEPT !.pc = "buyer", !.gift = Bonus])
  /\ UNCHANGED <<asked, postHistory>>
Grant(r) ==
  /\ Limited /\ Begin(r, [NoRun EXCEPT !.pc = "buyer", !.gift = 1])
  /\ UNCHANGED <<asked, postHistory>>

Ask(r, pc) ==
  /\ stage = "chat" /\ asked < MaxQuestions /\ asked' = asked + 1
  /\ Begin(r, [NoRun EXCEPT !.pc = pc, !.q = asked + 1])
  /\ UNCHANGED postHistory
AskText(r) == Ask(r, "limits")
AskVoice(r) == Ask(r, "voice")

\* The button sends the pending post, whichever answer it belongs to. It is
\* taken off the message.
PressBroadcast(r) ==
  /\ screen # 0 /\ Begin(r, NoRun)
  /\ sent' = [shown |-> screen, post |-> data.post,
              sure |-> task[screen] = "done" /\ ~overlapped' /\ ~crossed' /\ faults = 0]
  /\ screen' = 0 /\ UNCHANGED asked

-----------------------------------------------------------------------------
(***************************************************************************)
(* Steps of the bot's handlers.                                            *)
(***************************************************************************)

At(r, pc) == run[r].pc = pc
Goes(r, L) == run' = [run EXCEPT ![r] = L]
Goto(r, pc) == Goes(r, [run[r] EXCEPT !.pc = pc])
End(r) == Goes(r, NoRun)

Others == <<now, role, task, work, asked, updates, postHistory, overlapped, crossed>>
OnlyFsm == UNCHANGED <<Others, redis, row, faults, limitsHistory>>
OnlyRedis == UNCHANGED <<Others, stage, data, row, granted, charged, published>>
OnlyRow == UNCHANGED <<Others, stage, data, redis, faults, passes, requests, published>>

\* update_data reads the record, changes fields and writes it whole.
ReadContext(r) ==
  /\ At(r, "context")
  /\ Goes(r, [run[r] EXCEPT !.pc = "session", !.data = data])
  /\ UNCHANGED <<stage, data>> /\ OnlyFsm
WriteSession(r) ==
  /\ At(r, "session")
  /\ data' = [run[r].data EXCEPT !.history = <<>>]
  /\ Goto(r, "enter") /\ UNCHANGED stage /\ OnlyFsm
EnterChat(r) ==
  At(r, "enter") /\ stage' = "chat" /\ End(r) /\ UNCHANGED data /\ OnlyFsm
EnterCheckout(r) ==
  At(r, "checkout") /\ stage' = "checkout" /\ End(r) /\ UNCHANGED data /\ OnlyFsm

ClearStage(r) ==
  At(r, "clear") /\ stage' = "idle" /\ Goto(r, "clearData") /\ UNCHANGED data /\ OnlyFsm
ClearData(r) ==
  At(r, "clearData") /\ data' = NoData /\ End(r) /\ UNCHANGED stage /\ OnlyFsm

LoadBuyer(r) ==
  /\ At(r, "buyer")
  /\ Goes(r, [run[r] EXCEPT !.pc = "gift", !.quota = quota])
  /\ UNCHANGED <<row, granted, charged>> /\ OnlyRow
PayGift(r) ==
  /\ At(r, "gift")
  /\ quota' = run[r].quota + run[r].gift /\ granted' = granted + run[r].gift
  /\ IF run[r].gift = Bonus THEN bonusAt' = now /\ Goto(r, "enter")
     ELSE UNCHANGED bonusAt /\ End(r)
  /\ UNCHANGED charged /\ OnlyRow

\* Speech to text may fail; the state of the dialogue is not looked at again.
Transcribe(r) ==
  At(r, "voice") /\ (Goto(r, "limits") \/ End(r)) /\ UNCHANGED <<stage, data>> /\ OnlyFsm

SkipLimits(r) ==
  At(r, "limits") /\ ~Limited /\ Goto(r, "read") /\ UNCHANGED <<stage, data>> /\ OnlyFsm

\* Mutant: SET without NX.
TakeCooldown_NoNx(r) ==
  /\ At(r, "limits") /\ Limited
  /\ cooldown' = now + Cooldown /\ passes' = Append(passes, now) /\ Goto(r, "count")
  /\ UNCHANGED <<window, requests, faults>> /\ OnlyRedis

\* SET key EX Cooldown NX.
TakeCooldown(r) ==
  /\ At(r, "limits") /\ Limited
  /\ IF now >= cooldown
     THEN cooldown' = now + Cooldown /\ passes' = Append(passes, now) /\ Goto(r, "count")
     ELSE UNCHANGED <<cooldown, passes>> /\ End(r)
  /\ UNCHANGED <<window, requests, faults>> /\ OnlyRedis

Purged(cutoff) == {m \in window : m.at > cutoff}

\* Mutant: the oldest second of the window is dropped too early.
CountRequests_OffByOne(r) ==
  /\ At(r, "count")
  /\ window' = Purged(now - Window + 1)
  /\ IF Cardinality(window') >= MaxRequests THEN End(r)
     ELSE Goes(r, [run[r] EXCEPT !.pc = "add", !.at = now])
  /\ UNCHANGED <<cooldown, passes, requests, faults>> /\ OnlyRedis

\* ZREMRANGEBYSCORE and ZCARD in one transaction, ZADD in another. The key's own
\* expiry comes after that of its members.
CountRequests(r) ==
  /\ At(r, "count")
  /\ window' = Purged(now - Window)
  /\ IF Cardinality(window') >= MaxRequests THEN End(r)
     ELSE Goes(r, [run[r] EXCEPT !.pc = "add", !.at = now])
  /\ UNCHANGED <<cooldown, passes, requests, faults>> /\ OnlyRedis

AddRequest(r) ==
  /\ At(r, "add")
  /\ LET m == [q |-> run[r].q, at |-> run[r].at]
     IN window' = window \cup {m} /\ requests' = requests \cup {m}
  /\ Goto(r, "user")
  /\ UNCHANGED <<cooldown, passes, faults>> /\ OnlyRedis

\* An error of Redis lets the question through.
RedisFails(r) ==
  /\ faults < MaxFaults /\ faults' = faults + 1
  /\ \/ At(r, "limits") /\ Limited /\ Goto(r, "count")
     \/ (At(r, "count") \/ At(r, "add")) /\ Goto(r, "user")
  /\ UNCHANGED <<redis, passes, requests>> /\ OnlyRedis

LoadUser(r) ==
  /\ At(r, "user")
  /\ Goes(r, [run[r] EXCEPT !.quota = quota, !.bonusAt = bonusAt,
                !.pc = IF bonusAt # Never /\ now - bonusAt >= ResetAfter
                       THEN "topUp" ELSE "charge"])
  /\ UNCHANGED <<row, granted, charged>> /\ OnlyRow

\* Only an attribute that changed is written.
TopUp(r) ==
  LET low == run[r].quota < StartQuota
  IN /\ At(r, "topUp")
     /\ quota' = IF low THEN StartQuota ELSE quota
     /\ granted' = granted + IF low THEN StartQuota - run[r].quota ELSE 0
     /\ bonusAt' = Never
     /\ Goes(r, [run[r] EXCEPT !.pc = "charge", !.quota = IF low THEN StartQuota ELSE @])
     /\ UNCHANGED charged /\ OnlyRow

\* Mutant: a quota of zero still pays for a question.
Charge_OffByOne(r) ==
  /\ At(r, "charge")
  /\ IF run[r].quota < 0 THEN Goto(r, "clear") /\ UNCHANGED <<quota, charged>>
     ELSE quota' = run[r].quota - 1 /\ charged' = charged + 1 /\ Goto(r, "read")
  /\ UNCHANGED <<bonusAt, granted>> /\ OnlyRow

\* An absolute write of the quota loaded before.
Charge(r) ==
  /\ At(r, "charge")
  /\ IF run[r].quota <= 0 THEN Goto(r, "clear") /\ UNCHANGED <<quota, charged>>
     ELSE quota' = run[r].quota - 1 /\ charged' = charged + 1 /\ Goto(r, "read")
  /\ UNCHANGED <<bonusAt, granted>> /\ OnlyRow

Trim(h, n) == IF Len(h) > n THEN SubSeq(h, Len(h) - n + 1, Len(h)) ELSE h

ReadHistory(r) ==
  /\ At(r, "read")
  /\ Goes(r, [run[r] EXCEPT !.pc = "publish", !.history = Trim(data.history, KeepTurns)])
  /\ UNCHANGED <<stage, data>> /\ OnlyFsm

Publish(r) ==
  /\ At(r, "publish")
  /\ task' = [task EXCEPT ![run[r].q] = "queued"] /\ published' = published + 1
  /\ Goto(r, "get")
  /\ UNCHANGED <<now, role, stage, data, redis, row, work, asked, counters, passes,
                 requests, granted, charged, postHistory, overlapped, crossed>>
PublishFails(r) ==
  /\ At(r, "publish") /\ faults < MaxFaults /\ faults' = faults + 1 /\ End(r)
  /\ UNCHANGED <<Others, stage, data, redis, row, limitsHistory>>

GetData(r) ==
  /\ At(r, "get")
  /\ Goes(r, [run[r] EXCEPT !.pc = "set", !.data = data])
  /\ UNCHANGED <<stage, data>> /\ OnlyFsm

\* Mutant: the question is appended to the history as it is after publication.
SetData_Fresh(r) ==
  /\ At(r, "set")
  /\ data' = [run[r].data EXCEPT !.history = Append(Trim(@, KeepTurns), run[r].q)]
  /\ End(r) /\ UNCHANGED stage /\ OnlyFsm

\* The history read before publication replaces the one in the record.
SetData(r) ==
  /\ At(r, "set")
  /\ data' = [run[r].data EXCEPT !.history = Append(run[r].history, run[r].q)]
  /\ End(r) /\ UNCHANGED stage /\ OnlyFsm

-----------------------------------------------------------------------------
(***************************************************************************)
(* The worker.                                                             *)
(***************************************************************************)

Works(w, L) ==
  /\ work' = [work EXCEPT ![w] = L]
  /\ UNCHANGED <<now, role, stage, redis, row, run, asked, updates, limitsHistory, sent,
                 overlapped>>

\* Bound: answers are explored for an owner; nothing they change bears on limits.
Deliver(w) ==
  \E q \in Questions :
    /\ ~Limited /\ Room
    /\ work[w].pc = "idle" /\ task[q] = "queued"
    /\ task' = [task EXCEPT ![q] = "taken"]
    /\ Works(w, [NoDelivery EXCEPT !.pc = "answer", !.q = q])
    /\ crossed' = (crossed \/ Busy(run) \/ Busy(work))
    /\ UNCHANGED <<data, screen, faults>>

\* The message goes out before history and pending post are written. An answer
\* to an owner or a seller may have the button that broadcasts it.
Send(w) ==
  \E post \in {FALSE} \cup {role # "client"} :
    /\ work[w].pc = "answer"
    /\ screen' = IF post THEN work[w].q ELSE screen
    /\ Works(w, [work[w] EXCEPT !.pc = "getHistory", !.post = post])
    /\ UNCHANGED <<data, task, crossed, faults>>

GetHistory(w) ==
  /\ work[w].pc = "getHistory"
  /\ Works(w, [work[w] EXCEPT !.pc = "setHistory", !.data = data])
  /\ UNCHANGED <<data, task, screen, crossed, faults>>

\* Mutant: the history is not shortened.
SetHistory_Grows(w) ==
  /\ work[w].pc = "setHistory"
  /\ data' = [work[w].data EXCEPT !.history = Append(@, -work[w].q)]
  /\ Works(w, [work[w] EXCEPT !.pc = IF work[w].post THEN "getPost" ELSE "ack",
                              !.data = NoData])
  /\ UNCHANGED <<task, screen, crossed, faults>>

SetHistory(w) ==
  /\ work[w].pc = "setHistory"
  /\ data' = [work[w].data EXCEPT !.history = Trim(Append(@, -work[w].q), MaxHistory)]
  /\ Works(w, [work[w] EXCEPT !.pc = IF work[w].post THEN "getPost" ELSE "ack",
                              !.data = NoData])
  /\ UNCHANGED <<task, screen, crossed, faults>>

GetPost(w) ==
  /\ work[w].pc = "getPost"
  /\ Works(w, [work[w] EXCEPT !.pc = "setPost", !.data = data])
  /\ UNCHANGED <<data, task, screen, crossed, faults>>

\* Mutant: a post that is pending already stays.
SetPost_KeepsOld(w) ==
  /\ work[w].pc = "setPost"
  /\ data' = [work[w].data EXCEPT !.post = IF @ # 0 THEN @ ELSE work[w].q]
  /\ Works(w, [work[w] EXCEPT !.pc = "ack", !.data = NoData])
  /\ UNCHANGED <<task, screen, crossed, faults>>

SetPost(w) ==
  /\ work[w].pc = "setPost"
  /\ data' = [work[w].data EXCEPT !.post = work[w].q]
  /\ Works(w, [work[w] EXCEPT !.pc = "ack", !.data = NoData])
  /\ UNCHANGED <<task, screen, crossed, faults>>

Ack(w) ==
  /\ work[w].pc = "ack" /\ task' = [task EXCEPT ![work[w].q] = "done"]
  /\ Works(w, NoDelivery)
  /\ UNCHANGED <<data, screen, crossed, faults>>

\* Any failure, and the death of the worker: the question is answered once more.
WorkerFails(w) ==
  /\ work[w].pc # "idle" /\ faults < MaxFaults /\ faults' = faults + 1
  /\ task' = [task EXCEPT ![work[w].q] = "queued"]
  /\ Works(w, NoDelivery)
  /\ UNCHANGED <<data, screen, crossed>>

Updates(r) ==
  \/ StartChat(r) \/ PressProvider(r) \/ BackToChat(r) \/ Exit(r) \/ AskCheckout(r)
  \/ LeaveCheckout(r) \/ Buy(r) \/ Grant(r) \/ AskText(r) \/ AskVoice(r) \/ PressBroadcast(r)

Handling(r) ==
  \/ ReadContext(r) \/ WriteSession(r) \/ EnterChat(r) \/ EnterCheckout(r)
  \/ ClearStage(r) \/ ClearData(r) \/ LoadBuyer(r) \/ PayGift(r) \/ Transcribe(r)
  \/ SkipLimits(r) \/ TakeCooldown(r) \/ CountRequests(r) \/ AddRequest(r) \/ RedisFails(r)
  \/ LoadUser(r) \/ TopUp(r) \/ Charge(r) \/ ReadHistory(r) \/ Publish(r) \/ PublishFails(r)
  \/ GetData(r) \/ SetData(r)

Answering(w) ==
  \/ Deliver(w) \/ Send(w) \/ GetHistory(w) \/ SetHistory(w) \/ GetPost(w) \/ SetPost(w)
  \/ Ack(w) \/ WorkerFails(w)

Next ==
  \/ Tick
  \/ \E r \in Runs : Updates(r) \/ Handling(r)
  \/ \E w \in Deliveries : Answering(w)

Spec == Init /\ [][Next]_vars

-----------------------------------------------------------------------------
(***************************************************************************)
(* Properties.                                                             *)
(***************************************************************************)

\* Any two questions that get the cooldown key are a cooldown apart, however
\* their handlers interleave and however long each takes; only an error of Redis
\* lets a question through without it (_acquire_ai_cooldown).
CooldownHolds == \A i, j \in 1..Len(passes) : i < j => passes[j] - passes[i] >= Cooldown

\* The requests of a window that ends at time t.
Within(t) == {m \in requests : m.at > t - Window /\ m.at <= t}

\* No window holds more requests than allowed for a user whose handlers do not
\* overlap; each handler that can pass between another's count and its ZADD adds
\* at most one (_acquire_ai_rate_limit).
WindowHolds ==
  \A t \in 0..MaxTime :
    Cardinality(Within(t)) <= MaxRequests + IF overlapped THEN Cardinality(Runs) - 1 ELSE 0

\* The quota never falls below zero, whatever is lost by concurrent absolute
\* writes; a client's published questions are all charged; and without
\* overlapping handlers the quota is what was granted less what was charged
\* (_process_ai_input_text, ai_checkout_phone, owner_gift_quota).
QuotaPays ==
  /\ quota >= 0
  /\ Limited => published <= charged
  /\ ~overlapped => quota = StartQuota + granted - charged

\* No answer stands before its question in the history, although the worker may
\* answer before the bot has written the question, and either side may overwrite
\* the other's turns (_process_ai_input_text, _append_history).
HistoryOrdered ==
  \A i, j \in 1..Len(data.history) :
    data.history[i] < 0 /\ data.history[j] = -data.history[i] => j < i

\* The newest button broadcasts the answer it stands under or nothing, once the
\* worker is done with that answer and if no two handlers ever ran at once and
\* none failed (process_ai_broadcast, _set_pending_post). After a failure an
\* answer may be sent twice, first with a button and then without a post.
BroadcastsShownPost == sent.sure => sent.post \in {0, sent.shown}

=============================================================================
