------------------------------ MODULE OrderLists ------------------------------
(***************************************************************************)
(* The lists of orders in the chats: a customer's completed and active     *)
(* orders (client.py), the staff's active orders and the report of a day   *)
(* (orders_stats.py). A list is a header message with page buttons and one *)
(* message per order, the cards; the ids of the cards are kept in the FSM  *)
(* data of the person, and the next rendering deletes them first. Handlers *)
(* run at once, the reads of one rendering see different commits, and      *)
(* update_data reads the whole record and writes it back (its reading is   *)
(* taken with the step before).                                            *)
(***************************************************************************)
EXTENDS Pages, FiniteSets, SequencesExt

CONSTANTS
  Runs,                   \* handler runs that may be under way
  Orders,                 \* numbers, a later order has a higher one
  PageSize,
  MaxDay,                 \* bound: the last day
  Starts,                 \* statuses of the orders and a customer's messages to begin with
  MaxPresses, MaxChanges  \* bounds

\* Orders are numbered from one; a day and a page have room for something.
ASSUME OrdersAssumption == IsFiniteSet(Orders) /\ Orders = 1..Cardinality(Orders)
ASSUME BoundsAssumption == PageSize \in Nat \ {0} /\ MaxDay \in Nat \ {0}

VARIABLES
  status, placed, today,  \* of each order: status and day of created_at; the date
  data,                   \* FSM data: ids of the cards by list, history_date (0: none)
  chat, next,             \* messages a button or a deletion can still concern; next id
  run, presses, changes,
  shown, walk, spoilt     \* history: rows last rendered; pages walked; excused lists

db == <<status, placed, today, changes>>
ghosts == <<shown, walk, spoilt>>
vars == <<db, data, chat, next, run, presses, ghosts>>

People == {"client", "staff"}
Tracked == {"history", "active", "report"}
Person(l) == IF l \in {"history", "active"} THEN "client" ELSE "staff"
NoData == [ids |-> [l \in Tracked |-> {}], date |-> 0]
NoWalk == [page |-> 0, seen |-> <<>>, total |-> 0, day |-> 0]
NoRun == [at |-> "idle", list |-> "history", src |-> 0, page |-> 1, pick |-> 0, day |-> 0,
          total |-> 0, rows |-> <<>>, report |-> {}, clean |-> TRUE, ids |-> {}, sent |-> {},
          mem |-> NoData]

Statuses == {"none", "active", "completed", "cancelled"}

Messages ==
  [id : Nat \ {0}, kind : {"header", "card", "calendar", "note"}, list : Tracked \cup {"orders"},
   page : Nat \ {0}, total : Nat, rows : Seq(Orders), report : SUBSET Orders, day : 0..MaxDay,
   clean : BOOLEAN, flag : {"plain", "filter", "asks", "closed"}]

\* The page of a header exists, and the rows that belong on it are there.
Exists(m) == m.page \in 1..TotalPages(m.total, PageSize)
Filled(m) == Len(m.rows) = Least(PageSize, m.total - PageSize * (m.page - 1))

\* What may be left in a customer's chat: headers of the two lists, their cards
\* deleted, with ids from one on.
ASSUME StartsAssumption ==
  \A s \in Starts :
    /\ s.status \in [Orders -> Statuses] /\ IsFiniteSet(s.left)
    /\ \A m, n \in s.left :
         /\ m \in Messages /\ m.id <= Cardinality(s.left) /\ (m.id = n.id => m = n)
         /\ m.kind = "header" /\ Person(m.list) = "client" /\ Exists(m) /\ Filled(m)

Message(id, kind, r) ==
  [id |-> id, kind |-> kind, list |-> r.list, page |-> r.page, total |-> r.total, rows |-> r.rows,
   report |-> r.report, day |-> r.day, clean |-> r.clean, flag |-> "plain"]
Card(id, l, o) == Message(id, "card", [NoRun EXCEPT !.list = l, !.rows = <<o>>])

With(p, id) == {m \in chat[p] : m.id = id}
Cards(l) == {m \in chat[Person(l)] : m.kind = "card" /\ m.list = l}
Busy(r) == run[r].at \notin {"idle", "queued"}

TypeOK ==
  /\ status \in [Orders -> Statuses]
  /\ \A o \in Orders : placed[o] \in 0..today /\ (placed[o] = 0 <=> status[o] = "none")
  /\ \A p \in People :
       /\ \A m, n \in chat[p] : m.id < next[p] /\ (m.id = n.id => m = n)
       /\ \A l \in Tracked : data[p].ids[l] \subseteq 1..next[p] - 1
       /\ data[p].date \in 0..MaxDay
  /\ \A l \in Tracked : data[Person(l)].ids[l] \cap {m.id : m \in chat[Person(l)] \ Cards(l)} = {}
  /\ \A r \in Runs : run[r].at = "cards" => Cardinality(run[r].sent) < Len(run[r].rows)
  /\ spoilt \subseteq Tracked

-----------------------------------------------------------------------------
(***************************************************************************)
(* The database.                                                           *)
(***************************************************************************)

\* Completed or active orders; the report's are those created on its day.
Members(l, day) ==
  {o \in Orders : CASE l = "history" -> status[o] = "completed"
                    [] l = "report" -> status[o] = "completed" /\ placed[o] = day
                    [] OTHER -> status[o] = "active"}

\* ORDER BY created_at DESC.
Listing(l, day) == Descending(Members(l, day))

\* A commit: no walk goes on, and a rendering between its reads sees two states.
\* Bound: not while a run is past its last reading, which it could only follow.
SetStatus(o, st) ==
  /\ \A r \in Runs : run[r].at \in {"idle", "queued", "pick", "date", "default", "count", "page",
                                    "report"}
  /\ status' = [status EXCEPT ![o] = st]
  /\ walk' = [l \in Tracked |-> NoWalk]
  /\ run' = [r \in Runs |-> IF run[r].at \in {"page", "report"}
                            THEN [run[r] EXCEPT !.clean = FALSE] ELSE run[r]]
  /\ UNCHANGED <<today, data, presses, shown, spoilt>>

\* A checkout; the staff are told with a card that has the buttons of the list.
Place ==
  /\ changes < MaxChanges
  /\ \E o \in Orders :
       /\ status[o] = "none" /\ \A q \in Orders : q < o => status[q] # "none"
       /\ SetStatus(o, "active")
       /\ placed' = [placed EXCEPT ![o] = today]
       /\ chat' = [chat EXCEPT !.staff = @ \cup {Card(next.staff, "orders", o)}]
       /\ next' = [next EXCEPT !.staff = @ + 1]
  /\ changes' = changes + 1

NextDay ==
  /\ today < MaxDay /\ changes < MaxChanges
  /\ today' = today + 1 /\ changes' = changes + 1
  /\ UNCHANGED <<status, placed, data, chat, next, run, presses, ghosts>>

\* order:done and order:cancel, whatever the status is; the card loses its buttons.
Settle ==
  /\ changes < MaxChanges
  /\ \E c \in Cards("orders"), st \in {"completed", "cancelled"} :
       /\ c.flag = "plain"
       /\ SetStatus(c.rows[1], st)
       /\ chat' = [chat EXCEPT !.staff = (@ \ {c}) \cup {[c EXCEPT !.flag = "closed"]}]
  /\ changes' = changes + 1
  /\ UNCHANGED <<placed, next>>

\* cancel_do of an order that is still active.
CancelOwn ==
  /\ changes < MaxChanges
  /\ \E c \in Cards("active") :
       /\ c.flag = "asks" /\ status[c.rows[1]] = "active"
       /\ SetStatus(c.rows[1], "cancelled")
       /\ chat' = [chat EXCEPT !.client = (@ \ {c}) \cup {[c EXCEPT !.flag = "closed"]}]
  /\ changes' = changes + 1
  /\ UNCHANGED <<placed, next>>

-----------------------------------------------------------------------------
(***************************************************************************)
(* Buttons. Those that render a list start a run; an answer to a button    *)
(* pressed twice is a run that begins after another has ended.             *)
(***************************************************************************)

\* Bound: runs that are under way together are of one person.
Press(r, l, src, page, pick) ==
  /\ run[r].at = "idle" /\ presses < MaxPresses
  /\ \A q \in Runs : run[q].at # "idle" => Person(run[q].list) = Person(l)
  /\ presses' = presses + 1
  /\ run' = [run EXCEPT ![r] = [NoRun EXCEPT !.at = "queued", !.list = l, !.src = src,
                                              !.page = page, !.pick = pick]]
  /\ UNCHANGED <<db, data, chat, next, ghosts>>

\* The menus' texts; a list opened this way has a new header.
OpenList(r) == \E l \in Tracked \cup {"orders"} : Press(r, l, 0, 1, 0)

\* The arrows of a header.
TurnPage(r) ==
  \E p \in People : \E m \in chat[p] :
    /\ m.kind = "header"
    /\ \E page \in {m.page - 1, m.page + 1} \cap (1..TotalPages(m.total, PageSize)) :
         Press(r, m.list, m.id, page, 0)

\* A day of the calendar, whose message becomes the header.
PickDay(r) ==
  \E m \in chat.staff, day \in 1..MaxDay :
    m.kind = "calendar" /\ Press(r, "report", m.id, 1, day)

\* The button of a header that shows another day than its own.
ResetDay(r) ==
  \E m \in chat.staff : m.kind = "header" /\ m.flag = "filter" /\ Press(r, "report", m.id, 1, today)

\* What a button does at once.
Edit(p, new) ==
  /\ presses < MaxPresses
  /\ presses' = presses + 1
  /\ chat' = [chat EXCEPT ![p] = new]
  /\ UNCHANGED <<db, data, run, ghosts>>

OpenCalendar ==
  /\ \E m \in chat.staff :
       m.kind = "header"
       /\ Edit("staff", chat.staff \cup
               {Message(next.staff, "calendar", [NoRun EXCEPT !.list = "report"])})
  /\ next' = [next EXCEPT !.staff = @ + 1]

\* "close" of a calendar, "menu" of a customer's header: the message is deleted.
CloseMessage ==
  /\ \E p \in People : \E m \in chat[p] :
       m.kind = (IF p = "client" THEN "header" ELSE "calendar") /\ Edit(p, chat[p] \ {m})
  /\ UNCHANGED next

\* cancel_confirm, refused if the order is not active any more; cancel_keep.
AskToCancel ==
  /\ \E c \in Cards("active") :
       /\ c.flag = "plain" /\ status[c.rows[1]] = "active"
       /\ Edit("client", (chat.client \ {c}) \cup {[c EXCEPT !.flag = "asks"]})
  /\ UNCHANGED next

KeepOrder ==
  /\ \E c \in Cards("active") :
       c.flag = "asks" /\ Edit("client", (chat.client \ {c}) \cup {[c EXCEPT !.flag = "plain"]})
  /\ UNCHANGED next

\* state.clear() of any other dialogue: the ids of the cards are lost.
ClearData ==
  /\ presses < MaxPresses
  /\ \E p \in People :
       /\ data[p] # NoData
       /\ data' = [data EXCEPT ![p] = NoData]
       /\ spoilt' = spoilt \cup {l \in Tracked : Person(l) = p /\ data[p].ids[l] # {}}
  /\ presses' = presses + 1
  /\ UNCHANGED <<db, chat, next, run, shown, walk>>

-----------------------------------------------------------------------------
(***************************************************************************)
(* Rendering.                                                              *)
(***************************************************************************)

\* Two renderings for one person at once may lose ids.
Enter(r) ==
  LET l == run[r].list
      others == {run[q].list : q \in {q \in Runs \ {r} : Busy(q)}} IN
  {k \in Tracked \cap others : l \in Tracked /\ Person(k) = Person(l)}

Overlap(r) == spoilt' = spoilt \cup Enter(r) \cup (IF Enter(r) = {} THEN {} ELSE {run[r].list})

\* The walk after a page of a list has been read.
Walked(l, page, rows, total, day, clean) ==
  LET w == walk[l] IN
  IF clean /\ page = 1
  THEN [page |-> 1, seen |-> rows, total |-> total, day |-> day]
  ELSE IF clean /\ w.page > 0 /\ page = w.page + 1 /\ w.day = day
  THEN [w EXCEPT !.page = page, !.seen = @ \o rows]
  ELSE NoWalk

Go(r, at) == [run EXCEPT ![r].at = at]
GoReading(r, at) == [run EXCEPT ![r].at = at, ![r].mem = data[Person(run[r].list)]]

\* A customer's list is read at once. An empty one only answers.
ReadOrders(r) ==
  /\ run[r].at = "queued" /\ run[r].list \in {"history", "active"}
  /\ LET l == run[r].list
         rows == Listing(l, 0)
         total == Len(rows)
         page == Clamp(run[r].page, TotalPages(total, PageSize))
         slice == Slice(rows, page, PageSize)
         src == With("client", run[r].src) IN
     \/ /\ rows # <<>>
        /\ run' = [run EXCEPT ![r] = [@ EXCEPT !.at = "old", !.page = page, !.total = total,
                                               !.rows = slice]]
        /\ walk' = [walk EXCEPT ![l] = Walked(l, page, slice, total, 0, TRUE)]
        /\ Overlap(r) /\ UNCHANGED <<chat, shown>>
     \/ /\ rows = <<>> /\ (run[r].src = 0 \/ \E m \in src : m.kind = "header")
        /\ chat' = [chat EXCEPT !.client =
                     (@ \ src) \cup {[m EXCEPT !.kind = "note"] : m \in src}]
        /\ run' = GoReading(r, "none")
        /\ Overlap(r) /\ UNCHANGED <<shown, walk>>
     \/ /\ rows = <<>> /\ run[r].src # 0 /\ \A m \in src : m.kind = "note"
        /\ run' = [run EXCEPT ![r] = NoRun]
        /\ UNCHANGED <<chat, ghosts>>
  /\ UNCHANGED <<db, data, next, presses>>

\* The ids are forgotten, the cards are not deleted.
StoreNone(r) ==
  /\ run[r].at = "none"
  /\ LET l == run[r].list IN
     /\ data' = [data EXCEPT !.client = [run[r].mem EXCEPT !.ids[l] = {}]]
     /\ shown' = [shown EXCEPT ![l] = <<>>]
     /\ spoilt' = IF Cards(l) = {} THEN spoilt ELSE spoilt \cup {l}
  /\ run' = [run EXCEPT ![r] = NoRun]
  /\ UNCHANGED <<db, chat, next, presses, walk>>

\* The staff's active orders: no pages, and the cards stay.
ReadActive(r) ==
  /\ run[r].at = "queued" /\ run[r].list = "orders"
  /\ LET rows == Listing("orders", 0) IN
     run' = [run EXCEPT ![r] = IF rows = <<>> THEN NoRun
                               ELSE [@ EXCEPT !.at = "cards", !.rows = rows]]
  /\ UNCHANGED <<db, data, chat, next, presses, ghosts>>

\* A day button stores its date before the rendering, which reads it back.
TakeDay(r) ==
  /\ run[r].at = "queued" /\ run[r].list = "report" /\ run[r].pick # 0
  /\ run' = GoReading(r, "pick") /\ Overlap(r)
  /\ UNCHANGED <<db, data, chat, next, presses, shown, walk>>

StoreDay(r) ==
  /\ run[r].at \in {"pick", "default"}
  /\ data' = [data EXCEPT !.staff = [run[r].mem EXCEPT
                !.date = IF run[r].at = "pick" THEN run[r].pick ELSE run[r].day]]
  /\ run' = Go(r, IF run[r].at = "pick" THEN "date" ELSE "count")
  /\ UNCHANGED <<db, chat, next, presses, ghosts>>

\* history_date stays as it is stored; the date of today is the default.
ReadDate(r) ==
  /\ run[r].list = "report"
  /\ run[r].at = "date" \/ (run[r].at = "queued" /\ run[r].pick = 0)
  /\ LET date == data.staff.date IN
     run' = [run EXCEPT ![r] = [@ EXCEPT !.at = IF date = 0 THEN "default" ELSE "count",
                                         !.day = IF date = 0 THEN today ELSE date,
                                         !.mem = data.staff]]
  /\ Overlap(r)
  /\ UNCHANGED <<db, data, chat, next, presses, shown, walk>>

CountOrders(r) ==
  /\ run[r].at = "count"
  /\ LET total == Cardinality(Members("report", run[r].day)) IN
     run' = [run EXCEPT ![r] = [@ EXCEPT !.at = "page", !.total = total,
                                         !.page = Clamp(run[r].page,
                                                        TotalPages(total, PageSize))]]
  /\ UNCHANGED <<db, data, chat, next, presses, ghosts>>

ReadPage(r) ==
  /\ run[r].at = "page"
  /\ LET x == run[r]
         rows == IF x.total = 0 THEN <<>>
                 ELSE Slice(Listing("report", x.day), x.page, PageSize) IN
     /\ run' = [run EXCEPT ![r].at = "report", ![r].rows = rows]
     /\ walk' = [walk EXCEPT !.report = Walked("report", x.page, rows, x.total, x.day, x.clean)]
  /\ UNCHANGED <<db, data, chat, next, presses, shown, spoilt>>

\* The revenue and the profit are summed over a second reading.
ReadReport(r) ==
  /\ run[r].at = "report"
  /\ run' = [run EXCEPT ![r].at = "old", ![r].report = Members("report", run[r].day)]
  /\ UNCHANGED <<db, data, chat, next, presses, ghosts>>

\* Mutant: the ids of the old cards are taken for none.
ReadOld_Skips(r) ==
  /\ run[r].at = "old"
  /\ run' = [run EXCEPT ![r].at = "head", ![r].ids = data[Person(run[r].list)].ids[run[r].list]]
  /\ UNCHANGED <<db, data, chat, next, presses, ghosts>>

ReadOld(r) ==
  /\ run[r].at = "old"
  /\ LET ids == data[Person(run[r].list)].ids[run[r].list] IN
     run' = [run EXCEPT ![r].at = IF ids = {} THEN "head" ELSE "delete", ![r].ids = ids]
  /\ UNCHANGED <<db, data, chat, next, presses, ghosts>>

\* All but the message the button is on.
DeleteOld(r) ==
  /\ run[r].at = "delete"
  /\ LET p == Person(run[r].list) IN
     chat' = [chat EXCEPT ![p] = {m \in @ : m.id \in run[r].ids => m.id = run[r].src}]
  /\ run' = GoReading(r, "forget")
  /\ UNCHANGED <<db, data, next, presses, ghosts>>

ForgetOld(r) ==
  /\ run[r].at = "forget"
  /\ data' = [data EXCEPT ![Person(run[r].list)] = [run[r].mem EXCEPT !.ids[run[r].list] = {}]]
  /\ run' = Go(r, "head")
  /\ UNCHANGED <<db, chat, next, presses, ghosts>>

Header(r, id) ==
  [Message(id, "header", run[r]) EXCEPT
     !.flag = IF run[r].list = "report" /\ run[r].day # today THEN "filter" ELSE "plain"]

\* Telegram refuses an edit that changes nothing; only the report allows for it.
Unmodified(m, new) ==
  m.kind = "header" /\ new.list # "report" /\ <<m.page, m.total>> = <<new.page, new.total>>

\* Mutant: no early return when the day has no orders.
SendHeader_NoReturn(r) ==
  /\ run[r].at = "head"
  /\ LET x == run[r]
         p == Person(x.list)
         new == Header(r, IF x.src = 0 THEN next[p] ELSE x.src) IN
     /\ x.src # 0 => \E m \in With(p, x.src) : ~Unmodified(m, new)
     /\ chat' = [chat EXCEPT ![p] = {m \in @ : m.id # new.id} \cup {new}]
     /\ next' = [next EXCEPT ![p] = IF x.src = 0 THEN @ + 1 ELSE @]
     /\ run' = Go(r, "cards")
  /\ UNCHANGED <<db, data, presses, ghosts>>

\* The header is sent or edited; an empty report ends with a line of text.
SendHeader(r) ==
  /\ run[r].at = "head"
  /\ LET x == run[r]
         p == Person(x.list)
         new == Header(r, IF x.src = 0 THEN next[p] ELSE x.src) IN
     /\ x.src # 0 => \E m \in With(p, x.src) : ~Unmodified(m, new)
     /\ chat' = [chat EXCEPT ![p] = {m \in @ : m.id # new.id} \cup {new}]
     /\ next' = [next EXCEPT ![p] = IF x.src = 0 THEN @ + 1 ELSE @]
     /\ run' = IF x.rows = <<>> THEN GoReading(r, "keep") ELSE Go(r, "cards")
  /\ UNCHANGED <<db, data, presses, ghosts>>

SendCard(r) ==
  /\ run[r].at = "cards"
  /\ LET x == run[r]
         p == Person(x.list)
         n == Cardinality(x.sent) + 1
         sent == [run EXCEPT ![r].sent = @ \cup {next[p]}] IN
     /\ chat' = [chat EXCEPT ![p] = @ \cup {Card(next[p], x.list, x.rows[n])}]
     /\ next' = [next EXCEPT ![p] = @ + 1]
     /\ run' = CASE n < Len(x.rows) -> sent
                 [] n >= Len(x.rows) /\ x.list = "orders" -> [run EXCEPT ![r] = NoRun]
                 [] OTHER -> [sent EXCEPT ![r].at = "keep", ![r].mem = data[p]]
  /\ UNCHANGED <<db, data, presses, ghosts>>

KeepIds(r) ==
  /\ run[r].at = "keep"
  /\ LET l == run[r].list IN
     /\ data' = [data EXCEPT ![Person(l)] = [run[r].mem EXCEPT !.ids[l] = run[r].sent]]
     /\ shown' = [shown EXCEPT ![l] = run[r].rows]
  /\ run' = [run EXCEPT ![r] = NoRun]
  /\ UNCHANGED <<db, chat, next, presses, walk, spoilt>>

\* A call to Telegram raises: the header is gone or unchanged, or it is not
\* reached. What has been sent stays, and its ids are nowhere.
SendFails(r) ==
  /\ run[r].at \in {"head", "cards"}
  /\ spoilt' = spoilt \cup ({run[r].list} \cap Tracked)
  /\ run' = [run EXCEPT ![r] = NoRun]
  /\ UNCHANGED <<db, data, chat, next, presses, shown, walk>>

-----------------------------------------------------------------------------

Init ==
  /\ \E s \in Starts :
       /\ status = s.status
       /\ chat = [client |-> s.left, staff |-> {Card(o, "orders", o) : o \in Members("orders", 0)}]
       /\ next = [client |-> Cardinality(s.left) + 1, staff |-> Cardinality(Orders) + 1]
  /\ placed = [o \in Orders |-> IF status[o] = "none" THEN 0 ELSE 1]
  /\ today = 1 /\ changes = 0 /\ presses = 0
  /\ data = [p \in People |-> NoData]
  /\ run = [r \in Runs |-> NoRun]
  /\ shown = [l \in Tracked |-> <<>>] /\ walk = [l \in Tracked |-> NoWalk] /\ spoilt = {}

Step(r) ==
  \/ OpenList(r) \/ TurnPage(r) \/ PickDay(r) \/ ResetDay(r)
  \/ ReadOrders(r) \/ StoreNone(r) \/ ReadActive(r)
  \/ TakeDay(r) \/ StoreDay(r) \/ ReadDate(r) \/ CountOrders(r) \/ ReadPage(r) \/ ReadReport(r)
  \/ ReadOld(r) \/ DeleteOld(r) \/ ForgetOld(r) \/ SendHeader(r) \/ SendCard(r) \/ KeepIds(r)
  \/ SendFails(r)

Next ==
  \/ \E r \in Runs : Step(r)
  \/ Place \/ NextDay \/ Settle \/ CancelOwn
  \/ OpenCalendar \/ CloseMessage \/ AskToCancel \/ KeepOrder \/ ClearData

Spec == Init /\ [][Next]_vars

-----------------------------------------------------------------------------

\* At rest a list's cards are those of the page rendered last, one per order,
\* and the FSM data knows them all, so that the next rendering leaves none
\* behind. Excused for good is a list whose rendering was overlapped by
\* another for that person, failed half-way or found the list empty while
\* cards were there, or whose ids another dialogue cleared.
OneListing ==
  \A l \in Tracked \ spoilt :
    (\A r \in Runs : Busy(r) => run[r].list # l) =>
      /\ {m.id : m \in Cards(l)} = data[Person(l)].ids[l]
      /\ Cardinality(Cards(l)) = Len(shown[l])
      /\ {m.rows[1] : m \in Cards(l)} = ToSet(shown[l])

\* A header tells the truth about its page, however renderings overlap: the
\* page exists, its orders are of its day and of the reading its sums are
\* from, and without a commit in between the page is full and the count is
\* that of the sums. And walking from the first page to the last with the
\* arrows while no order changes shows every order of the list exactly once.
PagesHonest ==
  /\ \A p \in People : \A m \in chat[p] : m.kind = "header" =>
       /\ Exists(m)
       /\ m.list = "report" => \A o \in ToSet(m.rows) \cup m.report : placed[o] = m.day
       /\ m.clean => /\ Filled(m)
                     /\ m.total > 0 => m.rows # <<>>
                     /\ m.list = "report" => /\ ToSet(m.rows) \subseteq m.report
                                             /\ Cardinality(m.report) = m.total
  /\ \A l \in Tracked : LET w == walk[l] IN
       w.page > 0 => /\ IsInjective(w.seen)
                     /\ w.page = TotalPages(w.total, PageSize) =>
                          ToSet(w.seen) = Members(l, w.day)

=============================================================================
