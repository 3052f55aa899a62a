------------------------------- MODULE Tenants -------------------------------
(***************************************************************************)
(* Users, tenants, roles and blocking (utils/tenants.py and the commands   *)
(* of shop.py, admin.py and promo_menu_support.py), the database reset     *)
(* (shop.py, maintenance.py) and broadcasts. Handlers run at once; each    *)
(* statement sees what is committed, and an attribute is written only if   *)
(* it differs from the value loaded. The block middleware keeps a session  *)
(* of its own open around the handler of an owner, and TRUNCATE waits for  *)
(* every open transaction while new ones wait for it.                      *)
(***************************************************************************)
EXTENDS Broadcast, Sequences, SequencesExt

CONSTANTS
  Users, OwnerId,       \* Telegram ids; settings.owner_id
  Runs,                 \* handler runs that may be under way
  Shops,                \* the shops to begin with
  MaxUpdates            \* bound

VARIABLES
  tenants,              \* rows by id: the slug, and who holds the bot's token
  rows, home,           \* the users by row id; users.tenant_id
  members, blocked,     \* memberships: role ("none" without a row); is_blocked
  codes,                \* reset codes in the bot's memory
  run, updates,
  owned, excuses        \* history: the shop had an owner; events the properties except

database == <<tenants, rows, home, members, blocked>>
vars == <<database, codes, run, updates, owned, excuses, pool>>

\* Bound: the bot's tenant and one more.
Ids == 1..2
Roles == {"none", "client", "staff", "owner"}
Slugs == {"default", "shop"}
TenantRow == [slug : Slugs, bot : BOOLEAN]
OnUser == {"staff", "set_seller", "unstaff", "add_owner", "remove_owner",
           "block", "unblock", "contact_block", "contact_unblock"}
OnShop == {"resetdb", "confirm", "promo"}
Broadcasts == {"promo", "broadcast"}
NoRun == [pc |-> "idle", user |-> OwnerId, cmd |-> "start", target |-> OwnerId,
          held |-> FALSE, tx |-> FALSE, exists |-> FALSE, role |-> "none",
          noOwner |-> FALSE, flag |-> FALSE, barred |-> FALSE]
\* /remove_owner v by an owner, once the main owner is known to be another one.
Removal(v) == [NoRun EXCEPT !.pc = "load", !.cmd = "remove_owner", !.target = v, !.tx = TRUE]

RunRecord ==
  [pc : {"idle", "check", "handle", "primary", "load", "write", "own", "join", "truncate"},
   user : Users, cmd : {"start", "touch"} \cup OnUser \cup OnShop \cup Broadcasts, target : Users,
   held : BOOLEAN, tx : BOOLEAN, exists : BOOLEAN, role : Roles,
   noOwner : BOOLEAN, flag : BOOLEAN, barred : BOOLEAN]

\* An owner of the shop comes before v in it, if v is one himself.
NotMain(shop, v) ==
  \E i \in DOMAIN shop.rows :
    /\ shop.roles[shop.rows[i]] = "owner"
    /\ \A j \in DOMAIN shop.rows : shop.rows[j] = v /\ shop.roles[v] = "owner" => i < j

ASSUME UsersAssumption == IsFiniteSet(Users) /\ OwnerId \in Users
\* A shop has its members among its users; at most removals are under way in it,
\* and resets that wait for their codes.
ASSUME ShopsAssumption ==
  \A shop \in Shops :
    /\ shop.slug \in Slugs
    /\ shop.rows \in Seq(Users) /\ IsInjective(shop.rows)
    /\ shop.roles \in [Users -> Roles] /\ shop.blocked \in SUBSET Users
    /\ shop.codes \in SUBSET Users
    /\ \A u \in Users : shop.roles[u] # "none" => u \in ToSet(shop.rows)
    /\ \A L \in shop.runs :
         /\ L = [r \in Runs |-> L[r]]
         /\ \A r \in Runs :
              L[r] = NoRun \/ \E v \in Users : L[r] = Removal(v) /\ NotMain(shop, v)

TypeOK ==
  /\ PoolTypeOK(Users)
  /\ tenants \in Seq(TenantRow)
  /\ Len(tenants) <= 2 /\ \A i, j \in DOMAIN tenants :
       i # j => tenants[i].slug # tenants[j].slug /\ ~(tenants[i].bot /\ tenants[j].bot)
  /\ rows \in Seq(Users) /\ IsInjective(rows) /\ home \in [Users -> 0..2]
  /\ members \in [Ids -> [Users -> Roles]]
  /\ \A i \in Ids, u \in Users : members[i][u] # "none" => i \in DOMAIN tenants /\ u \in ToSet(rows)
  /\ blocked \in [Ids -> SUBSET Users] /\ codes \subseteq Users
  /\ \A u \in ToSet(rows) : home[u] \in DOMAIN tenants
  /\ run \in [Runs -> RunRecord]

-----------------------------------------------------------------------------
(***************************************************************************)
(* Lookups.                                                                *)
(***************************************************************************)

WithSlug(slug) == {i \in DOMAIN tenants : tenants[i].slug = slug}
WithToken == {i \in DOMAIN tenants : tenants[i].bot}
One(set) == IF set = {} THEN 0 ELSE CHOOSE i \in set : TRUE

\* By the bot's token, else the default tenant; 0 while neither has a row.
Runtime == One(IF WithToken # {} THEN WithToken ELSE WithSlug("default"))
Default == One(WithSlug("default"))

\* Mutant: the default tenant takes the bot's token from whoever holds it.
EnsureDefault_TakesToken ==
  IF Default = 0 THEN Append(tenants, [slug |-> "default", bot |-> TRUE])
  ELSE [tenants EXCEPT ![Default].bot = TRUE]

\* The default tenant takes the bot's token only if nobody holds it.
EnsureDefault ==
  IF Default = 0 THEN Append(tenants, [slug |-> "default", bot |-> WithToken = {}])
  ELSE IF WithToken = {} THEN [tenants EXCEPT ![Default].bot = TRUE]
  ELSE tenants

DefaultId == One({i \in DOMAIN EnsureDefault : EnsureDefault[i].slug = "default"})
RoleIn(i, u) == IF i = 0 THEN "none" ELSE members[i][u]
Role(u) == RoleIn(Runtime, u)
IsOwner(u) == Role(u) = "owner"
Barred(u) == Runtime # 0 /\ u \in blocked[Runtime]
Exists(u) == u \in ToSet(rows)

\* The rows of owners; the main owner is the one with the lowest row id.
Owners == {i \in DOMAIN rows : IsOwner(rows[i])}
IsMain(u) == \E i \in Owners : rows[i] = u /\ \A j \in Owners : i <= j
\* /promo: the users of the bot's tenant but the sender. A post of the AI: the
\* members of the sender's tenant.
Recipients(u) == {v \in ToSet(rows) : home[v] = Runtime} \ {u}
Readers(u) ==
  LET i == IF Exists(u) THEN home[u] ELSE Runtime
  IN {v \in ToSet(rows) : RoleIn(i, v) # "none"} \ {u}

-----------------------------------------------------------------------------
(***************************************************************************)
(* Init: a shop, and what is under way in it; the bot's token is with its  *)
(* tenant.                                                                 *)
(***************************************************************************)

NoMembers == [i \in Ids |-> [u \in Users |-> "none"]]

Init ==
  /\ \E shop \in Shops :
       /\ tenants = <<[slug |-> shop.slug, bot |-> TRUE]>> /\ rows = shop.rows
       /\ home = [u \in Users |-> IF u \in ToSet(shop.rows) THEN 1 ELSE 0]
       /\ members = [NoMembers EXCEPT ![1] = shop.roles]
       /\ blocked = [i \in Ids |-> IF i = 1 THEN shop.blocked ELSE {}]
       /\ owned = (\E u \in Users : shop.roles[u] = "owner")
       /\ excuses = IF shop.roles[OwnerId] \in {"none", "owner"} THEN {} ELSE {"touched"}
       /\ codes = shop.codes /\ run \in shop.runs
  /\ updates = 0
  /\ PoolInit(Users)

-----------------------------------------------------------------------------
(***************************************************************************)
(* A handler run: the middleware, then the handler of the command.         *)
(***************************************************************************)

At(r, pc) == run[r].pc = pc
Set(r, L) == run' = [run EXCEPT ![r] = L]
End(r) == Set(r, NoRun)
Stays == UNCHANGED <<database, codes, updates, owned, excuses, pool>>
Update == updates < MaxUpdates /\ updates' = updates + 1

Truncating == \E s \in Runs : At(s, "truncate")
\* TRUNCATE is first in the queue for the tables' locks, except before a
\* transaction that has locks on them already.
MayRead(r) == ~Truncating \/ run[r].tx

Arrive(r) ==
  /\ At(r, "idle") /\ Update
  /\ \E u, v \in Users, cmd \in {"start", "touch", "broadcast"} \cup OnUser \cup OnShop :
       /\ cmd \in OnUser \/ v = u
       \* Bounds: the owners' commands are sent by owners, who may have ceased to
       \* be; no overlap with a broadcast; no more than one code at a time.
       /\ cmd \in OnUser \cup OnShop => IsOwner(u)
       /\ cmd \in Broadcasts => \A s \in Runs : At(s, "idle")
       /\ \A s \in Runs : run[s].cmd \notin Broadcasts
       /\ cmd = "resetdb" => codes = {}
       /\ Set(r, [NoRun EXCEPT !.pc = "check", !.user = u, !.cmd = cmd, !.target = v,
                    !.barred = Barred(u) /\ ~IsOwner(u) /\ u # OwnerId])
  /\ UNCHANGED <<database, codes, owned, excuses, pool>>

\* Who has become an owner since his message arrived is no longer barred.
Passes(r, held) ==
  Set(r, [run[r] EXCEPT !.pc = "handle", !.held = held, !.barred = @ /\ ~IsOwner(run[r].user)])

\* Mutant: staff are let through before the block is looked at.
Check_StaffFirst(r) ==
  LET u == run[r].user
  IN /\ At(r, "check") /\ MayRead(r)
     /\ IF IsOwner(u) \/ Role(u) = "staff" THEN Passes(r, u # OwnerId)
        ELSE IF Barred(u) /\ u # OwnerId THEN End(r) ELSE Passes(r, FALSE)
     /\ Stays

\* OWNER_ID is let through without a query. For any other owner the session of
\* the check stays open around the handler; for the rest it is closed.
Check(r) ==
  LET u == run[r].user
  IN /\ At(r, "check") /\ MayRead(r)
     /\ IF u = OwnerId THEN Passes(r, FALSE)
        ELSE IF IsOwner(u) THEN Passes(r, TRUE)
        ELSE IF Barred(u) THEN End(r) ELSE Passes(r, FALSE)
     /\ Stays

\* owner_only, or the handler's own test.
Authorize(r) ==
  LET cmd == run[r].cmd
      first == IF cmd \in {"start", "remove_owner"} THEN "primary"
               ELSE IF cmd \in OnShop \cup Broadcasts THEN "own" ELSE "load"
  IN /\ At(r, "handle") /\ MayRead(r)
     /\ IF cmd \in OnUser \cup OnShop /\ ~IsOwner(run[r].user) THEN End(r)
        ELSE Set(r, [run[r] EXCEPT !.pc = first, !.tx = TRUE])
     /\ Stays

\* get_primary_owner_tg_id.
ReadPrimaryForStart(r) ==
  /\ At(r, "primary") /\ MayRead(r) /\ run[r].cmd = "start"
  /\ Set(r, [run[r] EXCEPT !.pc = "load", !.noOwner = (Owners = {})])
  /\ Stays

\* Mutant: the main owner is not spared.
ReadPrimary_AnyOwner(r) ==
  /\ At(r, "primary") /\ MayRead(r) /\ run[r].cmd = "remove_owner"
  /\ Set(r, [run[r] EXCEPT !.pc = "load"])
  /\ Stays

\* The role of the main owner is not taken.
ReadPrimary(r) ==
  /\ At(r, "primary") /\ MayRead(r) /\ run[r].cmd = "remove_owner"
  /\ IF IsMain(run[r].target) THEN End(r)
     ELSE Set(r, [run[r] EXCEPT !.pc = "load"])
  /\ Stays

\* start, and the handlers that register an unknown user: the membership is the
\* one in the default tenant.
LoadUser(r) ==
  LET u == run[r].user
  IN /\ At(r, "load") /\ MayRead(r) /\ run[r].cmd \in {"start", "touch"}
     /\ IF run[r].cmd = "touch" /\ Exists(u) THEN End(r)
        ELSE Set(r, [run[r] EXCEPT !.pc = "write", !.exists = Exists(u),
                                   !.role = RoleIn(Default, u)])
     /\ Stays

\* A command on a user: he must have a row, and satisfy what the command asks.
LoadTarget(r, cmd, allowed) ==
  LET v == run[r].target
  IN /\ At(r, "load") /\ MayRead(r) /\ run[r].cmd = cmd
     /\ IF Exists(v) /\ allowed
        THEN Set(r, [run[r] EXCEPT !.pc = "write", !.role = Role(v), !.flag = Barred(v)])
        ELSE End(r)
     /\ Stays

NoOwner(v) == Role(v) \notin {"none", "owner"}
Member(v) == Role(v) # "none"

LoadStaff(r) == LoadTarget(r, "staff", TRUE)
LoadSeller(r) == LoadTarget(r, "set_seller", TRUE)
LoadUnstaff(r) == LoadTarget(r, "unstaff", TRUE)
LoadNewOwner(r) == LoadTarget(r, "add_owner", TRUE)
LoadOwner(r) == LoadTarget(r, "remove_owner", IsOwner(run[r].target))
\* /block asks again whether its sender is an owner; the button does not.
LoadBlock(r) == LoadTarget(r, "block", NoOwner(run[r].target) /\ IsOwner(run[r].user))
LoadUnblock(r) == LoadTarget(r, "unblock", Member(run[r].target))
LoadContactBlock(r) == LoadTarget(r, "contact_block", NoOwner(run[r].target))
LoadContactUnblock(r) == LoadTarget(r, "contact_unblock", Member(run[r].target))

-----------------------------------------------------------------------------
(***************************************************************************)
(* The commits. An insert fails if the row is there by now.                *)
(***************************************************************************)

\* What the properties are told of: whether the shop has had an owner, and events.
Note(events) ==
  /\ owned' = (owned \/ \E u \in Users : Runtime' # 0 /\ members'[Runtime'][u] = "owner")
  /\ excuses' = excuses \cup events

\* What excuses the properties: a role taken from an owner, an owner added while
\* a removal is under way.
Demotes(r) == IF IsOwner(run[r].target) THEN {"demoted"} ELSE {}
Crosses == IF \E s \in Runs : run[s].cmd = "remove_owner" THEN {"crossed"} ELSE {}

\* A user without a row gets one; a membership that is not there is made.
Register(u, i, role) ==
  /\ IF Exists(u) THEN UNCHANGED <<rows, home>>
     ELSE rows' = Append(rows, u) /\ home' = [home EXCEPT ![u] = i]
  /\ members' = [members EXCEPT ![i][u] = IF @ = "none" THEN role ELSE @]

\* Mutant: OWNER_ID is compared only when the shop has an owner.
StartRole_Swapped(r) ==
  IF run[r].user = OwnerId /\ ~run[r].noOwner THEN "owner" ELSE "client"

StartRole(r) ==
  IF run[r].user = OwnerId /\ run[r].noOwner THEN "owner" ELSE "client"

Conflict(r, i) ==
  \/ ~run[r].exists /\ Exists(run[r].user)
  \/ run[r].role = "none" /\ i \in DOMAIN tenants /\ members[i][run[r].user] # "none"

\* A blocked user is told so, and nothing of the run is kept.
CommitStart(r) ==
  LET u == run[r].user
  IN /\ At(r, "write") /\ run[r].cmd = "start" /\ End(r)
     /\ IF Conflict(r, DefaultId) \/ (Barred(u) /\ ~IsOwner(u))
        THEN UNCHANGED <<database, owned, excuses>>
        ELSE /\ tenants' = EnsureDefault /\ Register(u, DefaultId, StartRole(r))
             /\ UNCHANGED blocked
             /\ Note((IF u = OwnerId /\ ~owned THEN {"started"} ELSE {})
                      \cup (IF StartRole(r) = "owner" THEN Crosses ELSE {}))
     /\ UNCHANGED <<codes, updates, pool>>

\* A button pressed, or a message to the shop, before /start.
CommitTouch(r) ==
  LET u == run[r].user
  IN /\ At(r, "write") /\ run[r].cmd = "touch" /\ End(r)
     /\ IF Conflict(r, DefaultId) THEN UNCHANGED <<database, owned, excuses>>
        ELSE /\ tenants' = EnsureDefault /\ Register(u, DefaultId, "client")
             /\ UNCHANGED blocked /\ Note(IF u = OwnerId THEN {"touched"} ELSE {})
     /\ UNCHANGED <<codes, updates, pool>>

\* A membership that was missing is inserted; a role that was the new one
\* already is not written.
CommitRole(r, cmd, role, events) ==
  LET v == run[r].target
      conflict == run[r].role = "none" /\ Role(v) # "none"
  IN /\ At(r, "write") /\ run[r].cmd = cmd /\ End(r)
     /\ UNCHANGED <<tenants, rows, home, blocked, codes, updates, pool>>
     /\ IF conflict \/ run[r].role = role THEN UNCHANGED <<members, owned, excuses>>
        ELSE /\ members' = [members EXCEPT ![Runtime][v] = role]
             /\ Note(IF v = OwnerId \/ cmd # "remove_owner" THEN events ELSE {})

CommitStaff(r) == CommitRole(r, "staff", "staff", Demotes(r))
CommitSeller(r) == CommitRole(r, "set_seller", "staff", Demotes(r))
CommitUnstaff(r) == CommitRole(r, "unstaff", "client", Demotes(r))
CommitNewOwner(r) == CommitRole(r, "add_owner", "owner", Crosses)
CommitRemoval(r) == CommitRole(r, "remove_owner", "client", {"removed"})

\* A run that arrived while its user was blocked may go on once he is not.
CommitBlock(r, cmd, flag) ==
  LET v == run[r].target
      others == [s \in Runs |-> IF s = r THEN NoRun
                                ELSE [run[s] EXCEPT !.barred = @ /\ (flag \/ run[s].user # v)]]
  IN /\ At(r, "write") /\ run[r].cmd = cmd /\ run' = others
     /\ blocked' = IF run[r].flag = flag THEN blocked
                   ELSE [blocked EXCEPT ![Runtime] = IF flag THEN @ \cup {v} ELSE @ \ {v}]
     /\ UNCHANGED <<tenants, rows, home, members, codes, updates, owned, excuses, pool>>

Block(r) == CommitBlock(r, "block", TRUE)
Unblock(r) == CommitBlock(r, "unblock", FALSE)
ContactBlock(r) == CommitBlock(r, "contact_block", TRUE)
ContactUnblock(r) == CommitBlock(r, "contact_unblock", FALSE)

-----------------------------------------------------------------------------
(***************************************************************************)
(* The reset of the database.                                              *)
(***************************************************************************)

RequestReset(r) ==
  /\ At(r, "own") /\ run[r].cmd = "resetdb"
  /\ codes' = codes \cup {run[r].user} /\ End(r)
  /\ UNCHANGED <<database, updates, owned, excuses, pool>>

CodeExpires ==
  /\ \E u \in codes : codes' = codes \ {u}
  /\ UNCHANGED <<database, run, updates, owned, excuses, pool>>

\* Code and lock are tested and taken without an await in between. The handler
\* closes its own session.
ConfirmReset(r) ==
  LET u == run[r].user
  IN /\ At(r, "own") /\ run[r].cmd = "confirm"
     /\ IF u \notin codes \/ Truncating THEN End(r) /\ UNCHANGED codes
        ELSE codes' = codes \ {u} /\ Set(r, [run[r] EXCEPT !.pc = "truncate", !.tx = FALSE])
     /\ UNCHANGED <<database, updates, owned, excuses, pool>>

Truncate(r) ==
  /\ At(r, "truncate") /\ \A s \in Runs : ~run[s].tx /\ ~run[s].held
  /\ tenants' = <<>> /\ rows' = <<>> /\ home' = [u \in Users |-> 0]
  /\ members' = NoMembers /\ blocked' = [i \in Ids |-> {}]
  /\ owned' = FALSE /\ excuses' = {}
  /\ run' = [s \in Runs |-> IF s = r THEN NoRun ELSE [run[s] EXCEPT !.barred = FALSE]]
  /\ UNCHANGED <<codes, updates, pool>>

-----------------------------------------------------------------------------
(***************************************************************************)
(* Broadcasts; what the web API and the bootstrap script do with tenants.  *)
(***************************************************************************)

StartBroadcast(r, cmd, to) ==
  /\ At(r, "own") /\ run[r].cmd = cmd
  /\ IF to = {} THEN End(r) /\ UNCHANGED pool
     ELSE PoolStart(to) /\ Set(r, [run[r] EXCEPT !.pc = "join"])
  /\ UNCHANGED <<database, codes, updates, owned, excuses>>

StartPromo(r) == StartBroadcast(r, "promo", Recipients(run[r].user))
StartPost(r) == StartBroadcast(r, "broadcast", Readers(run[r].user))

Deliver == PoolStep /\ UNCHANGED <<database, codes, run, updates, owned, excuses>>

ReportBroadcast(r) ==
  /\ At(r, "join") /\ Report /\ End(r)
  /\ UNCHANGED <<database, codes, updates, owned, excuses>>

\* Any request to the web API that names no tenant there is: the default one is
\* looked up, and made, and that is committed before the admin key is compared.
WebRequest ==
  /\ ~Truncating /\ tenants # EnsureDefault /\ tenants' = EnsureDefault
  /\ UNCHANGED <<rows, home, members, blocked, codes, run, updates, owned, excuses, pool>>

\* update_admin_tenant_settings: the slug must be free.
RenameTenant ==
  /\ ~Truncating /\ Update
  /\ \E i \in DOMAIN tenants, slug \in Slugs :
       WithSlug(slug) = {} /\ tenants' = [tenants EXCEPT ![i].slug = slug]
  /\ UNCHANGED <<rows, home, members, blocked, codes, run, owned, excuses, pool>>

MakeOwner(u, i) ==
  /\ IF Exists(u) THEN UNCHANGED <<rows, home>>
     ELSE rows' = Append(rows, u) /\ home' = [home EXCEPT ![u] = i]
  /\ members' = [members EXCEPT ![i][u] = "owner"]

\* create_tenant_with_defaults, from the web API: the slug must be free, and the
\* tenant has a token of its own. Bound: one.
CreateTenant ==
  /\ ~Truncating /\ Update
  /\ Len(tenants) = 1 /\ WithSlug("shop") = {}
  /\ tenants' = Append(tenants, [slug |-> "shop", bot |-> FALSE])
  /\ \E u \in Users : MakeOwner(u, 2)
  /\ UNCHANGED <<blocked, codes, run, owned, excuses, pool>>

\* bootstrap_telegram_shop.py, which gives up if another tenant has the token.
\* With --replace-owner on a tenant that is there it fails: it names a class it
\* does not import. Bound: two tenants.
Bootstrap ==
  /\ ~Truncating /\ Update
  /\ \E slug \in Slugs, u \in Users :
       LET i == IF WithSlug(slug) = {} THEN Len(tenants) + 1 ELSE One(WithSlug(slug))
       IN /\ i \in Ids /\ WithToken \subseteq {i}
          /\ tenants' = IF i \in DOMAIN tenants THEN [tenants EXCEPT ![i].bot = TRUE]
                        ELSE Append(tenants, [slug |-> slug, bot |-> TRUE])
          /\ MakeOwner(u, i)
  /\ Note(Crosses)
  /\ UNCHANGED <<blocked, codes, run, pool>>

Load(r) ==
  \/ LoadUser(r) \/ LoadStaff(r) \/ LoadSeller(r) \/ LoadUnstaff(r) \/ LoadNewOwner(r)
  \/ LoadOwner(r) \/ LoadBlock(r) \/ LoadUnblock(r)
  \/ LoadContactBlock(r) \/ LoadContactUnblock(r)
Commit(r) ==
  \/ CommitStart(r) \/ CommitTouch(r) \/ CommitStaff(r) \/ CommitSeller(r) \/ CommitUnstaff(r)
  \/ CommitNewOwner(r) \/ CommitRemoval(r) \/ Block(r) \/ Unblock(r)
  \/ ContactBlock(r) \/ ContactUnblock(r)
Handle(r) ==
  \/ Check(r) \/ Authorize(r) \/ ReadPrimaryForStart(r) \/ ReadPrimary(r) \/ Load(r) \/ Commit(r)
  \/ RequestReset(r) \/ ConfirmReset(r) \/ Truncate(r) \/ StartPromo(r) \/ StartPost(r)
  \/ ReportBroadcast(r)

Next ==
  \/ \E r \in Runs : Arrive(r) \/ Handle(r)
  \/ CodeExpires \/ Deliver \/ WebRequest \/ RenameTenant \/ CreateTenant \/ Bootstrap

\* Each handler that can go on does (the event loop), so do the pool's workers:
\* a send ends, at the latest by aiohttp's timeout.
Fairness == WF_vars(Deliver) /\ \A r \in Runs : WF_vars(Handle(r))
Spec == Init /\ [][Next]_vars /\ Fairness

-----------------------------------------------------------------------------
(***************************************************************************)
(* Properties.                                                             *)
(***************************************************************************)

\* Removals alone never leave the shop without an owner, whoever sends
\* /remove_owner about whom and however the handlers interleave; only /staff,
\* /unstaff and /set_seller do, or an owner added (/add_owner, the script, the
\* first /start of the configured owner) while a removal is under way
\* (owner_remove_owner, get_primary_owner_tg_id).
OwnerRemains ==
  owned /\ excuses \cap {"demoted", "crossed"} = {} => Owners # {}

\* Once the configured owner has sent /start to a shop that never had an owner,
\* a new one or one that was reset, he is an owner, unless a button he pressed
\* before made him a client, a command took the role, or the token is with
\* another tenant than the default one (start_handler,
\* get_or_create_default_tenant_user).
ConfiguredOwner ==
  /\ "started" \in excuses /\ Runtime = Default
  /\ excuses \cap {"touched", "removed", "demoted"} = {}
  => IsOwner(OwnerId)

\* A user who is blocked, and no owner, when his message arrives gets past the
\* middleware only if he is unblocked or made an owner meanwhile
\* (BlockUserMiddleware).
BlockedKeptOut == \A r \in Runs : run[r].barred => run[r].pc \in {"idle", "check"}

\* A broadcast returns, however its messages fail, having given nobody a second
\* copy; what it reports is the number of copies delivered less those whose
\* answer was lost (_broadcast_post, _broadcast_promo_video).
CopiesCounted ==
  /\ \A u \in Users : got[u] <= 1
  /\ counted + unsure = Cardinality({u \in Users : got[u] > 0})
BroadcastReturns == phase = "joining" ~> phase = "returned" /\ CopiesCounted

\* A reset that was confirmed comes to its end (confirm_reset_db_handler).
ResetEnds == \A r \in Runs : At(r, "truncate") ~> ~At(r, "truncate")

=============================================================================
