---------------------------- MODULE TenantsProofs ----------------------------
(***************************************************************************)
(* Proofs about Tenants and the pool of Broadcast for any number of users, *)
(* handler runs and workers, and any shops to begin with.                  *)
(***************************************************************************)
EXTENDS Tenants, FiniteSetTheorems, TLAPS

-----------------------------------------------------------------------------
(***************************************************************************)
(* The pool.                                                               *)
(***************************************************************************)

\* The workers that hold an id; those about to count; the users with a copy.
Holding == {w \in Workers : hand[w].pc # "get"}
Counting == {w \in Workers : hand[w].pc = "count"}
Reached == {u \in Users : got[u] > 0}

\* What is unfinished is in the queue or in a hand, no id is there twice or has
\* has got a copy before it is sent one, and every copy is counted, unsure or about
\* to be counted.
PoolFits ==
  /\ phase # "joining" => todo = {} /\ Holding = {}
  /\ unfinished = Cardinality(todo) + Cardinality(Holding)
  /\ \A w \in Holding : hand[w].to \in Users \ todo
  /\ \A w, v \in Holding : hand[w].to = hand[v].to => w = v
  /\ \A u \in Users : got[u] <= 1
  /\ \A u \in todo : got[u] = 0
  /\ \A w \in Holding : hand[w].pc \in {"send", "plain"} => got[hand[w].to] = 0
  /\ counted + unsure + Cardinality(Counting) = Cardinality(Reached)

PoolInv == PoolTypeOK(Users) /\ PoolFits

LEMMA UsersFinite == \A S \in SUBSET Users : IsFiniteSet(S) /\ Cardinality(S) \in Nat
BY UsersAssumption, FS_Subset, FS_CardinalityType

LEMMA WorkersFinite == \A S \in SUBSET Workers : IsFiniteSet(S) /\ Cardinality(S) \in Nat
BY WorkersAssumption, FS_Subset, FS_CardinalityType

LEMMA PoolSets ==
  ASSUME PoolTypeOK(Users)
  PROVE  /\ Holding \subseteq Workers /\ Counting \subseteq Workers /\ Reached \subseteq Users
         /\ todo \subseteq Users
         /\ IsFiniteSet(Holding) /\ Cardinality(Holding) \in Nat
         /\ IsFiniteSet(Counting) /\ Cardinality(Counting) \in Nat
         /\ IsFiniteSet(Reached) /\ Cardinality(Reached) \in Nat
         /\ IsFiniteSet(todo) /\ Cardinality(todo) \in Nat
         /\ unfinished \in Nat /\ counted \in Nat /\ unsure \in Nat /\ got \in [Users -> Nat]
<1>1. /\ Holding \subseteq Workers /\ Counting \subseteq Workers /\ Reached \subseteq Users
      /\ todo \subseteq Users
  BY DEF Holding, Counting, Reached, PoolTypeOK
<1>2. Cardinality(Users) \in Nat
  BY UsersFinite
<1>. QED
  BY <1>1, <1>2, UsersFinite, WorkersFinite DEF PoolTypeOK

LEMMA PoolInitInv == PoolInit(Users) => PoolInv
<1>. SUFFICES ASSUME PoolInit(Users) PROVE PoolInv
  OBVIOUS
<1>1. Cardinality(Users) \in Nat /\ Cardinality({}) = 0
  BY UsersFinite, FS_EmptySet
<1>2. Holding = {} /\ Counting = {} /\ Reached = {}
  BY DEF PoolInit, Holding, Counting, Reached, Nobody
<1>. QED
  BY <1>1, <1>2 DEF PoolInit, PoolInv, PoolTypeOK, PoolFits, Nobody

LEMMA PoolStartInv ==
  ASSUME PoolInv, NEW to \in SUBSET Users, PoolStart(to)
  PROVE  PoolInv'
<1>1. /\ phase = "idle" /\ phase' = "joining" /\ todo' = to /\ unfinished' = Cardinality(to)
      /\ counted' = 0 /\ unsure' = 0 /\ hand' = hand /\ got' = [u \in Users |-> 0]
  BY DEF PoolStart, PoolInv, PoolTypeOK
<1>2. Holding = {} /\ Holding' = {} /\ Counting' = {} /\ Reached' = {}
  BY <1>1 DEF PoolInv, PoolFits, Holding, Counting, Reached
<1>3. Cardinality({}) = 0 /\ Cardinality(to) \in Nat /\ Cardinality(to) <= Cardinality(Users)
      /\ Cardinality(Users) \in Nat
  BY UsersFinite, UsersAssumption, FS_EmptySet, FS_Subset
<1>4. PoolTypeOK(Users)'
  BY <1>1, <1>3 DEF PoolInv, PoolTypeOK
<1>. QED
  BY <1>1, <1>2, <1>3, <1>4 DEF PoolInv, PoolFits

LEMMA TakeInv == ASSUME PoolInv, NEW w \in Workers, Take(w) PROVE PoolInv'
<1>1. PICK u \in todo :
        /\ phase = "joining" /\ hand[w].pc = "get" /\ todo' = todo \ {u}
        /\ hand' = [hand EXCEPT ![w] = [pc |-> "send", to |-> u]]
        /\ UNCHANGED <<phase, unfinished, counted, got, unsure>>
  BY DEF Take, Holds
<1>2. /\ u \in Users /\ hand' \in [Workers -> [pc : {"get", "send", "plain", "count", "done"},
                                              to : Users \cup {0}]]
      /\ hand'[w].pc = "send" /\ hand'[w].to = u /\ \A v \in Workers \ {w} : hand'[v] = hand[v]
  BY <1>1 DEF PoolInv, PoolTypeOK
<1>3. Holding' = Holding \cup {w} /\ w \notin Holding /\ Counting' = Counting /\ Reached' = Reached
  BY <1>1, <1>2 DEF Holding, Counting, Reached
<1>4. Cardinality(Holding') = Cardinality(Holding) + 1 /\ Cardinality(todo') = Cardinality(todo) - 1
  BY <1>1, <1>3, PoolSets, FS_AddElement, FS_RemoveElement DEF PoolInv
<1>5. PoolTypeOK(Users)'
  BY <1>1, <1>2 DEF PoolInv, PoolTypeOK
<1>6. unfinished' = Cardinality(todo') + Cardinality(Holding')
  BY <1>1, <1>4, PoolSets DEF PoolInv, PoolFits
<1>7. counted' + unsure' + Cardinality(Counting') = Cardinality(Reached')
  BY <1>1, <1>3 DEF PoolInv, PoolFits
<1>8. \A v \in Holding : hand[v].to # u
  BY <1>1 DEF PoolInv, PoolFits
<1>. QED
  BY <1>1, <1>2, <1>3, <1>5, <1>6, <1>7, <1>8 DEF PoolInv, PoolFits

\* A worker that goes on with the id it holds.
LEMMA HeldInv ==
  ASSUME PoolInv, NEW w \in Workers, NEW pc \in {"plain", "count", "done"}, Goes(w, pc),
         phase = "joining", hand[w].pc # "get", UNCHANGED <<phase, todo, unfinished>>,
         got' \in [Users -> Nat], counted' \in Nat, unsure' \in Nat,
         \A u \in Users : got'[u] <= 1, \A u \in Users \ {hand[w].to} : got'[u] = got[u],
         pc = "plain" => got'[hand[w].to] = 0,
         counted' + unsure' + Cardinality(Counting') = Cardinality(Reached')
  PROVE  PoolInv'
<1>1. /\ hand' \in [Workers -> [pc : {"get", "send", "plain", "count", "done"}, to : Users \cup {0}]]
      /\ hand'[w].pc = pc /\ hand'[w].to = hand[w].to /\ \A v \in Workers \ {w} : hand'[v] = hand[v]
  BY DEF PoolInv, PoolTypeOK, Goes
<1>2. Holding' = Holding /\ w \in Holding
  BY <1>1 DEF Holding
<1>3. PoolTypeOK(Users)'
  BY <1>1 DEF PoolInv, PoolTypeOK
<1>4. \A v \in Holding : hand'[v].to = hand[v].to
  BY <1>1 DEF Holding
<1>5. \A v \in Holding \ {w} : hand[v].to # hand[w].to /\ hand'[v] = hand[v]
  BY <1>1, <1>2 DEF PoolInv, PoolFits, Holding
<1>6. \A v \in Holding : hand[v].to \in Users \ todo
  BY DEF PoolInv, PoolFits
<1>7. \A v \in Holding : hand'[v].pc \in {"send", "plain"} => got'[hand'[v].to] = 0
  BY <1>1, <1>2, <1>5, <1>6 DEF PoolInv, PoolFits
<1>8. \A u \in todo : got'[u] = 0
  BY <1>2, <1>6, PoolSets DEF PoolInv, PoolFits
<1>. QED
  BY <1>2, <1>3, <1>4, <1>6, <1>7, <1>8 DEF PoolInv, PoolFits

\* A copy is delivered only to who has none, and counted, or unsure.
LEMMA AttemptInv ==
  ASSUME PoolInv, NEW w \in Workers, NEW onRefusal \in {"plain", "done"},
         hand[w].pc \in {"send", "plain"}, phase = "joining", Attempt(w, onRefusal)
  PROVE  PoolInv'
<1>. DEFINE u == hand[w].to
<1>1. /\ u \in Users /\ got[u] = 0 /\ got \in [Users -> Nat] /\ w \notin Counting
      /\ UNCHANGED <<phase, todo, unfinished, counted>>
      /\ \A v \in Users : got[v] <= 1
  BY DEF PoolInv, PoolTypeOK, PoolFits, Holding, Counting, Attempt
<1>2. /\ counted \in Nat /\ unsure \in Nat
      /\ IsFiniteSet(Counting) /\ Cardinality(Counting) \in Nat
      /\ IsFiniteSet(Reached) /\ Cardinality(Reached) \in Nat
      /\ counted + unsure + Cardinality(Counting) = Cardinality(Reached)
  BY PoolSets DEF PoolInv, PoolFits
<1>. HIDE DEF u
<1>3. ASSUME NEW pc, Goes(w, pc)
      PROVE  hand'[w].pc = pc /\ \A v \in Workers \ {w} : hand'[v] = hand[v]
  BY <1>3 DEF Goes, PoolInv, PoolTypeOK
<1>4. ASSUME got' = [got EXCEPT ![u] = @ + 1]
      PROVE  /\ got' \in [Users -> Nat] /\ got'[u] = 1 /\ \A v \in Users \ {u} : got'[v] = got[v]
             /\ \A v \in Users : got'[v] <= 1 /\ Cardinality(Reached') = Cardinality(Reached) + 1
  <2>1. /\ got' \in [Users -> Nat] /\ got'[u] = 1 /\ \A v \in Users \ {u} : got'[v] = got[v]
        /\ \A v \in Users : got'[v] <= 1
    BY <1>1, <1>4
  <2>2. Reached' = Reached \cup {u} /\ u \notin Reached
    BY <1>1, <2>1 DEF Reached
  <2>. QED
    BY <1>2, <2>1, <2>2, FS_AddElement
<1>5. CASE Goes(w, "count") /\ got' = [got EXCEPT ![u] = @ + 1] /\ UNCHANGED unsure
  <2>1. Counting' = Counting \cup {w}
    BY <1>3, <1>5 DEF Counting
  <2>2. Cardinality(Counting') = Cardinality(Counting) + 1
    BY <1>1, <1>2, <2>1, FS_AddElement
  <2>3. counted' + unsure' + Cardinality(Counting') = Cardinality(Reached')
    BY <1>1, <1>2, <1>4, <1>5, <2>2
  <2>. QED
    BY <1>1, <1>2, <1>4, <1>5, <2>3, HeldInv DEF u
<1>6. CASE Goes(w, onRefusal) /\ UNCHANGED <<got, unsure>>
  <2>1. Counting' = Counting /\ Reached' = Reached
    BY <1>1, <1>3, <1>6 DEF Counting, Reached
  <2>2. counted' + unsure' + Cardinality(Counting') = Cardinality(Reached')
    BY <1>1, <1>2, <1>6, <2>1
  <2>. QED
    BY <1>1, <1>2, <1>6, <2>2, HeldInv DEF u
<1>7. CASE Goes(w, "done") /\ got' = [got EXCEPT ![u] = @ + 1] /\ unsure' = unsure + 1
  <2>1. Counting' = Counting
    BY <1>1, <1>3, <1>7 DEF Counting
  <2>2. counted' + unsure' + Cardinality(Counting') = Cardinality(Reached')
    BY <1>1, <1>2, <1>4, <1>7, <2>1
  <2>. QED
    BY <1>1, <1>2, <1>4, <1>7, <2>2, HeldInv DEF u
<1>. QED
  BY <1>5, <1>6, <1>7 DEF Attempt, u

LEMMA CountInv == ASSUME PoolInv, NEW w \in Workers, Count(w) PROVE PoolInv'
<1>1. /\ phase = "joining" /\ hand[w].pc = "count" /\ counted' = counted + 1 /\ Goes(w, "done")
      /\ UNCHANGED <<phase, todo, unfinished, got, unsure>>
  BY DEF Count, Holds
<1>2. Counting' = Counting \ {w} /\ w \in Counting /\ Reached' = Reached
  BY <1>1 DEF Counting, Goes, PoolInv, PoolTypeOK, Reached
<1>3. Cardinality(Counting') = Cardinality(Counting) - 1
  BY <1>2, PoolSets, FS_RemoveElement DEF PoolInv
<1>4. counted' + unsure' + Cardinality(Counting') = Cardinality(Reached')
  BY <1>1, <1>2, <1>3, PoolSets DEF PoolInv, PoolFits
<1>5. /\ counted' \in Nat /\ unsure' \in Nat /\ got' \in [Users -> Nat]
      /\ \A u \in Users : got'[u] <= 1
  BY <1>1, PoolSets DEF PoolInv, PoolFits
<1>. QED
  BY <1>1, <1>4, <1>5, HeldInv

LEMMA TaskDoneInv == ASSUME PoolInv, NEW w \in Workers, TaskDone(w) PROVE PoolInv'
<1>1. /\ phase = "joining" /\ hand[w].pc = "done" /\ unfinished' = unfinished - 1
      /\ hand' = [hand EXCEPT ![w] = Nobody]
      /\ UNCHANGED <<phase, todo, counted, got, unsure>>
  BY DEF TaskDone, Holds
<1>2. /\ hand' \in [Workers -> [pc : {"get", "send", "plain", "count", "done"}, to : Users \cup {0}]]
      /\ hand'[w].pc = "get" /\ \A v \in Workers \ {w} : hand'[v] = hand[v]
  BY <1>1 DEF PoolInv, PoolTypeOK, Nobody
<1>3. /\ Holding' = Holding \ {w} /\ w \in Holding /\ Counting' = Counting /\ Reached' = Reached
  BY <1>1, <1>2 DEF Holding, Counting, Reached
<1>4. Cardinality(Holding') = Cardinality(Holding) - 1 /\ Cardinality(Holding') \in Nat
  <2>1. Holding \subseteq Workers /\ Holding' \subseteq Workers /\ IsFiniteSet(Holding)
    BY <1>3, PoolSets DEF PoolInv
  <2>2. Cardinality(Holding') = Cardinality(Holding) - 1
    BY <1>3, <2>1, FS_RemoveElement
  <2>. QED
    BY <2>1, <2>2, WorkersFinite
<1>5. unfinished' = Cardinality(todo) + Cardinality(Holding')
  BY <1>1, <1>4, PoolSets DEF PoolInv, PoolFits
<1>6. unfinished' \in 0..Cardinality(Users)
  <2>1. unfinished' \in Nat
    BY <1>4, <1>5, PoolSets DEF PoolInv
  <2>2. unfinished \in 0..Cardinality(Users) /\ Cardinality(Users) \in Nat
    BY UsersFinite DEF PoolInv, PoolTypeOK
  <2>. QED
    BY <1>1, <2>1, <2>2
<1>7. PoolTypeOK(Users)'
  BY <1>1, <1>2, <1>6 DEF PoolInv, PoolTypeOK
<1>8. counted' + unsure' + Cardinality(Counting') = Cardinality(Reached')
  BY <1>1, <1>3 DEF PoolInv, PoolFits
<1>9. \A v \in Holding' : v \in Holding /\ hand'[v] = hand[v]
  BY <1>2, <1>3 DEF Holding
<1>. QED
  BY <1>1, <1>5, <1>7, <1>8, <1>9 DEF PoolInv, PoolFits

LEMMA PoolStepInv == ASSUME PoolInv, PoolStep PROVE PoolInv'
<1>1. ASSUME NEW w \in Workers, Send(w) PROVE PoolInv'
  BY <1>1, AttemptInv DEF Send, Holds
<1>2. ASSUME NEW w \in Workers, SendPlain(w) PROVE PoolInv'
  BY <1>2, AttemptInv DEF SendPlain, Holds
<1>3. CASE Join
  <2>1. /\ unfinished = 0 /\ phase' = "returned"
        /\ UNCHANGED <<todo, hand, unfinished, counted, got, unsure>>
    BY <1>3 DEF Join
  <2>2. Cardinality(todo) = 0 /\ Cardinality(Holding) = 0
    BY <2>1, PoolSets DEF PoolInv, PoolFits
  <2>3. todo = {} /\ Holding = {}
    BY <2>2, PoolSets, FS_EmptySet DEF PoolInv
  <2>4. Holding' = Holding /\ Counting' = Counting /\ Reached' = Reached
    BY <2>1 DEF Holding, Counting, Reached
  <2>5. PoolTypeOK(Users)'
    BY <2>1 DEF PoolInv, PoolTypeOK
  <2>. QED
    BY <2>1, <2>3, <2>4, <2>5 DEF PoolInv, PoolFits
<1>. QED
  BY <1>1, <1>2, <1>3, TakeInv, CountInv, TaskDoneInv DEF PoolStep

LEMMA PoolSameInv ==
  ASSUME PoolInv, phase' = phase \/ Report, UNCHANGED <<todo, hand, unfinished, counted, got, unsure>>
  PROVE  PoolInv'
<1>1. Holding' = Holding /\ Counting' = Counting /\ Reached' = Reached
  BY DEF Holding, Counting, Reached
<1>2. phase' \in {phase, "idle"} /\ (phase' = "idle" => phase # "joining")
  BY DEF Report, PoolInv, PoolTypeOK
<1>3. PoolTypeOK(Users)'
  BY <1>2 DEF PoolInv, PoolTypeOK
<1>. QED
  BY <1>1, <1>2, <1>3 DEF PoolInv, PoolFits

-----------------------------------------------------------------------------
(***************************************************************************)
(* The inductive invariant of the shop.                                    *)
(***************************************************************************)

\* The first tenant has the bot's token, and no other has it.
TokenKept ==
  tenants # <<>> => tenants[1].bot /\ \A i \in DOMAIN tenants : tenants[i].bot => i = 1

Known == ToSet(rows)
Mains == {u \in Users : IsMain(u)}
Quiet == excuses \cap {"demoted", "crossed"} = {}

OwnedFits == (owned => tenants # <<>>) /\ (Owners # {} => owned) /\ OwnerRemains

\* What a handler may rely on in what it has read: a transaction keeps the reset
\* away, so a shop that had an owner or a user is still the same; who is blocked
\* still is; and whose role is about to be taken is still not the main owner.
Relies(L) ==
  /\ L.pc \in {"primary", "load", "write"} => L.tx /\ (L.cmd \in OnUser => owned)
  /\ L.pc \in {"load", "write"} /\ L.cmd = "start" => L.noOwner \/ owned
  /\ L.pc = "write" /\ L.cmd \in OnUser => L.target \in Known
  /\ L.barred => /\ L.pc \in {"idle", "check"} /\ L.user # OwnerId
                 /\ tenants # <<>> /\ L.user \in blocked[1]
  /\ Quiet /\ L.pc \in {"load", "write"} /\ L.cmd = "remove_owner" => L.target \notin Mains
Handlers == \A r \in Runs : Relies(run[r])

\* The configured owner has no membership that keeps him from becoming the first
\* owner; once he is, he is an owner of the tenant with the token, unless that is
\* not the default one for good.
Elsewhere == Len(tenants) = 2 /\ tenants[1].slug # "default"
ConfiguredFits ==
  /\ ~owned /\ "touched" \notin excuses => members[1][OwnerId] = "none"
  /\ "started" \in excuses /\ excuses \cap {"touched", "removed", "demoted"} = {} =>
       members[1][OwnerId] = "owner" \/ Elsewhere

Inv == TypeOK /\ PoolFits /\ TokenKept /\ OwnedFits /\ Handlers /\ ConfiguredFits

TenantList(list) ==
  /\ list \in Seq(TenantRow) /\ Len(list) <= 2
  /\ \A i, j \in DOMAIN list : i # j => list[i].slug # list[j].slug /\ ~(list[i].bot /\ list[j].bot)
  /\ list # <<>> => list[1].bot /\ \A i \in DOMAIN list : list[i].bot => i = 1

LEMMA TenantFacts ==
  ASSUME TenantList(tenants)
  PROVE  /\ Len(tenants) \in {0, 1, 2} /\ DOMAIN tenants = 1..Len(tenants)
         /\ (tenants = <<>>) <=> (Len(tenants) = 0)
         /\ \A i \in DOMAIN tenants : tenants[i].slug \in Slugs /\ tenants[i].bot \in BOOLEAN
         /\ tenants # <<>> => WithToken = {1}
         /\ tenants = <<>> => WithToken = {}
<1>1. /\ Len(tenants) \in {0, 1, 2} /\ DOMAIN tenants = 1..Len(tenants)
      /\ (tenants = <<>>) <=> (Len(tenants) = 0)
  <2>1. tenants \in Seq(TenantRow) /\ Len(tenants) <= 2
    BY DEF TenantList
  <2>2. Len(tenants) \in {0, 1, 2} /\ DOMAIN tenants = 1..Len(tenants)
    <3>1. PICK n \in Nat : n = Len(tenants) /\ n <= 2
      BY <2>1
    <3>. QED
      BY <2>1, <3>1
  <2>3. Len(tenants) = 0 => tenants = <<>>
    BY <2>1
  <2>4. tenants = <<>> => Len(tenants) = 0
    OBVIOUS
  <2>. QED
    BY <2>2, <2>3, <2>4
<1>2. \A i \in DOMAIN tenants : tenants[i] \in TenantRow
  <2>1. tenants \in Seq(TenantRow)
    BY DEF TenantList
  <2>. QED
    BY <1>1, <2>1
<1>3. \A i \in DOMAIN tenants : tenants[i].slug \in Slugs /\ tenants[i].bot \in BOOLEAN
  BY <1>2 DEF TenantRow
<1>4. tenants # <<>> => WithToken = {1}
  <2>. SUFFICES ASSUME tenants # <<>> PROVE WithToken = {1}
    OBVIOUS
  <2>1. 1 \in DOMAIN tenants
    BY <1>1
  <2>2. tenants[1].bot /\ \A i \in DOMAIN tenants : tenants[i].bot => i = 1
    BY DEF TenantList
  <2>. QED
    BY <2>1, <2>2 DEF WithToken
<1>5. tenants = <<>> => WithToken = {}
  BY <1>1 DEF WithToken
<1>. QED
  BY <1>1, <1>3, <1>4, <1>5, Zenon

LEMMA OneOf == One({}) = 0 /\ \A i : One({i}) = i
BY DEF One

LEMMA RuntimeIs ==
  ASSUME TenantList(tenants)
  PROVE  Runtime = IF tenants = <<>> THEN 0 ELSE 1
<1>1. CASE tenants # <<>>
  BY <1>1, TenantFacts, OneOf DEF Runtime
<1>2. CASE tenants = <<>>
  <2>1. WithToken = {} /\ WithSlug("default") = {}
    BY <1>2, TenantFacts DEF WithSlug
  <2>. QED
    BY <1>2, <2>1, OneOf DEF Runtime
<1>. QED
  BY <1>1, <1>2

LEMMA DefaultIs ==
  ASSUME TenantList(tenants)
  PROVE  /\ Default \in {0} \cup DOMAIN tenants
         /\ Default # 0 => tenants[Default].slug = "default"
         /\ Default = 0 => \A i \in DOMAIN tenants : tenants[i].slug # "default"
         /\ Len(tenants) = 2 => Default # 0
<1>1. CASE WithSlug("default") = {}
  <2>1. \A i \in DOMAIN tenants : tenants[i].slug # "default"
    BY <1>1 DEF WithSlug
  <2>2. Len(tenants) # 2
    BY <2>1, TenantFacts DEF TenantList, Slugs
  <2>. QED
    BY <1>1, <2>1, <2>2, OneOf DEF Default
<1>2. CASE WithSlug("default") # {}
  <2>1. Default \in WithSlug("default")
    BY <1>2 DEF Default, One
  <2>. QED
    BY <2>1, TenantFacts DEF WithSlug
<1>. QED
  BY <1>1, <1>2

\* The tenants once the default one is there.
LEMMA EnsureDefaultFacts ==
  ASSUME TenantList(tenants)
  PROVE  /\ TenantList(EnsureDefault) /\ EnsureDefault # <<>>
         /\ DefaultId \in DOMAIN EnsureDefault /\ DefaultId \in Ids
         /\ DOMAIN tenants \subseteq DOMAIN EnsureDefault
         /\ \A i \in DOMAIN tenants : EnsureDefault[i].slug = tenants[i].slug
         /\ EnsureDefault[DefaultId].slug = "default"
<1>. DEFINE row == [slug |-> "default", bot |-> WithToken = {}]
<1>0. row \in TenantRow
  <2>1. (WithToken = {}) \in BOOLEAN
    BY Zenon
  <2>2. "default" \in Slugs
    BY DEF Slugs
  <2>. QED
    BY <2>1, <2>2, Zenon DEF TenantRow
<1>1. CASE Default = 0
  <2>1. EnsureDefault = Append(tenants, row)
    BY <1>1 DEF EnsureDefault
  <2>2. Len(tenants) \in {0, 1} /\ tenants \in Seq(TenantRow)
    BY <1>1, TenantFacts, DefaultIs DEF TenantList
  <2>3. /\ EnsureDefault \in Seq(TenantRow)
        /\ Len(EnsureDefault) = Len(tenants) + 1
        /\ \A i \in 1..Len(tenants) : EnsureDefault[i] = tenants[i]
        /\ EnsureDefault[Len(tenants) + 1] = row
    BY <1>0, <2>1, <2>2
  <2>. HIDE DEF row
  <2>4. row.slug = "default" /\ (row.bot <=> tenants = <<>>)
    BY TenantFacts DEF row
  <2>5. DOMAIN EnsureDefault = 1..Len(tenants) + 1
    BY <2>3
  <2>6. TenantList(EnsureDefault)
    BY <1>1, <2>2, <2>3, <2>4, <2>5, TenantFacts, DefaultIs DEF TenantList
  <2>7. {i \in DOMAIN EnsureDefault : EnsureDefault[i].slug = "default"} = {Len(tenants) + 1}
    BY <1>1, <2>2, <2>3, <2>4, <2>5, TenantFacts, DefaultIs
  <2>8. DefaultId = Len(tenants) + 1
    BY <2>7, OneOf DEF DefaultId
  <2>. QED
    BY <2>2, <2>3, <2>4, <2>5, <2>6, <2>8, TenantFacts DEF Ids
<1>2. CASE Default # 0
  <2>1. EnsureDefault = tenants
    <3>1. tenants # <<>>
      BY <1>2, TenantFacts, DefaultIs
    <3>. QED
      BY <1>2, <3>1, TenantFacts DEF EnsureDefault
  <2>2. DefaultId = Default
    BY <2>1 DEF DefaultId, Default, WithSlug
  <2>. QED
    BY <1>2, <2>1, <2>2, TenantFacts, DefaultIs DEF Ids
<1>. QED
  BY <1>1, <1>2

\* The memberships of the first tenant decide.
Sane ==
  /\ TenantList(tenants) /\ members \in [Ids -> [Users -> Roles]]
  /\ rows \in Seq(Users) /\ \A u \in Users : members[1][u] # "none" => tenants # <<>>

LEMMA OwnersAre ==
  ASSUME Sane
  PROVE  /\ \A u \in Users : IsOwner(u) <=> members[1][u] = "owner"
         /\ \A u \in Users : Role(u) \in Roles /\ (tenants # <<>> => Role(u) = members[1][u])
         /\ Owners = {i \in DOMAIN rows : members[1][rows[i]] = "owner"}
<1>1. \A u \in Users : Role(u) = IF tenants = <<>> THEN "none" ELSE members[1][u]
  BY RuntimeIs DEF Sane, Role, RoleIn
<1>2. \A u \in Users : members[1][u] \in Roles
  BY DEF Sane, Ids
<1>3. \A u \in Users : IsOwner(u) <=> members[1][u] = "owner"
  BY <1>1 DEF Sane, IsOwner
<1>4. \A i \in DOMAIN rows : rows[i] \in Users
  BY DEF Sane
<1>. QED
  BY <1>1, <1>2, <1>3, <1>4 DEF Owners, Roles

LEMMA Sanity == TypeOK /\ TokenKept => Sane
BY DEF TypeOK, TokenKept, Sane, TenantList, Ids

-----------------------------------------------------------------------------
(***************************************************************************)
(* Steps of handlers that leave the database as it is.                     *)
(***************************************************************************)

LEMMA Facts ==
  ASSUME Inv
  PROVE  /\ Sane /\ PoolInv
         /\ \A u \in Users : (IsOwner(u) <=> members[1][u] = "owner")
         /\ \A u \in Users : Role(u) \in Roles /\ (tenants # <<>> => Role(u) = members[1][u])
         /\ Owners = {i \in DOMAIN rows : members[1][rows[i]] = "owner"}
         /\ Runtime = (IF tenants = <<>> THEN 0 ELSE 1)
         /\ run \in [Runs -> RunRecord] /\ \A r \in Runs : Relies(run[r])
         /\ Known \subseteq Users /\ OwnerId \in Users
         /\ \A u \in Known : members[1][u] = "owner" => owned
<1>1. Sane /\ PoolInv
  BY Sanity DEF Inv, PoolInv, TypeOK
<1>2. /\ \A u \in Users : (IsOwner(u) <=> members[1][u] = "owner")
      /\ \A u \in Users : Role(u) \in Roles /\ (tenants # <<>> => Role(u) = members[1][u])
      /\ Owners = {i \in DOMAIN rows : members[1][rows[i]] = "owner"}
      /\ Runtime = (IF tenants = <<>> THEN 0 ELSE 1)
  BY <1>1, OwnersAre, RuntimeIs DEF Sane
<1>3. Known \subseteq Users
  BY DEF Known, ToSet, Inv, TypeOK
<1>4. \A u \in Known : members[1][u] = "owner" => owned
  BY <1>2 DEF Known, ToSet, Inv, OwnedFits
<1>. QED
  BY <1>1, <1>2, <1>3, <1>4, UsersAssumption DEF Inv, TypeOK, Handlers

LEMMA RunsInv ==
  ASSUME Inv, UNCHANGED <<database, owned, excuses>>, codes' \subseteq Users, PoolInv',
         run' \in [Runs -> RunRecord], \A r \in Runs : Relies(run'[r])
  PROVE  Inv'
<1>1. UNCHANGED <<tenants, rows, home, members, blocked, owned, excuses>>
  BY DEF database
<1>2. TypeOK' /\ PoolFits' /\ TokenKept'
  BY <1>1 DEF Inv, TypeOK, PoolInv, TokenKept
<1>3. WithToken' = WithToken /\ WithSlug("default")' = WithSlug("default")
  BY <1>1 DEF WithToken, WithSlug
<1>4. Runtime' = Runtime
  BY <1>1 DEF Runtime, One, WithToken, WithSlug
<1>5. Owners' = Owners /\ Mains' = Mains /\ Known' = Known
  <2>1. \A u : IsOwner(u)' = IsOwner(u)
    BY <1>1, <1>4 DEF IsOwner, Role, RoleIn
  <2>2. Owners' = Owners
    BY <1>1, <2>1 DEF Owners
  <2>. QED
    BY <1>1, <2>2 DEF Mains, IsMain, Known, ToSet
<1>6. OwnedFits' /\ ConfiguredFits'
  BY <1>1, <1>5 DEF Inv, OwnedFits, OwnerRemains, ConfiguredFits, Elsewhere
<1>7. Handlers'
  BY <1>1, <1>5 DEF Handlers, Relies, Quiet
<1>. QED
  BY <1>2, <1>6, <1>7 DEF Inv

\* One handler run goes on as L.
LEMMA RunInv ==
  ASSUME Inv, NEW r \in Runs, NEW L \in RunRecord, Set(r, L), Relies(L),
         UNCHANGED <<database, owned, excuses>>, codes' \subseteq Users, PoolInv'
  PROVE  Inv'
<1>1. run' \in [Runs -> RunRecord] /\ run'[r] = L /\ \A s \in Runs \ {r} : run'[s] = run[s]
  BY DEF Set, Inv, TypeOK
<1>2. \A s \in Runs : Relies(run'[s])
  BY <1>1, Facts
<1>. QED
  BY <1>1, <1>2, RunsInv

LEMMA NoRunFacts == NoRun \in RunRecord /\ Relies(NoRun) /\ NoRun.pc = "idle" /\ NoRun.cmd = "start"
BY UsersAssumption DEF NoRun, RunRecord, Relies, Roles

LEMMA PoolUnchanged == ASSUME Inv, UNCHANGED pool PROVE PoolInv'
BY PoolSameInv DEF pool, Inv, TypeOK, PoolInv

LEMMA CodesUnchanged == ASSUME Inv, UNCHANGED codes PROVE codes' \subseteq Users
BY DEF Inv, TypeOK

\* The same for a step on nothing but the run.
LEMMA GoInv ==
  ASSUME Inv, NEW r \in Runs, NEW L \in RunRecord, Set(r, L), Relies(L),
         UNCHANGED <<database, codes, owned, excuses, pool>>
  PROVE  Inv'
BY RunInv, PoolUnchanged, CodesUnchanged

LEMMA EndInv ==
  ASSUME Inv, NEW r \in Runs, End(r), UNCHANGED <<database, codes, owned, excuses, pool>>
  PROVE  Inv'
BY GoInv, NoRunFacts DEF End

LEMMA ArriveInv == ASSUME Inv, NEW r \in Runs, Arrive(r) PROVE Inv'
<1>1. PICK u \in Users, v \in Users, cmd \in {"start", "touch", "broadcast"} \cup OnUser \cup OnShop :
        /\ Set(r, [NoRun EXCEPT !.pc = "check", !.user = u, !.cmd = cmd, !.target = v,
                     !.barred = Barred(u) /\ ~IsOwner(u) /\ u # OwnerId])
        /\ UNCHANGED <<database, codes, owned, excuses, pool>>
  BY DEF Arrive
<1>. DEFINE b == Barred(u) /\ ~IsOwner(u) /\ u # OwnerId
            L == [NoRun EXCEPT !.pc = "check", !.user = u, !.cmd = cmd, !.target = v, !.barred = b]
<1>2. b \in BOOLEAN
  BY Zenon
<1>3. b => u # OwnerId /\ tenants # <<>> /\ u \in blocked[1]
  BY Facts DEF Barred
<1>. HIDE DEF b
<1>4. /\ L \in RunRecord /\ L.pc = "check" /\ L.user = u /\ (L.barred <=> b)
  BY <1>2, NoRunFacts DEF NoRun, RunRecord, Broadcasts
<1>5. Set(r, L)
  BY <1>1 DEF b
<1>. HIDE DEF L
<1>6. Relies(L)
  BY <1>3, <1>4 DEF Relies
<1>. QED
  BY <1>1, <1>4, <1>5, <1>6, GoInv

LEMMA RunFacts ==
  ASSUME Inv, NEW r \in Runs
  PROVE  /\ run[r] \in RunRecord /\ Relies(run[r])
         /\ run[r].user \in Users /\ run[r].target \in Users
BY DEF Inv, TypeOK, Handlers, RunRecord

\* Whom the middleware lets through is not barred.
LEMMA CheckInv == ASSUME Inv, NEW r \in Runs, Check(r) PROVE Inv'
<1>. DEFINE u == run[r].user
<1>1. run[r].pc = "check" /\ UNCHANGED <<database, codes, owned, excuses, pool>>
  BY DEF Check, At, Stays
<1>2. ASSUME NEW held \in BOOLEAN, Passes(r, held), run[r].barred => IsOwner(u)
      PROVE  Inv'
  <2>. DEFINE b == run[r].barred /\ ~IsOwner(u)
              L == [run[r] EXCEPT !.pc = "handle", !.held = held, !.barred = b]
  <2>1. ~b
    BY <1>2
  <2>2. b \in BOOLEAN
    BY Zenon
  <2>. HIDE DEF b
  <2>3. L \in RunRecord /\ L.pc = "handle" /\ ~L.barred
    BY <2>1, <2>2, RunFacts DEF RunRecord
  <2>4. Set(r, L)
    BY <1>2 DEF Passes, b
  <2>. HIDE DEF L
  <2>5. Relies(L)
    BY <2>3 DEF Relies
  <2>. QED
    BY <1>1, <2>3, <2>4, <2>5, GoInv
<1>3. run[r].barred => u # OwnerId /\ Barred(u)
  BY RunFacts, Facts DEF Relies, Barred
<1>4. CASE u = OwnerId
  BY <1>2, <1>3, <1>4 DEF Check
<1>5. CASE u # OwnerId /\ IsOwner(u)
  BY <1>2, <1>5 DEF Check
<1>6. CASE u # OwnerId /\ ~IsOwner(u) /\ Barred(u)
  BY <1>1, <1>6, EndInv DEF Check
<1>7. CASE u # OwnerId /\ ~IsOwner(u) /\ ~Barred(u)
  BY <1>2, <1>3, <1>7 DEF Check
<1>. QED
  BY <1>4, <1>5, <1>6, <1>7

\* Commands on users are those of an owner, so the shop has had one.
LEMMA AuthorizeInv == ASSUME Inv, NEW r \in Runs, Authorize(r) PROVE Inv'
<1>. DEFINE cmd == run[r].cmd
            To(pc) == [run[r] EXCEPT !.pc = pc, !.tx = TRUE]
<1>1. /\ run[r].pc = "handle" /\ ~run[r].barred
      /\ UNCHANGED <<database, codes, owned, excuses, pool>>
  BY RunFacts DEF Authorize, At, Stays, Relies
<1>2. ASSUME NEW pc \in {"primary", "own", "load"}, Set(r, To(pc)),
             cmd \in OnUser => IsOwner(run[r].user),
             pc = "load" => cmd \notin {"start", "remove_owner"}
      PROVE  Inv'
  <2>1. /\ To(pc) \in RunRecord /\ To(pc).pc = pc /\ To(pc).tx = TRUE /\ To(pc).cmd = cmd
        /\ ~To(pc).barred
    BY <1>1, RunFacts DEF RunRecord
  <2>2. cmd \in OnUser => owned
    <3>1. IsOwner(run[r].user) => members[1][run[r].user] = "owner" /\ tenants # <<>>
      BY RunFacts, Facts DEF IsOwner, Role, RoleIn
    <3>2. members[1][run[r].user] = "owner" /\ tenants # <<>> => run[r].user \in Known
      BY RunFacts DEF Inv, TypeOK, Ids, Known
    <3>. QED
      BY <1>2, <3>1, <3>2, Facts
  <2>3. Relies(To(pc))
    BY <1>2, <2>1, <2>2 DEF Relies
  <2>. HIDE DEF To
  <2>. QED
    BY <1>1, <1>2, <2>1, <2>3, GoInv
<1>3. CASE cmd \in OnUser \cup OnShop /\ ~IsOwner(run[r].user)
  <2>1. End(r)
    BY <1>3 DEF Authorize
  <2>. QED
    BY <1>1, <2>1, EndInv
<1>4. CASE ~(cmd \in OnUser \cup OnShop /\ ~IsOwner(run[r].user))
  <2>1. \/ Set(r, To("primary"))
        \/ Set(r, To("own"))
        \/ Set(r, To("load")) /\ cmd \notin {"start", "remove_owner"}
    BY <1>4 DEF Authorize
  <2>. HIDE DEF To
  <2>. QED
    BY <1>2, <1>4, <2>1
<1>. QED
  BY <1>3, <1>4

LEMMA ReadPrimaryForStartInv ==
  ASSUME Inv, NEW r \in Runs, ReadPrimaryForStart(r)
  PROVE  Inv'
<1>. DEFINE none == (Owners = {})
            L == [run[r] EXCEPT !.pc = "load", !.noOwner = none]
<1>1. /\ run[r].pc = "primary" /\ run[r].cmd = "start" /\ Set(r, L)
      /\ UNCHANGED <<database, codes, owned, excuses, pool>>
  BY DEF ReadPrimaryForStart, At, Stays
<1>2. none \in BOOLEAN
  BY Zenon
<1>3. none \/ owned
  BY DEF Inv, OwnedFits
<1>. HIDE DEF none
<1>4. /\ L \in RunRecord /\ L.pc = "load" /\ L.cmd = "start" /\ L.tx = run[r].tx
      /\ L.barred = run[r].barred /\ L.noOwner = none
  BY <1>1, <1>2, RunFacts DEF RunRecord
<1>. HIDE DEF L
<1>5. Relies(L)
  BY <1>1, <1>3, <1>4, RunFacts DEF Relies, OnUser
<1>. QED
  BY <1>1, <1>4, <1>5, GoInv

LEMMA ReadPrimaryInv == ASSUME Inv, NEW r \in Runs, ReadPrimary(r) PROVE Inv'
<1>. DEFINE L == [run[r] EXCEPT !.pc = "load"]
<1>1. /\ run[r].pc = "primary" /\ run[r].cmd = "remove_owner"
      /\ UNCHANGED <<database, codes, owned, excuses, pool>>
  BY DEF ReadPrimary, At, Stays
<1>2. CASE IsMain(run[r].target)
  BY <1>1, <1>2, EndInv DEF ReadPrimary
<1>3. CASE ~IsMain(run[r].target)
  <2>1. Set(r, L)
    BY <1>3 DEF ReadPrimary
  <2>2. /\ L \in RunRecord /\ L.pc = "load" /\ L.cmd = "remove_owner" /\ L.tx = run[r].tx
        /\ L.barred = run[r].barred /\ L.target = run[r].target
    BY <1>1, RunFacts DEF RunRecord
  <2>. HIDE DEF L
  <2>3. L.target \notin Mains
    BY <1>3, <2>2 DEF Mains
  <2>4. Relies(L)
    BY <1>1, <2>2, <2>3, RunFacts DEF Relies
  <2>. QED
    BY <1>1, <2>1, <2>2, <2>4, GoInv
<1>. QED
  BY <1>2, <1>3

LEMMA RoleFacts ==
  ASSUME Inv, NEW u \in Users
  PROVE  RoleIn(Default, u) \in Roles /\ Role(u) \in Roles /\ Exists(u) \in BOOLEAN /\ Barred(u) \in BOOLEAN
<1>1. Default \in {0} \cup Ids
  <2>1. TenantList(tenants)
    BY Facts DEF Sane
  <2>2. Len(tenants) \in {0, 1, 2} /\ DOMAIN tenants = 1..Len(tenants)
    BY <2>1, TenantFacts
  <2>3. Default \in {0} \cup DOMAIN tenants
    BY <2>1, DefaultIs
  <2>. QED
    BY <2>2, <2>3 DEF Ids
<1>2. RoleIn(Default, u) \in Roles
  BY <1>1 DEF RoleIn, Roles, Inv, TypeOK
<1>3. Exists(u) \in BOOLEAN /\ Barred(u) \in BOOLEAN
  BY DEF Exists, Barred
<1>. QED
  BY <1>2, <1>3, Facts

LEMMA LoadUserInv == ASSUME Inv, NEW r \in Runs, LoadUser(r) PROVE Inv'
<1>. DEFINE u == run[r].user
            there == Exists(u)
            role == RoleIn(Default, u)
            L == [run[r] EXCEPT !.pc = "write", !.exists = there, !.role = role]
<1>1. /\ run[r].pc = "load" /\ run[r].cmd \in {"start", "touch"}
      /\ UNCHANGED <<database, codes, owned, excuses, pool>>
      /\ End(r) \/ Set(r, L)
  BY DEF LoadUser, At, Stays
<1>2. there \in BOOLEAN /\ role \in Roles
  BY RunFacts, RoleFacts
<1>. HIDE DEF there, role
<1>3. /\ L \in RunRecord /\ L.pc = "write" /\ L.cmd = run[r].cmd /\ L.tx = run[r].tx
      /\ L.barred = run[r].barred /\ L.noOwner = run[r].noOwner
  BY <1>2, RunFacts DEF RunRecord
<1>. HIDE DEF L
<1>4. Relies(L)
  BY <1>1, <1>3, RunFacts DEF Relies, OnUser
<1>. QED
  BY <1>1, <1>3, <1>4, GoInv, EndInv

LEMMA LoadTargetInv ==
  ASSUME Inv, NEW r \in Runs, NEW cmd \in OnUser, NEW allowed, LoadTarget(r, cmd, allowed)
  PROVE  Inv'
<1>. DEFINE v == run[r].target
            role == Role(v)
            flag == Barred(v)
            L == [run[r] EXCEPT !.pc = "write", !.role = role, !.flag = flag]
<1>1. /\ run[r].pc = "load" /\ run[r].cmd = cmd
      /\ UNCHANGED <<database, codes, owned, excuses, pool>>
      /\ End(r) \/ (Exists(v) /\ Set(r, L))
  BY DEF LoadTarget, At, Stays
<1>2. role \in Roles /\ flag \in BOOLEAN
  BY RunFacts, RoleFacts
<1>. HIDE DEF role, flag
<1>3. /\ L \in RunRecord /\ L.pc = "write" /\ L.cmd = cmd /\ L.tx = run[r].tx
      /\ L.barred = run[r].barred /\ L.target = v
  BY <1>1, <1>2, RunFacts DEF RunRecord
<1>. HIDE DEF L
<1>4. ASSUME Exists(v) PROVE Relies(L)
  BY <1>1, <1>3, <1>4, RunFacts DEF Relies, OnUser, Exists, Known
<1>. QED
  BY <1>1, <1>3, <1>4, GoInv, EndInv

LEMMA LoadInv == ASSUME Inv, NEW r \in Runs, Load(r) PROVE Inv'
<1>1. /\ "staff" \in OnUser /\ "set_seller" \in OnUser /\ "unstaff" \in OnUser
      /\ "add_owner" \in OnUser /\ "remove_owner" \in OnUser /\ "block" \in OnUser
      /\ "unblock" \in OnUser /\ "contact_block" \in OnUser /\ "contact_unblock" \in OnUser
  BY DEF OnUser
<1>2. CASE LoadUser(r)
  BY <1>2, LoadUserInv
<1>3. CASE LoadStaff(r) \/ LoadSeller(r) \/ LoadUnstaff(r) \/ LoadNewOwner(r)
  BY <1>1, <1>3, LoadTargetInv DEF LoadStaff, LoadSeller, LoadUnstaff, LoadNewOwner
<1>4. CASE LoadOwner(r) \/ LoadBlock(r) \/ LoadUnblock(r)
  BY <1>1, <1>4, LoadTargetInv DEF LoadOwner, LoadBlock, LoadUnblock
<1>5. CASE LoadContactBlock(r) \/ LoadContactUnblock(r)
  BY <1>1, <1>5, LoadTargetInv DEF LoadContactBlock, LoadContactUnblock
<1>. QED
  BY <1>2, <1>3, <1>4, <1>5 DEF Load

\* The codes of a reset, and the runs that wait for one or for a broadcast.
LEMMA ResetInv == ASSUME Inv, NEW r \in Runs, RequestReset(r) \/ ConfirmReset(r) PROVE Inv'
<1>1. UNCHANGED <<database, owned, excuses, pool>> /\ run[r].pc = "own"
  BY DEF RequestReset, ConfirmReset, At
<1>2. codes' \subseteq Users
  BY RunFacts DEF RequestReset, ConfirmReset, Inv, TypeOK
<1>. DEFINE L == [run[r] EXCEPT !.pc = "truncate", !.tx = FALSE]
<1>3. End(r) \/ Set(r, L)
  BY DEF RequestReset, ConfirmReset
<1>4. L \in RunRecord /\ L.pc = "truncate" /\ L.barred = run[r].barred
  BY RunFacts DEF RunRecord
<1>. HIDE DEF L
<1>5. Relies(L)
  BY <1>1, <1>4, RunFacts DEF Relies
<1>6. PoolInv'
  BY <1>1, PoolUnchanged
<1>. QED
  BY <1>1, <1>2, <1>3, <1>4, <1>5, <1>6, RunInv, NoRunFacts DEF End

LEMMA BroadcastInv ==
  ASSUME Inv, NEW r \in Runs, StartPromo(r) \/ StartPost(r) \/ ReportBroadcast(r)
  PROVE  Inv'
<1>1. /\ UNCHANGED <<database, codes, owned, excuses>> /\ run[r].pc \in {"own", "join"}
  BY DEF StartPromo, StartPost, StartBroadcast, ReportBroadcast, At
<1>. DEFINE L == [run[r] EXCEPT !.pc = "join"]
<1>2. End(r) \/ Set(r, L)
  BY DEF StartPromo, StartPost, StartBroadcast, ReportBroadcast
<1>3. L \in RunRecord /\ L.pc = "join" /\ L.barred = run[r].barred
  BY RunFacts DEF RunRecord
<1>. HIDE DEF L
<1>4. Relies(L)
  BY <1>1, <1>3, RunFacts DEF Relies
<1>5. PoolInv'
  <2>1. ASSUME NEW cmd, NEW to \in SUBSET Users, StartBroadcast(r, cmd, to) PROVE PoolInv'
    BY <2>1, PoolStartInv, PoolUnchanged, Facts DEF StartBroadcast
  <2>2. Recipients(run[r].user) \in SUBSET Users /\ Readers(run[r].user) \in SUBSET Users
    BY Facts DEF Recipients, Readers, Known
  <2>3. CASE ReportBroadcast(r)
    BY <2>3, PoolSameInv, Facts DEF ReportBroadcast, Report
  <2>. QED
    BY <2>1, <2>2, <2>3 DEF StartPromo, StartPost
<1>. QED
  BY <1>1, <1>2, <1>3, <1>4, <1>5, RunInv, CodesUnchanged, NoRunFacts DEF End

LEMMA IdleInv == ASSUME Inv, CodeExpires \/ Deliver PROVE Inv'
<1>1. UNCHANGED <<database, run, owned, excuses>> /\ codes' \subseteq Users
  BY DEF CodeExpires, Deliver, Inv, TypeOK
<1>2. PoolInv'
  BY PoolStepInv, PoolUnchanged, Facts DEF CodeExpires, Deliver
<1>. QED
  BY <1>1, <1>2, Facts, RunsInv

-----------------------------------------------------------------------------
(***************************************************************************)
(* Steps that change the database.                                         *)
(***************************************************************************)

\* What the memberships of the first tenant say of the shop.
Reads ==
  /\ \A u \in Users : (IsOwner(u) <=> members[1][u] = "owner")
  /\ \A u \in Users : Role(u) \in Roles /\ (tenants # <<>> => Role(u) = members[1][u])
  /\ Owners = {i \in DOMAIN rows : members[1][rows[i]] = "owner"}
  /\ Runtime = (IF tenants = <<>> THEN 0 ELSE 1)

LEMMA ReadsNow == TypeOK /\ TokenKept => Reads
<1>. SUFFICES ASSUME TypeOK, TokenKept PROVE Reads
  OBVIOUS
<1>. QED
  BY Sanity, OwnersAre, RuntimeIs DEF Sane, Reads

LEMMA ReadsThen == ASSUME TypeOK', TokenKept' PROVE Reads'
BY ReadsNow, PTL

\* Users only come, at the end of the rows.
RowsGrow == rows' = rows \/ \E u \in Users \ Known : rows' = Append(rows, u)

LEMMA RowsFacts ==
  ASSUME Inv, RowsGrow
  PROVE  /\ DOMAIN rows \subseteq DOMAIN rows' /\ \A i \in DOMAIN rows : rows'[i] = rows[i]
         /\ \A i \in DOMAIN rows' \ DOMAIN rows : rows'[i] \in Users \ Known
         /\ Known \subseteq Known'
<1>1. rows \in Seq(Users)
  BY DEF Inv, TypeOK
<1>2. /\ DOMAIN rows \subseteq DOMAIN rows' /\ \A i \in DOMAIN rows : rows'[i] = rows[i]
      /\ \A i \in DOMAIN rows' \ DOMAIN rows : rows'[i] \in Users \ Known
  <2>1. ASSUME NEW u \in Users \ Known, rows' = Append(rows, u)
        PROVE  /\ DOMAIN rows' = DOMAIN rows \cup {Len(rows) + 1}
               /\ rows'[Len(rows) + 1] = u /\ \A i \in DOMAIN rows : rows'[i] = rows[i]
    BY <1>1, <2>1
  <2>. QED
    BY <2>1 DEF RowsGrow
<1>. QED
  BY <1>2 DEF Known, ToSet

LEMMA KnownHave ==
  ASSUME Inv
  PROVE  /\ \A u \in Users : members[1][u] # "none" => u \in Known /\ tenants # <<>>
         /\ \A u \in Users : members[1][u] = "owner" => owned
         /\ (Owners # {}) <=> (\E u \in Users : members[1][u] = "owner")
<1>1. \A u \in Users : members[1][u] # "none" => u \in Known /\ tenants # <<>>
  BY DEF Inv, TypeOK, Known, Ids
<1>2. \A u \in Users : members[1][u] = "owner" => owned
  BY <1>1, Facts
<1>3. ASSUME NEW u \in Users, members[1][u] = "owner" PROVE Owners # {}
  BY <1>1, <1>3, Facts DEF Known, ToSet
<1>4. ASSUME NEW i \in Owners PROVE \E u \in Users : members[1][u] = "owner"
  BY Facts DEF Inv, TypeOK
<1>. QED
  BY <1>1, <1>2, <1>3, <1>4

\* The owners are the same, and so is the main one.
LEMMA SameOwners ==
  ASSUME Inv, TypeOK', TokenKept', RowsGrow,
         \A u \in Users : (members'[1][u] = "owner") <=> (members[1][u] = "owner")
  PROVE  Owners' = Owners /\ Mains' = Mains
<1>1. Owners' = {i \in DOMAIN rows' : members'[1][rows'[i]] = "owner"}
  BY ReadsThen DEF Reads
<1>2. Owners = {i \in DOMAIN rows : members[1][rows[i]] = "owner"}
  BY Facts
<1>3. \A i \in DOMAIN rows : rows[i] \in Users
  BY DEF Inv, TypeOK
<1>4. Owners' = Owners
  BY <1>1, <1>2, <1>3, RowsFacts, KnownHave
<1>5. \A i \in Owners : rows'[i] = rows[i]
  BY <1>2, RowsFacts
<1>. QED
  BY <1>4, <1>5 DEF Mains, IsMain

\* The invariant after a step that adds users or changes memberships.
Ended == \A s \in Runs : run'[s] = NoRun \/ run'[s] = run[s]
Spared ==
  \A s \in Runs : run[s].pc \in {"load", "write"} /\ run[s].cmd = "remove_owner" /\ run'[s] = run[s]
                  => run[s].target \notin Mains'

LEMMA ShopInv ==
  ASSUME Inv, TypeOK', TokenKept', PoolFits', ConfiguredFits', tenants' # <<>>, RowsGrow, Ended,
         owned' <=> (owned \/ \E u \in Users : members'[1][u] = "owner"),
         excuses \subseteq excuses', blocked' = blocked,
         Quiet' /\ owned => Owners' # {}, Quiet' => Spared
  PROVE  Inv'
<1>1. Quiet' => Quiet
  BY DEF Quiet
<1>2. \A u \in Users : members'[1][u] = "owner" => \E i \in DOMAIN rows' : rows'[i] = u
  <2>1. \A u \in Users : members'[1][u] # "none" => u \in ToSet(rows')
    BY DEF TypeOK, Ids
  <2>. QED
    BY <2>1 DEF ToSet
<1>3. Owners' = {i \in DOMAIN rows' : members'[1][rows'[i]] = "owner"}
  BY ReadsThen DEF Reads
<1>4. \A i \in DOMAIN rows' : rows'[i] \in Users
  BY DEF TypeOK
<1>5. OwnedFits'
  BY <1>2, <1>3, <1>4 DEF OwnedFits, OwnerRemains, Quiet
<1>6. \A s \in Runs : Relies(run[s])'
  <2>. SUFFICES ASSUME NEW s \in Runs PROVE Relies(run[s])'
    OBVIOUS
  <2>1. CASE run'[s] = NoRun
    BY <2>1 DEF Relies, NoRun
  <2>2. CASE run'[s] = run[s]
    BY <1>1, <2>2, RunFacts, RowsFacts DEF Relies, Spared
  <2>. QED
    BY <2>1, <2>2 DEF Ended
<1>. QED
  BY <1>5, <1>6 DEF Inv, Handlers

\* The same where no owner comes or goes.
LEMMA NoOwnerInv ==
  ASSUME Inv, TypeOK', TokenKept', PoolFits', ConfiguredFits', tenants' # <<>>, RowsGrow, Ended,
         owned' <=> (owned \/ \E u \in Users : members'[1][u] = "owner"),
         excuses \subseteq excuses', blocked' = blocked,
         \A u \in Users : (members'[1][u] = "owner") <=> (members[1][u] = "owner")
  PROVE  Inv'
<1>1. Owners' = Owners /\ Mains' = Mains
  BY SameOwners
<1>2. Quiet' => Quiet
  BY DEF Quiet
<1>3. Quiet' /\ owned => Owners' # {}
  BY <1>1, <1>2 DEF Inv, OwnedFits, OwnerRemains, Quiet
<1>4. Quiet' => Spared
  BY <1>1, <1>2, RunFacts DEF Relies, Spared
<1>. QED
  BY <1>3, <1>4, ShopInv

LEMMA NoteOwned ==
  ASSUME TypeOK', TokenKept', tenants' # <<>>, NEW events, Note(events)
  PROVE  /\ owned' <=> (owned \/ \E u \in Users : members'[1][u] = "owner")
         /\ excuses' = excuses \cup events /\ excuses \subseteq excuses'
<1>1. Runtime' = 1 /\ Runtime' # 0
  BY ReadsThen DEF Reads
<1>2. owned' = (owned \/ \E u \in Users : Runtime' # 0 /\ members'[Runtime'][u] = "owner")
  BY DEF Note
<1>3. owned' <=> (owned \/ \E u \in Users : members'[1][u] = "owner")
  BY <1>1, <1>2, Zenon
<1>. QED
  BY <1>3 DEF Note

\* A user who is given a row, in tenant i if he has none.
Settles(u, i) ==
  IF Exists(u) THEN UNCHANGED <<rows, home>>
  ELSE rows' = Append(rows, u) /\ home' = [home EXCEPT ![u] = i]

LEMMA SettlesInv ==
  ASSUME Inv, NEW u \in Users, NEW i \in Ids, Settles(u, i),
         DOMAIN tenants \subseteq DOMAIN tenants', i \in DOMAIN tenants'
  PROVE  /\ rows' \in Seq(Users) /\ IsInjective(rows') /\ home' \in [Users -> 0..2]
         /\ \A w \in ToSet(rows') : home'[w] \in DOMAIN tenants'
         /\ RowsGrow /\ u \in ToSet(rows') /\ ToSet(rows) \subseteq ToSet(rows')
<1>1. /\ rows \in Seq(Users) /\ IsInjective(rows) /\ home \in [Users -> 0..2]
      /\ \A w \in ToSet(rows) : home[w] \in DOMAIN tenants
  BY DEF Inv, TypeOK
<1>2. CASE Exists(u)
  BY <1>1, <1>2 DEF Settles, Exists, RowsGrow
<1>3. CASE ~Exists(u)
  <2>1. /\ rows' = Append(rows, u) /\ home' = [home EXCEPT ![u] = i]
        /\ \A k \in DOMAIN rows : rows[k] # u
    BY <1>3 DEF Settles, Exists, ToSet
  <2>2. /\ rows' \in Seq(Users) /\ DOMAIN rows' = DOMAIN rows \cup {Len(rows) + 1}
        /\ rows'[Len(rows) + 1] = u /\ \A k \in DOMAIN rows : rows'[k] = rows[k]
    BY <1>1, <2>1
  <2>3. IsInjective(rows')
    BY <1>1, <2>1, <2>2 DEF IsInjective
  <2>4. ToSet(rows') = ToSet(rows) \cup {u}
    BY <2>2 DEF ToSet
  <2>5. i \in 0..2
    BY DEF Ids
  <2>6. home' \in [Users -> 0..2] /\ home'[u] = i /\ \A w \in Users \ {u} : home'[w] = home[w]
    BY <1>1, <2>1, <2>5
  <2>7. ToSet(rows) \subseteq Users
    BY <1>1 DEF ToSet
  <2>8. RowsGrow
    BY <1>3, <2>1 DEF RowsGrow, Exists, Known
  <2>. QED
    BY <1>1, <2>2, <2>3, <2>4, <2>6, <2>7, <2>8
<1>. QED
  BY <1>2, <1>3

\* A list of tenants that is one.
LEMMA ListTyped ==
  ASSUME TenantList(tenants')
  PROVE  /\ tenants' \in Seq(TenantRow) /\ TokenKept' /\ Len(tenants') <= 2
         /\ \A i, j \in DOMAIN tenants' :
              i # j => tenants'[i].slug # tenants'[j].slug /\ ~(tenants'[i].bot /\ tenants'[j].bot)
BY DEF TenantList, TokenKept

\* A tenant list that grows, a user who is given a row, and one membership of his.
LEMMA MembershipInv ==
  ASSUME Inv, TenantList(tenants'), DOMAIN tenants \subseteq DOMAIN tenants',
         NEW u \in Users, NEW i \in Ids, i \in DOMAIN tenants', Settles(u, i),
         NEW role \in Roles, members' = [members EXCEPT ![i][u] = role],
         run' \in [Runs -> RunRecord], UNCHANGED <<blocked, codes, pool>>
  PROVE  /\ TypeOK' /\ TokenKept' /\ PoolFits' /\ RowsGrow /\ tenants' # <<>>
         /\ \A w \in Users : members'[1][w] = IF i = 1 /\ w = u THEN role ELSE members[1][w]
<1>1. PoolTypeOK(Users)' /\ PoolFits'
  BY PoolUnchanged DEF PoolInv
<1>2. /\ members \in [Ids -> [Users -> Roles]]
      /\ \A k \in Ids, w \in Users : members[k][w] # "none" => k \in DOMAIN tenants /\ w \in ToSet(rows)
  BY DEF Inv, TypeOK
<1>3. /\ members' \in [Ids -> [Users -> Roles]]
      /\ \A k \in Ids, w \in Users : members'[k][w] = IF k = i /\ w = u THEN role ELSE members[k][w]
  BY <1>2
<1>4. blocked' \in [Ids -> SUBSET Users] /\ codes' \subseteq Users
  BY DEF Inv, TypeOK
<1>5. TypeOK'
  BY <1>1, <1>2, <1>3, <1>4, SettlesInv, ListTyped DEF TypeOK
<1>6. tenants' # <<>>
  OBVIOUS
<1>. QED
  BY <1>1, <1>3, <1>5, <1>6, SettlesInv, ListTyped DEF Ids

LEMMA EndsRun ==
  ASSUME Inv, NEW r \in Runs, End(r)
  PROVE  run' \in [Runs -> RunRecord] /\ Ended /\ run'[r] = NoRun
BY NoRunFacts DEF Inv, TypeOK, End, Set, Ended

LEMMA RegisterInv ==
  ASSUME Inv, NEW r \in Runs, End(r), NEW u \in Users, NEW role \in {"client", "owner"},
         tenants' = EnsureDefault, Register(u, DefaultId, role), UNCHANGED <<blocked, codes, pool>>
  PROVE  /\ TypeOK' /\ TokenKept' /\ PoolFits' /\ RowsGrow /\ tenants' # <<>> /\ Ended
         /\ \A w \in Users : members'[1][w] = IF DefaultId = 1 /\ w = u /\ members[1][u] = "none"
                                              THEN role ELSE members[1][w]
         /\ DefaultId = 1 \/ Elsewhere'
         /\ Elsewhere => Elsewhere'
<1>. DEFINE i == DefaultId
            new == IF members[i][u] = "none" THEN role ELSE members[i][u]
<1>1. /\ TenantList(tenants') /\ i \in DOMAIN tenants' /\ i \in Ids
      /\ DOMAIN tenants \subseteq DOMAIN tenants' /\ tenants'[i].slug = "default"
      /\ \A k \in DOMAIN tenants : tenants'[k].slug = tenants[k].slug
  BY Facts, EnsureDefaultFacts DEF Sane
<1>. HIDE DEF i
<1>2. members \in [Ids -> [Users -> Roles]]
  BY DEF Inv, TypeOK
<1>3. members' = [members EXCEPT ![i][u] = new] /\ new \in Roles
  BY <1>1, <1>2 DEF Register, Roles, i
<1>4. Settles(u, i)
  BY DEF Register, Settles, i
<1>5. i = 1 => new = IF members[1][u] = "none" THEN role ELSE members[1][u]
  OBVIOUS
<1>. HIDE DEF new
<1>6. /\ TypeOK' /\ TokenKept' /\ PoolFits' /\ RowsGrow /\ tenants' # <<>>
      /\ \A w \in Users : members'[1][w] = IF i = 1 /\ w = u THEN new ELSE members[1][w]
  BY <1>1, <1>3, <1>4, EndsRun, MembershipInv, ZenonT(60)
<1>7. Len(tenants') \in {0, 1, 2} /\ DOMAIN tenants' = 1..Len(tenants')
  <2>1. PICK n \in Nat : n = Len(tenants') /\ n <= 2 /\ DOMAIN tenants' = 1..n
    BY <1>1 DEF TenantList
  <2>. QED
    BY <2>1
<1>8. i = 1 \/ Elsewhere'
  BY <1>1, <1>7 DEF Elsewhere, Ids, TenantList
<1>9. Elsewhere => Elsewhere'
  <2>. SUFFICES ASSUME Elsewhere PROVE Elsewhere'
    OBVIOUS
  <2>1. 1 \in DOMAIN tenants /\ 2 \in DOMAIN tenants
    BY Facts, TenantFacts DEF Elsewhere, Sane
  <2>. QED
    BY <1>1, <1>7, <2>1 DEF Elsewhere
<1>. QED
  BY <1>5, <1>6, <1>8, <1>9, EndsRun DEF i

\* /start: the configured owner becomes the owner of a shop that has none, and
\* anybody else a customer.
LEMMA CommitStartInv == ASSUME Inv, NEW r \in Runs, CommitStart(r) PROVE Inv'
<1>. DEFINE u == run[r].user
            events == (IF u = OwnerId /\ ~owned THEN {"started"} ELSE {})
                      \cup (IF StartRole(r) = "owner" THEN Crosses ELSE {})
<1>1. /\ run[r].pc = "write" /\ run[r].cmd = "start" /\ End(r) /\ UNCHANGED <<codes, pool>>
      /\ u \in Users /\ (run[r].noOwner \/ owned)
      /\ StartRole(r) \in {"client", "owner"}
  BY RunFacts DEF CommitStart, At, Relies, StartRole
<1>2. CASE UNCHANGED <<database, owned, excuses>>
  BY <1>1, <1>2, EndInv
<1>3. CASE /\ tenants' = EnsureDefault /\ Register(u, DefaultId, StartRole(r))
           /\ UNCHANGED blocked /\ Note(events)
  <2>1. /\ TypeOK' /\ TokenKept' /\ PoolFits' /\ RowsGrow /\ tenants' # <<>> /\ Ended
        /\ \A w \in Users : members'[1][w] = IF DefaultId = 1 /\ w = u /\ members[1][u] = "none"
                                             THEN StartRole(r) ELSE members[1][w]
        /\ DefaultId = 1 \/ Elsewhere'
        /\ Elsewhere => Elsewhere'
    BY <1>1, <1>3, RegisterInv
  <2>2. /\ owned' <=> (owned \/ \E w \in Users : members'[1][w] = "owner")
        /\ excuses' = excuses \cup events /\ excuses \subseteq excuses'
    BY <1>3, <2>1, NoteOwned
  <2>3. ConfiguredFits'
    <3>1. u = OwnerId /\ ~owned => StartRole(r) = "owner"
      BY <1>1 DEF StartRole
    <3>2. "started" \in excuses' => "started" \in excuses \/ (u = OwnerId /\ ~owned)
      BY <2>2 DEF Crosses
    <3>3. ~owned' /\ "touched" \notin excuses' => members'[1][OwnerId] = "none"
      BY <2>1, <2>2, <3>1, Facts DEF Inv, ConfiguredFits
    <3>4. ASSUME "started" \in excuses', excuses' \cap {"touched", "removed", "demoted"} = {}
          PROVE  members'[1][OwnerId] = "owner" \/ Elsewhere'
      <4>1. CASE "started" \in excuses
        <5>1. members[1][OwnerId] = "owner" \/ Elsewhere
          BY <2>2, <3>4, <4>1 DEF Inv, ConfiguredFits
        <5>. QED
          BY <2>1, <5>1, UsersAssumption
      <4>2. CASE u = OwnerId /\ ~owned
        <5>1. members[1][OwnerId] = "none"
          BY <2>2, <3>4, <4>2 DEF Inv, ConfiguredFits
        <5>. QED
          BY <2>1, <3>1, <4>2, <5>1, UsersAssumption
      <4>. QED
        BY <3>2, <3>4, <4>1, <4>2
    <3>. QED
      BY <3>3, <3>4 DEF ConfiguredFits, Elsewhere
  <2>4. CASE StartRole(r) = "client"
    <3>1. \A w \in Users : (members'[1][w] = "owner") <=> (members[1][w] = "owner")
      BY <2>1, <2>4
    <3>. QED
      BY <1>3, <2>1, <2>2, <2>3, <3>1, NoOwnerInv
  <2>5. CASE StartRole(r) = "owner"
    <3>1. \A w \in Users : members[1][w] = "owner" => members'[1][w] = "owner"
      BY <2>1, <2>5
    <3>2. Quiet' /\ owned => Owners' # {}
      <4>. SUFFICES ASSUME Quiet', owned PROVE Owners' # {}
        OBVIOUS
      <4>1. Owners # {}
        BY <2>2 DEF Inv, OwnedFits, OwnerRemains, Quiet
      <4>2. PICK i \in DOMAIN rows : members[1][rows[i]] = "owner" /\ rows[i] \in Users
        BY <4>1, Facts DEF Inv, TypeOK
      <4>3. i \in DOMAIN rows' /\ members'[1][rows'[i]] = "owner"
        BY <2>1, <3>1, <4>2, RowsFacts
      <4>. QED
        BY <2>1, <4>3, ReadsThen DEF Reads
    <3>3. Quiet' => \A s \in Runs : run[s].cmd # "remove_owner"
      BY <2>2, <2>5 DEF Crosses, Quiet
    <3>. QED
      BY <1>3, <2>1, <2>2, <2>3, <3>2, <3>3, ShopInv DEF Spared
  <2>. QED
    BY <1>1, <2>4, <2>5
<1>. QED
  BY <1>2, <1>3 DEF CommitStart

\* A user without a row who presses a button, or writes, becomes a customer.
LEMMA CommitTouchInv == ASSUME Inv, NEW r \in Runs, CommitTouch(r) PROVE Inv'
<1>. DEFINE u == run[r].user
            events == IF u = OwnerId THEN {"touched"} ELSE {}
<1>1. End(r) /\ UNCHANGED <<codes, pool>> /\ u \in Users
  BY RunFacts DEF CommitTouch
<1>2. CASE UNCHANGED <<database, owned, excuses>>
  BY <1>1, <1>2, EndInv
<1>3. CASE /\ tenants' = EnsureDefault /\ Register(u, DefaultId, "client")
           /\ UNCHANGED blocked /\ Note(events)
  <2>1. /\ TypeOK' /\ TokenKept' /\ PoolFits' /\ RowsGrow /\ tenants' # <<>> /\ Ended
        /\ \A w \in Users : members'[1][w] = IF DefaultId = 1 /\ w = u /\ members[1][u] = "none"
                                             THEN "client" ELSE members[1][w]
        /\ Elsewhere => Elsewhere'
    BY <1>1, <1>3, RegisterInv
  <2>2. /\ owned' <=> (owned \/ \E w \in Users : members'[1][w] = "owner")
        /\ excuses' = excuses \cup events /\ excuses \subseteq excuses'
    BY <1>3, <2>1, NoteOwned
  <2>3. ConfiguredFits'
    <3>1. "touched" \notin excuses' => members'[1][OwnerId] = members[1][OwnerId]
      BY <2>1, <2>2, UsersAssumption
    <3>2. "started" \in excuses' => "started" \in excuses
      BY <2>2
    <3>. QED
      BY <2>1, <2>2, <3>1, <3>2 DEF Inv, ConfiguredFits, Elsewhere
  <2>4. \A w \in Users : (members'[1][w] = "owner") <=> (members[1][w] = "owner")
    BY <2>1
  <2>. QED
    BY <1>3, <2>1, <2>2, <2>3, <2>4, NoOwnerInv
<1>. QED
  BY <1>2, <1>3 DEF CommitTouch

\* The commands on roles: a role is written in the tenant with the token.
LEMMA RoleFits ==
  ASSUME Inv, NEW r \in Runs, NEW cmd \in OnUser, NEW role \in Roles, NEW events,
         CommitRole(r, cmd, role, events)
  PROVE  /\ run[r].pc = "write" /\ run[r].cmd = cmd /\ run[r].target \in Known /\ owned
         /\ \/ Inv'
            \/ /\ TypeOK' /\ TokenKept' /\ PoolFits' /\ RowsGrow /\ tenants' # <<>> /\ Ended
               /\ run'[r] = NoRun /\ rows' = rows /\ tenants' = tenants /\ blocked' = blocked
               /\ \A w \in Users : members'[1][w] = IF w = run[r].target THEN role ELSE members[1][w]
               /\ Note(IF run[r].target = OwnerId \/ cmd # "remove_owner" THEN events ELSE {})
<1>. PICK v \in Users : v = run[r].target
  BY RunFacts
<1>. DEFINE conflict == run[r].role = "none" /\ Role(v) # "none"
<1>1. /\ run[r].pc = "write" /\ run[r].cmd = cmd /\ End(r)
      /\ UNCHANGED <<tenants, rows, home, blocked, codes, pool>>
  BY DEF CommitRole, At
<1>2. v \in Known /\ v \in Users /\ owned /\ tenants # <<>> /\ Runtime = 1
  BY <1>1, RunFacts, Facts DEF Relies, Inv, OwnedFits
<1>3. CASE conflict \/ run[r].role = role
  <2>1. UNCHANGED <<members, owned, excuses>>
    BY <1>3 DEF CommitRole
  <2>. QED
    BY <1>1, <1>2, <2>1, EndInv DEF database
<1>4. CASE ~(conflict \/ run[r].role = role)
  <2>1. /\ members' = [members EXCEPT ![1][v] = role]
        /\ Note(IF v = OwnerId \/ cmd # "remove_owner" THEN events ELSE {})
    BY <1>2, <1>4 DEF CommitRole
  <2>2. Settles(v, 1) /\ 1 \in Ids
    BY <1>1, <1>2 DEF Settles, Exists, Known, Ids
  <2>3. /\ TenantList(tenants') /\ 1 \in DOMAIN tenants' /\ DOMAIN tenants \subseteq DOMAIN tenants'
        /\ run' \in [Runs -> RunRecord] /\ UNCHANGED <<blocked, codes, pool>>
    BY <1>1, <1>2, EndsRun, Facts, TenantFacts DEF Sane, TenantList
  <2>4. /\ TypeOK' /\ TokenKept' /\ PoolFits' /\ RowsGrow /\ tenants' # <<>>
        /\ \A w \in Users : members'[1][w] = IF w = v THEN role ELSE members[1][w]
    <3>1. PICK i \in Ids : i = 1
      BY <2>2
    <3>2. members' = [members EXCEPT ![i][v] = role] /\ Settles(v, i) /\ i \in DOMAIN tenants'
      BY <2>1, <2>2, <2>3, <3>1
    <3>3. /\ TypeOK' /\ TokenKept' /\ PoolFits' /\ RowsGrow /\ tenants' # <<>>
          /\ \A w \in Users : members'[1][w] = IF i = 1 /\ w = v THEN role ELSE members[1][w]
      BY <2>3, <3>2, MembershipInv, ZenonT(60)
    <3>. QED
      BY <3>1, <3>3
  <2>. QED
    BY <1>1, <1>2, <2>1, <2>4, EndsRun
<1>. QED
  BY <1>1, <1>2, <1>3, <1>4

\* Who is made staff, or a client, loses the role of an owner if he has it.
LEMMA CommitDemotionInv ==
  ASSUME Inv, NEW r \in Runs, CommitStaff(r) \/ CommitSeller(r) \/ CommitUnstaff(r)
  PROVE  Inv'
<1>. DEFINE v == run[r].target
<1>1. PICK cmd \in {"staff", "set_seller", "unstaff"}, role \in {"staff", "client"} :
        CommitRole(r, cmd, role, Demotes(r))
  BY DEF CommitStaff, CommitSeller, CommitUnstaff
<1>2. SUFFICES ASSUME
        /\ TypeOK' /\ TokenKept' /\ PoolFits' /\ RowsGrow /\ tenants' # <<>> /\ Ended
        /\ run'[r] = NoRun /\ rows' = rows /\ tenants' = tenants /\ blocked' = blocked
        /\ \A w \in Users : members'[1][w] = IF w = v THEN role ELSE members[1][w]
        /\ Note(IF v = OwnerId \/ cmd # "remove_owner" THEN Demotes(r) ELSE {})
        /\ owned
      PROVE Inv'
  <2>1. cmd \in OnUser /\ role \in Roles
    BY DEF OnUser, Roles
  <2>. QED
    BY <1>1, <1>2, <2>1, RoleFits
<1>3. /\ owned' <=> (owned \/ \E w \in Users : members'[1][w] = "owner")
      /\ excuses' = excuses \cup Demotes(r) /\ excuses \subseteq excuses'
  BY <1>2, NoteOwned
<1>4. v \in Users /\ (IsOwner(v) <=> members[1][v] = "owner")
  BY RunFacts, Facts
<1>5. CASE IsOwner(v)
  <2>1. "demoted" \in excuses'
    BY <1>3, <1>5 DEF Demotes
  <2>2. ConfiguredFits'
    BY <1>2, <1>3, <2>1 DEF ConfiguredFits
  <2>3. ~Quiet'
    BY <2>1 DEF Quiet
  <2>. QED
    BY <1>2, <1>3, <2>2, <2>3, ShopInv
<1>6. CASE ~IsOwner(v)
  <2>1. excuses' = excuses
    BY <1>3, <1>6 DEF Demotes
  <2>2. \A w \in Users : (members'[1][w] = "owner") <=> (members[1][w] = "owner")
    BY <1>2, <1>4, <1>6
  <2>3. ConfiguredFits'
    BY <1>2, <1>3, <2>1, <2>2, UsersAssumption DEF Inv, ConfiguredFits, Elsewhere
  <2>. QED
    BY <1>2, <1>3, <2>2, <2>3, NoOwnerInv
<1>. QED
  BY <1>5, <1>6

\* An owner more: no removal that is under way has looked at him.
LEMMA CommitNewOwnerInv == ASSUME Inv, NEW r \in Runs, CommitNewOwner(r) PROVE Inv'
<1>. DEFINE v == run[r].target
<1>1. CommitRole(r, "add_owner", "owner", Crosses)
  BY DEF CommitNewOwner
<1>2. SUFFICES ASSUME
        /\ TypeOK' /\ TokenKept' /\ PoolFits' /\ RowsGrow /\ tenants' # <<>> /\ Ended
        /\ run'[r] = NoRun /\ rows' = rows /\ tenants' = tenants /\ blocked' = blocked
        /\ \A w \in Users : members'[1][w] = IF w = v THEN "owner" ELSE members[1][w]
        /\ Note(IF v = OwnerId \/ "add_owner" # "remove_owner" THEN Crosses ELSE {})
        /\ owned /\ v \in Known
      PROVE Inv'
  <2>1. "add_owner" \in OnUser /\ "owner" \in Roles
    BY DEF OnUser, Roles
  <2>. QED
    BY <1>1, <1>2, <2>1, RoleFits
<1>3. /\ owned' <=> (owned \/ \E w \in Users : members'[1][w] = "owner")
      /\ excuses' = excuses \cup Crosses /\ excuses \subseteq excuses'
  BY <1>2, NoteOwned
<1>4. ConfiguredFits'
  <2>1. "started" \in excuses' => "started" \in excuses
    BY <1>3 DEF Crosses
  <2>2. members[1][OwnerId] = "owner" => members'[1][OwnerId] = "owner"
    BY <1>2, UsersAssumption
  <2>. QED
    BY <1>2, <1>3, <2>1, <2>2 DEF Inv, ConfiguredFits, Elsewhere
<1>5. Owners' # {}
  <2>1. PICK i \in DOMAIN rows' : rows'[i] = v
    BY <1>2 DEF Known, ToSet
  <2>2. members'[1][rows'[i]] = "owner"
    BY <1>2, <2>1, RunFacts
  <2>. QED
    BY <1>2, <2>1, <2>2, ReadsThen DEF Reads
<1>6. Quiet' => \A s \in Runs : run[s].cmd # "remove_owner"
  BY <1>3 DEF Crosses, Quiet
<1>. QED
  BY <1>2, <1>3, <1>4, <1>5, <1>6, ShopInv DEF Spared

\* A removal takes the role of an owner who is not the main one: there is
\* another, and who was not the main owner still is not.
LEMMA CommitRemovalInv == ASSUME Inv, NEW r \in Runs, CommitRemoval(r) PROVE Inv'
<1>. DEFINE v == run[r].target
            events == IF v = OwnerId \/ "remove_owner" # "remove_owner" THEN {"removed"} ELSE {}
<1>1. CommitRole(r, "remove_owner", "client", {"removed"})
  BY DEF CommitRemoval
<1>2. SUFFICES ASSUME
        /\ TypeOK' /\ TokenKept' /\ PoolFits' /\ RowsGrow /\ tenants' # <<>> /\ Ended
        /\ run'[r] = NoRun /\ rows' = rows /\ tenants' = tenants /\ blocked' = blocked
        /\ \A w \in Users : members'[1][w] = IF w = v THEN "client" ELSE members[1][w]
        /\ Note(events)
        /\ owned /\ run[r].pc = "write" /\ run[r].cmd = "remove_owner"
      PROVE Inv'
  <2>1. "remove_owner" \in OnUser /\ "client" \in Roles
    BY DEF OnUser, Roles
  <2>. QED
    BY <1>1, <1>2, <2>1, RoleFits
<1>3. /\ owned' <=> (owned \/ \E w \in Users : members'[1][w] = "owner")
      /\ excuses' = excuses \cup events /\ excuses \subseteq excuses'
  BY <1>2, NoteOwned
<1>4. ConfiguredFits'
  <2>1. "started" \in excuses' => "started" \in excuses
    BY <1>3
  <2>2. v = OwnerId => "removed" \in excuses'
    BY <1>3
  <2>3. v # OwnerId => members'[1][OwnerId] = members[1][OwnerId]
    BY <1>2, UsersAssumption
  <2>. QED
    BY <1>2, <1>3, <2>1, <2>2, <2>3 DEF Inv, ConfiguredFits, Elsewhere
<1>5. SUFFICES ASSUME Quiet' PROVE Owners' # {} /\ Spared
  BY <1>2, <1>3, <1>4, ShopInv
<1>6. Quiet /\ v \notin Mains /\ v \in Users /\ Owners # {}
  <2>1. Quiet
    BY <1>3, <1>5 DEF Quiet
  <2>2. v \notin Mains /\ v \in Users
    BY <1>2, <2>1, RunFacts DEF Relies
  <2>. QED
    BY <1>2, <2>1, <2>2 DEF Quiet, Inv, OwnedFits, OwnerRemains
<1>7. /\ Owners = {i \in DOMAIN rows : members[1][rows[i]] = "owner"}
      /\ Owners' = {i \in DOMAIN rows : members'[1][rows[i]] = "owner"}
      /\ \A i \in DOMAIN rows : rows[i] \in Users
      /\ \A i, j \in DOMAIN rows : rows[i] = rows[j] => i = j
      /\ DOMAIN rows \subseteq Nat
  BY <1>2, Facts, ReadsThen DEF Reads, Inv, TypeOK, IsInjective
<1>8. Owners' = {i \in Owners : rows[i] # v}
  BY <1>2, <1>7
<1>9. \A i \in Owners : rows[i] = v => \E j \in Owners : j < i
  <2>1. \A i \in Owners : rows[i] = v => \E j \in Owners : ~(i <= j)
    BY <1>6 DEF Mains, IsMain
  <2>. QED
    BY <1>7, <2>1
<1>10. Owners' # {}
  BY <1>6, <1>7, <1>8, <1>9
<1>11. \A w \in Users : w \in Mains' => w \in Mains
  <2>. SUFFICES ASSUME NEW w \in Users, IsMain(w)' PROVE IsMain(w)
    BY DEF Mains
  <2>1. PICK i \in Owners' : rows[i] = w /\ \A j \in Owners' : i <= j
    BY <1>2 DEF IsMain
  <2>2. ASSUME NEW k \in Owners PROVE i <= k
    <3>1. CASE rows[k] # v
      BY <1>8, <2>1, <3>1
    <3>2. CASE rows[k] = v
      <4>1. PICK j \in Owners : j < k
        BY <1>9, <3>2
      <4>2. rows[j] # v
        BY <1>7, <3>2, <4>1
      <4>3. i <= j
        BY <1>8, <2>1, <4>2
      <4>. QED
        BY <1>7, <1>8, <4>1, <4>3
    <3>. QED
      BY <3>1, <3>2
  <2>. QED
    BY <1>8, <2>1, <2>2 DEF IsMain
<1>12. Spared
  BY <1>6, <1>11, RunFacts DEF Relies, Spared
<1>. QED
  BY <1>10, <1>12

\* A block does not concern runs that were not barred; one that is taken back
\* lets the user's runs go on.
LEMMA CommitBlockInv ==
  ASSUME Inv, NEW r \in Runs, NEW cmd \in OnUser, NEW flag \in BOOLEAN, CommitBlock(r, cmd, flag)
  PROVE  Inv'
<1>. DEFINE v == run[r].target
            Left(s) == [run[s] EXCEPT !.barred = @ /\ (flag \/ run[s].user # v)]
<1>1. /\ run[r].pc = "write" /\ run[r].cmd = cmd
      /\ run' = [s \in Runs |-> IF s = r THEN NoRun ELSE Left(s)]
      /\ blocked' = IF run[r].flag = flag THEN blocked
                    ELSE [blocked EXCEPT ![Runtime] = IF flag THEN @ \cup {v} ELSE @ \ {v}]
      /\ UNCHANGED <<tenants, rows, home, members, codes, owned, excuses, pool>>
  BY DEF CommitBlock, At
<1>2. v \in Users /\ owned /\ tenants # <<>> /\ Runtime = 1
  BY <1>1, RunFacts, Facts DEF Relies, Inv, OwnedFits
<1>3. /\ blocked' \in [Ids -> SUBSET Users]
      /\ \A u \in Users : u \in blocked[1] /\ (flag \/ u # v) => u \in blocked'[1]
  BY <1>1, <1>2 DEF Inv, TypeOK, Ids
<1>4. \A s \in Runs :
        /\ Left(s) \in RunRecord
        /\ Left(s).pc = run[s].pc /\ Left(s).cmd = run[s].cmd /\ Left(s).tx = run[s].tx
        /\ Left(s).target = run[s].target /\ Left(s).user = run[s].user
        /\ Left(s).noOwner = run[s].noOwner
        /\ Left(s).barred => run[s].barred /\ (flag \/ run[s].user # v)
  <2>. SUFFICES ASSUME NEW s \in Runs
       PROVE  /\ Left(s) \in RunRecord
              /\ Left(s).pc = run[s].pc /\ Left(s).cmd = run[s].cmd /\ Left(s).tx = run[s].tx
              /\ Left(s).target = run[s].target /\ Left(s).user = run[s].user
              /\ Left(s).noOwner = run[s].noOwner
              /\ Left(s).barred => run[s].barred /\ (flag \/ run[s].user # v)
    OBVIOUS
  <2>. DEFINE b == run[s].barred /\ (flag \/ run[s].user # v)
  <2>1. b \in BOOLEAN
    BY Zenon
  <2>2. Left(s) = [run[s] EXCEPT !.barred = b]
    OBVIOUS
  <2>3. b => run[s].barred /\ (flag \/ run[s].user # v)
    OBVIOUS
  <2>. HIDE DEF b, Left
  <2>. QED
    BY <2>1, <2>2, <2>3, RunFacts DEF RunRecord
<1>5. run' \in [Runs -> RunRecord] /\ \A s \in Runs : run'[s] = NoRun \/ run'[s] = Left(s)
  BY <1>1, <1>4, NoRunFacts
<1>. HIDE DEF Left
<1>6. TypeOK' /\ PoolFits' /\ TokenKept'
  BY <1>1, <1>3, <1>5, PoolUnchanged DEF Inv, TypeOK, PoolInv, TokenKept
<1>7. Owners' = Owners /\ Mains' = Mains /\ Known' = Known
  BY <1>1, <1>6, SameOwners DEF RowsGrow, Known, ToSet
<1>8. OwnedFits' /\ ConfiguredFits'
  BY <1>1, <1>7 DEF Inv, OwnedFits, OwnerRemains, ConfiguredFits, Elsewhere
<1>9. \A s \in Runs : Relies(run[s])'
  <2>. SUFFICES ASSUME NEW s \in Runs PROVE Relies(run[s])'
    OBVIOUS
  <2>1. CASE run'[s] = NoRun
    BY <2>1 DEF Relies, NoRun
  <2>2. CASE run'[s] = Left(s)
    BY <1>1, <1>3, <1>4, <1>7, <2>2, RunFacts DEF Relies, Quiet
  <2>. QED
    BY <1>5, <2>1, <2>2
<1>. QED
  BY <1>6, <1>8, <1>9 DEF Inv, Handlers

LEMMA CommitInv == ASSUME Inv, NEW r \in Runs, Commit(r) PROVE Inv'
<1>1. /\ "block" \in OnUser /\ "unblock" \in OnUser
      /\ "contact_block" \in OnUser /\ "contact_unblock" \in OnUser
  BY DEF OnUser
<1>2. CASE Block(r) \/ Unblock(r) \/ ContactBlock(r) \/ ContactUnblock(r)
  BY <1>1, <1>2, CommitBlockInv DEF Block, Unblock, ContactBlock, ContactUnblock
<1>. QED
  BY <1>2, CommitStartInv, CommitTouchInv, CommitDemotionInv, CommitNewOwnerInv, CommitRemovalInv
     DEF Commit

\* The reset: nobody is in a transaction, so nobody relies on what he has read.
LEMMA TruncateInv == ASSUME Inv, NEW r \in Runs, Truncate(r) PROVE Inv'
<1>. DEFINE Left(s) == [run[s] EXCEPT !.barred = FALSE]
<1>1. /\ \A s \in Runs : ~run[s].tx
      /\ tenants' = <<>> /\ rows' = <<>> /\ home' = [u \in Users |-> 0]
      /\ members' = NoMembers /\ blocked' = [i \in Ids |-> {}]
      /\ owned' = FALSE /\ excuses' = {} /\ UNCHANGED <<codes, pool>>
      /\ run' = [s \in Runs |-> IF s = r THEN NoRun ELSE Left(s)]
  BY DEF Truncate
<1>2. /\ members' \in [Ids -> [Users -> Roles]]
      /\ \A i \in Ids, u \in Users : members'[i][u] = "none"
  BY <1>1 DEF NoMembers, Roles
<1>3. /\ run' \in [Runs -> RunRecord]
      /\ \A s \in Runs : run'[s] = NoRun \/ (run'[s].pc = run[s].pc /\ ~run'[s].barred)
  BY <1>1, RunFacts, NoRunFacts, ZenonT(60) DEF RunRecord
<1>4. /\ ToSet(rows') = {} /\ rows' \in Seq(Users) /\ IsInjective(rows')
      /\ DOMAIN rows' = {} /\ tenants' \in Seq(TenantRow) /\ DOMAIN tenants' = {} /\ Len(tenants') = 0
  BY <1>1 DEF ToSet, IsInjective
<1>5. TypeOK' /\ TokenKept' /\ PoolFits'
  BY <1>1, <1>2, <1>3, <1>4, PoolUnchanged DEF Inv, TypeOK, PoolInv, TokenKept
<1>6. Owners' = {}
  BY <1>4 DEF Owners
<1>7. OwnedFits' /\ ConfiguredFits'
  BY <1>1, <1>2, <1>6, UsersAssumption DEF OwnedFits, OwnerRemains, ConfiguredFits, Ids
<1>8. \A s \in Runs : Relies(run[s])'
  <2>. SUFFICES ASSUME NEW s \in Runs PROVE Relies(run[s])'
    OBVIOUS
  <2>1. CASE run'[s] = NoRun
    BY <2>1 DEF Relies, NoRun
  <2>2. CASE run'[s].pc = run[s].pc /\ ~run'[s].barred
    <3>1. run[s].pc \notin {"primary", "load", "write"}
      BY <1>1, RunFacts DEF Relies
    <3>. QED
      BY <2>2, <3>1 DEF Relies
  <2>. QED
    BY <1>3, <2>1, <2>2
<1>. QED
  BY <1>5, <1>7, <1>8 DEF Inv, Handlers

\* Lists of one tenant and of two.
LEMMA OneTenant ==
  ASSUME NEW row \in TenantRow, row.bot
  PROVE  TenantList(<<row>>) /\ DOMAIN <<row>> = {1} /\ Len(<<row>>) = 1 /\ <<row>> # <<>>
<1>1. <<row>> \in Seq(TenantRow) /\ DOMAIN <<row>> = {1} /\ Len(<<row>>) = 1 /\ <<row>>[1] = row
  OBVIOUS
<1>2. 1 <= 2 /\ <<row>> # <<>>
  OBVIOUS
<1>. QED
  BY <1>1, <1>2, Zenon DEF TenantList

LEMMA AppendToOne ==
  ASSUME NEW S, NEW list \in Seq(S), NEW x \in S, NEW two, two = Append(list, x)
  PROVE  Len(list) = 1 =>
           /\ two \in Seq(S) /\ Len(two) = 2 /\ DOMAIN two = {1, 2} /\ DOMAIN list = {1}
           /\ two[1] = list[1] /\ two[2] = x /\ list # <<>> /\ two # <<>>
<1>1. PICK n \in Nat : n = Len(list)
  OBVIOUS
<1>2. /\ two \in Seq(S) /\ Len(two) = n + 1 /\ DOMAIN two = 1..n + 1 /\ DOMAIN list = 1..n
      /\ two[n + 1] = x /\ \A i \in 1..n : two[i] = list[i]
  BY <1>1
<1>3. n = 1 => list # <<>> /\ two # <<>>
  BY <1>1, <1>2
<1>4. 1..2 = {1, 2} /\ 1..1 = {1} /\ 1 + 1 = 2
  OBVIOUS
<1>. SUFFICES ASSUME n = 1
     PROVE  /\ two \in Seq(S) /\ Len(two) = 2 /\ DOMAIN two = {1, 2} /\ DOMAIN list = {1}
            /\ two[1] = list[1] /\ two[2] = x /\ list # <<>> /\ two # <<>>
  BY <1>1
<1>. QED
  BY <1>2, <1>3, <1>4

LEMMA TwoTenants ==
  ASSUME NEW list \in Seq(TenantRow), Len(list) = 1, TenantList(list),
         NEW row \in TenantRow, ~row.bot, list[1].slug # row.slug,
         NEW two, two = Append(list, row)
  PROVE  /\ TenantList(two) /\ two # <<>> /\ DOMAIN list \subseteq DOMAIN two /\ 2 \in DOMAIN two
<1>1. /\ two \in Seq(TenantRow) /\ Len(two) = 2 /\ DOMAIN two = {1, 2} /\ DOMAIN list = {1}
      /\ two[1] = list[1] /\ two[2] = row /\ list # <<>> /\ two # <<>>
  BY AppendToOne
<1>2. two[1].bot /\ ~two[2].bot /\ two[1].slug # two[2].slug
  BY <1>1 DEF TenantList
<1>3. TenantList(two)
  BY <1>1, <1>2 DEF TenantList
<1>. QED
  BY <1>1, <1>3

\* Nothing but the tenants, of which there are no fewer.
LEMMA TenantsInv ==
  ASSUME Inv, TenantList(tenants'), DOMAIN tenants \subseteq DOMAIN tenants', tenants' # <<>>,
         Elsewhere => Elsewhere',
         UNCHANGED <<rows, home, members, blocked, codes, run, owned, excuses, pool>>
  PROVE  Inv'
<1>1. TypeOK' /\ TokenKept' /\ PoolFits'
  BY PoolUnchanged, ListTyped DEF Inv, TypeOK, PoolInv
<1>2. owned' <=> (owned \/ \E u \in Users : members'[1][u] = "owner")
  BY KnownHave
<1>3. ConfiguredFits'
  BY DEF Inv, ConfiguredFits, Elsewhere
<1>. QED
  BY <1>1, <1>2, <1>3, NoOwnerInv DEF RowsGrow, Ended

LEMMA WebRequestInv == ASSUME Inv, WebRequest PROVE Inv'
<1>1. /\ tenants' = EnsureDefault
      /\ UNCHANGED <<rows, home, members, blocked, codes, run, owned, excuses, pool>>
  BY DEF WebRequest
<1>2. /\ TenantList(tenants) /\ TenantList(tenants') /\ tenants' # <<>>
      /\ DOMAIN tenants \subseteq DOMAIN tenants'
      /\ \A k \in DOMAIN tenants : tenants'[k].slug = tenants[k].slug
  BY <1>1, Facts, EnsureDefaultFacts DEF Sane
<1>3. Elsewhere => Elsewhere'
  <2>. SUFFICES ASSUME Elsewhere PROVE Elsewhere'
    OBVIOUS
  <2>1. 1 \in DOMAIN tenants /\ 2 \in DOMAIN tenants
    BY <1>2, TenantFacts DEF Elsewhere
  <2>2. Len(tenants') = 2
    <3>1. PICK n \in Nat : n = Len(tenants') /\ n <= 2 /\ DOMAIN tenants' = 1..n
      BY <1>2 DEF TenantList
    <3>. QED
      BY <1>2, <2>1, <3>1
  <2>. QED
    BY <1>2, <2>1, <2>2 DEF Elsewhere
<1>. QED
  BY <1>1, <1>2, <1>3, TenantsInv

\* A tenant is renamed only while it is the only one: there are two names.
LEMMA RenameTenantInv == ASSUME Inv, RenameTenant PROVE Inv'
<1>1. PICK i \in DOMAIN tenants, slug \in Slugs :
        WithSlug(slug) = {} /\ tenants' = [tenants EXCEPT ![i].slug = slug]
  BY DEF RenameTenant
<1>2. UNCHANGED <<rows, home, members, blocked, codes, run, owned, excuses, pool>>
  BY DEF RenameTenant
<1>3. TenantList(tenants) /\ tenants \in Seq(TenantRow)
  BY Facts DEF Sane, TenantList
<1>4. \A k \in DOMAIN tenants : tenants[k].slug # slug
  BY <1>1 DEF WithSlug
<1>5. Len(tenants) = 1 /\ DOMAIN tenants = {1} /\ i = 1
  BY <1>1, <1>3, <1>4, TenantFacts DEF TenantList, Slugs
<1>6. tenants[1] \in TenantRow /\ tenants[1].bot
  BY <1>3, <1>5 DEF TenantList
<1>. DEFINE row == [tenants[1] EXCEPT !.slug = slug]
<1>7. row \in TenantRow /\ row.bot
  BY <1>6 DEF TenantRow
<1>8. tenants' = <<row>>
  BY <1>1, <1>3, <1>5
<1>. HIDE DEF row
<1>9. /\ TenantList(tenants') /\ tenants' # <<>> /\ DOMAIN tenants \subseteq DOMAIN tenants'
  BY <1>5, <1>7, <1>8, OneTenant
<1>10. ~Elsewhere
  BY <1>5 DEF Elsewhere
<1>. QED
  BY <1>2, <1>9, <1>10, TenantsInv

LEMMA CreateTenantInv == ASSUME Inv, CreateTenant PROVE Inv'
<1>. DEFINE row == [slug |-> "shop", bot |-> FALSE]
<1>1. PICK u \in Users : MakeOwner(u, 2)
  BY DEF CreateTenant
<1>2. /\ Len(tenants) = 1 /\ WithSlug("shop") = {} /\ tenants' = Append(tenants, row)
      /\ UNCHANGED <<blocked, codes, run, owned, excuses, pool>>
  BY DEF CreateTenant
<1>3. TenantList(tenants) /\ tenants \in Seq(TenantRow) /\ tenants[1].bot
  BY <1>2, Facts DEF Sane, TenantList
<1>4. row \in TenantRow /\ row.slug = "shop" /\ ~row.bot
  BY DEF TenantRow, Slugs
<1>5. \A k \in DOMAIN tenants : tenants[k].slug # "shop"
  BY <1>2 DEF WithSlug
<1>. HIDE DEF row
<1>6. tenants[1].slug # row.slug
  BY <1>2, <1>3, <1>4, <1>5, TenantFacts
<1>7. /\ TenantList(tenants') /\ tenants' # <<>> /\ DOMAIN tenants \subseteq DOMAIN tenants'
      /\ 2 \in DOMAIN tenants'
  BY <1>2, <1>3, <1>4, <1>6, TwoTenants
<1>8. PICK i \in Ids : i = 2
  BY DEF Ids
<1>9. Settles(u, i) /\ members' = [members EXCEPT ![i][u] = "owner"] /\ i \in DOMAIN tenants'
  BY <1>1, <1>7, <1>8 DEF MakeOwner, Settles
<1>10. "owner" \in Roles /\ run' \in [Runs -> RunRecord]
  BY <1>2, Facts DEF Roles
<1>11. /\ TypeOK' /\ TokenKept' /\ PoolFits' /\ RowsGrow
       /\ \A w \in Users : members'[1][w] = IF i = 1 /\ w = u THEN "owner" ELSE members[1][w]
  BY <1>2, <1>7, <1>9, <1>10, MembershipInv, ZenonT(60)
<1>12. \A w \in Users : members'[1][w] = members[1][w]
  BY <1>8, <1>11
<1>13. owned' <=> (owned \/ \E w \in Users : members'[1][w] = "owner")
  BY <1>2, <1>12, KnownHave
<1>14. ConfiguredFits'
  BY <1>2, <1>12, UsersAssumption DEF Inv, ConfiguredFits, Elsewhere
<1>. QED
  BY <1>2, <1>7, <1>11, <1>12, <1>13, <1>14, NoOwnerInv DEF Ended

\* The script gives the token's tenant, or the first one, an owner.
LEMMA BootstrapInv == ASSUME Inv, Bootstrap PROVE Inv'
<1>1. PICK slug \in Slugs, u \in Users :
        LET i == IF WithSlug(slug) = {} THEN Len(tenants) + 1 ELSE One(WithSlug(slug))
        IN /\ i \in Ids /\ WithToken \subseteq {i}
           /\ tenants' = IF i \in DOMAIN tenants THEN [tenants EXCEPT ![i].bot = TRUE]
                         ELSE Append(tenants, [slug |-> slug, bot |-> TRUE])
           /\ MakeOwner(u, i)
  BY DEF Bootstrap
<1>2. Note(Crosses) /\ UNCHANGED <<blocked, codes, run, pool>>
  BY DEF Bootstrap
<1>. DEFINE at == IF WithSlug(slug) = {} THEN Len(tenants) + 1 ELSE One(WithSlug(slug))
<1>3. TenantList(tenants) /\ tenants \in Seq(TenantRow)
  BY Facts DEF Sane, TenantList
<1>4. at = 1
  <2>1. CASE tenants = <<>>
    BY <1>3, <2>1, TenantFacts DEF WithSlug
  <2>2. CASE tenants # <<>>
    BY <1>1, <1>3, <2>2, TenantFacts
  <2>. QED
    BY <2>1, <2>2
<1>5. /\ tenants' = IF 1 \in DOMAIN tenants THEN [tenants EXCEPT ![1].bot = TRUE]
                    ELSE Append(tenants, [slug |-> slug, bot |-> TRUE])
      /\ MakeOwner(u, 1)
  BY <1>1, <1>4
<1>6. /\ TenantList(tenants') /\ tenants' # <<>> /\ DOMAIN tenants \subseteq DOMAIN tenants'
      /\ 1 \in DOMAIN tenants' /\ (Elsewhere => Elsewhere')
  <2>1. CASE tenants = <<>>
    <3>. DEFINE row == [slug |-> slug, bot |-> TRUE]
    <3>1. row \in TenantRow /\ row.bot
      BY DEF TenantRow
    <3>2. tenants' = <<row>>
      <4>1. 1 \notin DOMAIN tenants
        BY <2>1
      <4>2. tenants' = Append(tenants, row)
        BY <1>5, <4>1, Zenon
      <4>. QED
        BY <2>1, <4>2
    <3>. HIDE DEF row
    <3>3. ~Elsewhere /\ DOMAIN tenants = {}
      BY <2>1 DEF Elsewhere
    <3>. QED
      BY <3>1, <3>2, <3>3, OneTenant
  <2>2. CASE tenants # <<>>
    <3>1. 1 \in DOMAIN tenants /\ tenants[1].bot /\ tenants[1] \in TenantRow
      BY <1>3, <2>2, TenantFacts DEF TenantList
    <3>2. [tenants[1] EXCEPT !.bot = TRUE] = tenants[1]
      BY <3>1, Zenon DEF TenantRow
    <3>3. tenants' = tenants
      BY <1>3, <1>5, <3>1, <3>2
    <3>. QED
      BY <1>3, <2>2, <3>1, <3>3 DEF Elsewhere
  <2>. QED
    BY <2>1, <2>2
<1>7. PICK i \in Ids : i = 1
  BY DEF Ids
<1>8. Settles(u, i) /\ members' = [members EXCEPT ![i][u] = "owner"] /\ i \in DOMAIN tenants'
  BY <1>5, <1>6, <1>7 DEF MakeOwner, Settles
<1>9. "owner" \in Roles /\ run' \in [Runs -> RunRecord]
  BY <1>2, Facts DEF Roles
<1>10. /\ TypeOK' /\ TokenKept' /\ PoolFits' /\ RowsGrow
       /\ \A w \in Users : members'[1][w] = IF i = 1 /\ w = u THEN "owner" ELSE members[1][w]
  BY <1>2, <1>6, <1>8, <1>9, MembershipInv
<1>11. \A w \in Users : members'[1][w] = IF w = u THEN "owner" ELSE members[1][w]
  BY <1>7, <1>10
<1>12. /\ owned' <=> (owned \/ \E w \in Users : members'[1][w] = "owner")
       /\ excuses' = excuses \cup Crosses /\ excuses \subseteq excuses'
  BY <1>2, <1>6, <1>10, NoteOwned
<1>13. ConfiguredFits'
  <2>1. "started" \in excuses' => "started" \in excuses
    BY <1>12 DEF Crosses
  <2>2. members[1][OwnerId] = "owner" => members'[1][OwnerId] = "owner"
    BY <1>11, UsersAssumption
  <2>3. owned'
    BY <1>11, <1>12
  <2>. QED
    BY <1>6, <1>12, <2>1, <2>2, <2>3 DEF Inv, ConfiguredFits, Elsewhere
<1>14. Owners' # {}
  <2>1. \A w \in Users : members'[1][w] # "none" => w \in ToSet(rows')
    BY <1>10 DEF TypeOK, Ids
  <2>2. PICK k \in DOMAIN rows' : rows'[k] = u
    BY <1>11, <2>1 DEF ToSet
  <2>. QED
    BY <1>10, <1>11, <2>2, ReadsThen DEF Reads
<1>15. Quiet' => \A s \in Runs : run[s].cmd # "remove_owner"
  BY <1>12 DEF Crosses, Quiet
<1>. QED
  BY <1>2, <1>6, <1>10, <1>12, <1>13, <1>14, <1>15, ShopInv DEF Ended, Spared

-----------------------------------------------------------------------------
(***************************************************************************)
(* The theorems.                                                           *)
(***************************************************************************)

\* A shop to begin with.
LEMMA InitInv == Init => Inv
<1>. SUFFICES ASSUME Init PROVE Inv
  OBVIOUS
<1>1. PICK shop \in Shops :
        /\ tenants = <<[slug |-> shop.slug, bot |-> TRUE]>> /\ rows = shop.rows
        /\ home = [u \in Users |-> IF u \in ToSet(shop.rows) THEN 1 ELSE 0]
        /\ members = [NoMembers EXCEPT ![1] = shop.roles]
        /\ blocked = [i \in Ids |-> IF i = 1 THEN shop.blocked ELSE {}]
        /\ owned = (\E u \in Users : shop.roles[u] = "owner")
        /\ excuses = IF shop.roles[OwnerId] \in {"none", "owner"} THEN {} ELSE {"touched"}
        /\ codes = shop.codes /\ run \in shop.runs
  BY DEF Init
<1>2. /\ shop.slug \in Slugs
      /\ shop.rows \in Seq(Users) /\ IsInjective(shop.rows)
      /\ shop.roles \in [Users -> Roles] /\ shop.blocked \in SUBSET Users
      /\ shop.codes \in SUBSET Users
      /\ \A u \in Users : shop.roles[u] # "none" => u \in ToSet(shop.rows)
      /\ run = [r \in Runs |-> run[r]]
      /\ \A r \in Runs :
           run[r] = NoRun \/ \E v \in Users : run[r] = Removal(v) /\ NotMain(shop, v)
  BY <1>1, ShopsAssumption
<1>3. PoolInv
  BY PoolInitInv DEF Init
<1>. DEFINE row == [slug |-> shop.slug, bot |-> TRUE]
<1>4. row \in TenantRow /\ row.bot
  BY <1>2 DEF TenantRow
<1>5. tenants = <<row>>
  BY <1>1
<1>. HIDE DEF row
<1>6. TenantList(tenants) /\ DOMAIN tenants = {1} /\ Len(tenants) = 1 /\ tenants # <<>>
  BY <1>4, <1>5, OneTenant
<1>7. members \in [Ids -> [Users -> Roles]] /\ members[1] = shop.roles
      /\ \A i \in Ids, u \in Users : members[i][u] # "none" => i = 1 /\ u \in ToSet(rows)
  BY <1>1, <1>2 DEF NoMembers, Roles, Ids
<1>8. blocked \in [Ids -> SUBSET Users] /\ codes \subseteq Users
  BY <1>1, <1>2
<1>9. home \in [Users -> 0..2] /\ \A u \in ToSet(rows) : home[u] \in DOMAIN tenants
  BY <1>1, <1>2, <1>6 DEF ToSet
<1>10. run \in [Runs -> RunRecord]
  <2>1. \A v \in Users : Removal(v) \in RunRecord
    BY NoRunFacts DEF Removal, NoRun, RunRecord, OnUser
  <2>2. \A r \in Runs : run[r] \in RunRecord
    BY <1>2, <2>1, NoRunFacts
  <2>. QED
    BY <1>2, <2>2
<1>11. TypeOK /\ TokenKept
  BY <1>1, <1>2, <1>3, <1>6, <1>7, <1>8, <1>9, <1>10
     DEF TypeOK, TokenKept, PoolInv, TenantList
<1>12. Owners = {i \in DOMAIN rows : shop.roles[rows[i]] = "owner"}
  BY <1>7, <1>11, ReadsNow DEF Reads
<1>13. Owners # {} <=> \E u \in Users : shop.roles[u] = "owner"
  BY <1>1, <1>2, <1>12 DEF ToSet
<1>14. OwnedFits
  BY <1>1, <1>6, <1>13 DEF OwnedFits, OwnerRemains
<1>15. ConfiguredFits
  BY <1>1, <1>2, <1>7, UsersAssumption DEF ConfiguredFits, Roles
<1>16. ASSUME NEW v \in Users, NotMain(shop, v) PROVE owned /\ v \notin Mains
  <2>1. PICK i \in DOMAIN rows :
          /\ shop.roles[rows[i]] = "owner"
          /\ \A j \in DOMAIN rows : rows[j] = v /\ shop.roles[v] = "owner" => i < j
    BY <1>1, <1>16 DEF NotMain
  <2>2. owned
    BY <1>1, <1>2, <2>1
  <2>3. ~IsMain(v)
    <3>. SUFFICES ASSUME NEW j \in Owners, rows[j] = v, \A k \in Owners : j <= k PROVE FALSE
      BY DEF IsMain
    <3>1. i \in Owners /\ shop.roles[v] = "owner" /\ j \in DOMAIN rows
      BY <1>12, <2>1
    <3>2. i < j /\ j <= i
      BY <2>1, <3>1
    <3>3. i \in Nat /\ j \in Nat
      BY <1>1, <1>2, <3>1
    <3>. QED
      BY <3>2, <3>3
  <2>. QED
    BY <2>2, <2>3 DEF Mains
<1>17. Handlers
  <2>1. ASSUME NEW v \in Users, NotMain(shop, v) PROVE Relies(Removal(v))
    BY <1>16, <2>1 DEF Relies, Removal, NoRun
  <2>. QED
    BY <1>2, <2>1, NoRunFacts DEF Handlers
<1>. QED
  BY <1>3, <1>11, <1>14, <1>15, <1>17 DEF Inv, PoolInv

LEMMA HandleInv == ASSUME Inv, NEW r \in Runs, Handle(r) PROVE Inv'
BY CheckInv, AuthorizeInv, ReadPrimaryForStartInv, ReadPrimaryInv, LoadInv, CommitInv, ResetInv,
   TruncateInv, BroadcastInv DEF Handle

LEMMA NextInv == Inv /\ [Next]_vars => Inv'
<1>. SUFFICES ASSUME Inv, [Next]_vars PROVE Inv'
  OBVIOUS
<1>1. CASE UNCHANGED vars
  <2>1. UNCHANGED <<database, owned, excuses, codes, pool, run>>
    BY <1>1 DEF vars
  <2>. QED
    BY <2>1, Facts, PoolUnchanged, CodesUnchanged, RunsInv
<1>2. ASSUME NEW r \in Runs, Arrive(r) \/ Handle(r) PROVE Inv'
  BY <1>2, ArriveInv, HandleInv
<1>. QED
  BY <1>1, <1>2, IdleInv, WebRequestInv, RenameTenantInv, CreateTenantInv, BootstrapInv DEF Next

\* The invariant that the properties below follow from: what a handler of any shop
\* can rely on in the rows, the session and the lists it has read, whichever
\* commits of other updates, deliveries and scripts came between.
THEOREM Invariance == Spec => []Inv
<1>. QED
  BY InitInv, NextInv, PTL DEF Spec

\* The type invariant.
THEOREM TypeCorrect == Spec => []TypeOK
<1>1. Inv => TypeOK
  BY DEF Inv
<1>. QED
  BY <1>1, Invariance, PTL

\* However many removals are under way, and whatever else the owners, the
\* customers and the script do meanwhile, a shop that has had an owner keeps one
\* unless somebody takes the role by another command, or an owner is added while
\* a removal is under way (owner_remove_owner).
THEOREM RemovalsSpareAnOwner == Spec => []OwnerRemains
<1>1. Inv => OwnerRemains
  BY DEF Inv, OwnedFits
<1>. QED
  BY <1>1, Invariance, PTL

\* The configured owner who has sent /start to a shop without owners is an owner
\* of it, with the exceptions the property names (start_handler).
THEOREM StartMakesTheOwner == Spec => []ConfiguredOwner
<1>1. ASSUME Inv PROVE ConfiguredOwner
  <2>. SUFFICES ASSUME "started" \in excuses, Runtime = Default,
                       excuses \cap {"touched", "removed", "demoted"} = {}
                PROVE  IsOwner(OwnerId)
    BY DEF ConfiguredOwner
  <2>1. ~Elsewhere
    <3>. SUFFICES ASSUME Elsewhere PROVE FALSE
      OBVIOUS
    <3>1. TenantList(tenants) /\ tenants # <<>> /\ tenants[1].slug # "default"
      BY <1>1, Facts, TenantFacts DEF Elsewhere, Sane
    <3>2. Runtime = 1
      BY <1>1, <3>1, Facts
    <3>. QED
      BY <3>1, <3>2, DefaultIs
  <2>. QED
    BY <1>1, <2>1, Facts DEF Inv, ConfiguredFits
<1>. QED
  BY <1>1, Invariance, PTL

\* Whoever was blocked when his message arrived, and has been neither unblocked
\* nor made an owner since, is not past the middleware (BlockUserMiddleware).
THEOREM BlockedStayOut == Spec => []BlockedKeptOut
<1>1. Inv => BlockedKeptOut
  BY DEF Inv, Handlers, Relies, BlockedKeptOut
<1>. QED
  BY <1>1, Invariance, PTL

\* A broadcast that has returned gave nobody a second copy, and counted the
\* copies whose answers it got: what BroadcastReturns says of the state it leads
\* to, for any number of users and workers (_broadcast_post).
THEOREM BroadcastsCount == Spec => [](phase = "returned" => CopiesCounted)
<1>1. ASSUME Inv, phase = "returned" PROVE CopiesCounted
  <2>1. Holding = {} /\ counted + unsure + Cardinality(Counting) = Cardinality(Reached)
        /\ \A u \in Users : got[u] <= 1
    BY <1>1 DEF Inv, PoolFits
  <2>2. Counting = {}
    BY <2>1 DEF Holding, Counting
  <2>3. Cardinality({}) = 0 /\ counted \in Nat /\ unsure \in Nat
    BY <1>1, FS_EmptySet, PoolSets DEF Inv, TypeOK
  <2>4. counted + unsure = Cardinality(Reached)
    BY <2>1, <2>2, <2>3
  <2>. QED
    BY <2>1, <2>4 DEF Reached, CopiesCounted
<1>2. Inv => (phase = "returned" => CopiesCounted)
  BY <1>1
<1>. QED
  BY <1>2, Invariance, PTL

=============================================================================
