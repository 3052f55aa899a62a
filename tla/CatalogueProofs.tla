--------------------------- MODULE CatalogueProofs ---------------------------
(***************************************************************************)
(* Proofs about Catalogue for any names, sizes and handler runs, and any   *)
(* catalogue and dialogues to begin with.                                  *)
(***************************************************************************)
EXTENDS Catalogue, FiniteSetTheorems, TLAPS

-----------------------------------------------------------------------------
(***************************************************************************)
(* The FSM record, and writes to it.                                       *)
(***************************************************************************)

LEMMA Numbers == MaxProducts \in Nat /\ MaxIds \in Nat /\ MaxMedia \in Nat \ {0}
BY OwnerAssumption, BoundsAssumption

LEMMA FieldsAre ==
  Fields = {"stage", "category", "brand", "facts", "media", "sizes", "quantities", "idx",
            "product", "size"}
BY DEF Fields, NoFields

LEMMA NoFieldsType ==
  /\ NoFields \in FsmRecord /\ NoFields.stage = "idle" /\ NoFields.product = 0
  /\ NoFields.media = 0 /\ NoFields.idx = 1 /\ NoFields.sizes = <<>>
  /\ NoFields.quantities \in [Sizes -> Nat] /\ \A s \in Sizes : NoFields.quantities[s] = 0
BY Numbers DEF NoFields, FsmRecord, Stages

LEMMA NoRunType == NoRun \in RunRecord
<1>1. (CHOOSE n \in Names : TRUE) \in Names
  BY OwnerAssumption
<1>2. "category" \in Kinds /\ "idle" \in Stages /\ <<>> \in Seq(Writes) /\ 0 \in Quantities
  BY DEF Kinds, Stages, Quantities
<1>. QED
  BY <1>1, <1>2, NoFieldsType DEF NoRun, RunRecord, Handlers, Cards

LEMMA SetWrite ==
  ASSUME NEW F \in SUBSET Fields, NEW v \in FsmRecord
  PROVE  Set(F, v) \in Writes /\ Set(F, v).of = F /\ Set(F, v).to = v
BY DEF Set, Writes

LEMMA StageWritten ==
  ASSUME NEW s \in Stages
  PROVE  /\ Stage(s) \in Writes /\ Stage(s).of = {"stage"} /\ Stage(s).to.stage = s
         /\ Stage(s).to.product = 0
<1>1. [NoFields EXCEPT !.stage = s] \in FsmRecord
  BY NoFieldsType DEF FsmRecord
<1>2. {"stage"} \in SUBSET Fields
  BY FieldsAre
<1>3. [NoFields EXCEPT !.stage = s].stage = s /\ [NoFields EXCEPT !.stage = s].product = 0
  BY NoFieldsType DEF FsmRecord
<1>. QED
  BY <1>1, <1>2, <1>3, SetWrite DEF Stage, Field

LEMMA FieldWritten ==
  ASSUME NEW f \in Fields \ {"stage"}, NEW v, [NoFields EXCEPT ![f] = v] \in FsmRecord
  PROVE  /\ Field(f, v) \in Writes /\ Field(f, v).of = {f} /\ Field(f, v).to[f] = v
         /\ f # "product" => Field(f, v).to.product = 0
<1>1. {f} \in SUBSET Fields /\ f \in DOMAIN NoFields
  BY DEF Fields
<1>2. [NoFields EXCEPT ![f] = v][f] = v
  BY <1>1 DEF NoFields
<1>3. f # "product" => [NoFields EXCEPT ![f] = v].product = 0
  BY <1>1, NoFieldsType DEF NoFields
<1>. QED
  BY <1>1, <1>2, <1>3, SetWrite, ZenonT(60) DEF Field

LEMMA WrittenRecord ==
  ASSUME fsm \in FsmRecord, NEW w \in Writes
  PROVE  /\ Written(w) \in FsmRecord
         /\ Written(w).stage = IF "stage" \in w.of THEN w.to.stage ELSE fsm.stage
         /\ Written(w).media = IF "media" \in w.of THEN w.to.media ELSE fsm.media
         /\ Written(w).sizes = IF "sizes" \in w.of THEN w.to.sizes ELSE fsm.sizes
         /\ Written(w).quantities = IF "quantities" \in w.of THEN w.to.quantities ELSE fsm.quantities
         /\ Written(w).idx = IF "idx" \in w.of THEN w.to.idx ELSE fsm.idx
         /\ Written(w).product = IF "product" \in w.of THEN w.to.product ELSE fsm.product
BY FieldsAre DEF Written, Writes, FsmRecord

\* What every write waiting in a run is like, while products below n are known.
GoodWrite(w, n) ==
  /\ w \in Writes /\ w.to.product < n
  /\ "stage" \in w.of => w.of = {"stage"}
  /\ "sizes" \in w.of \/ "idx" \in w.of => "quantities" \in w.of
GoodWrites(todo, n) == todo \in Seq(Writes) /\ \A i \in 1..Len(todo) : GoodWrite(todo[i], n)

LEMMA GoodStage == ASSUME NEW s \in Stages, NEW n \in Nat \ {0} PROVE GoodWrite(Stage(s), n)
BY StageWritten DEF GoodWrite

LEMMA GoodField ==
  ASSUME NEW f \in Fields \ {"stage", "sizes", "idx"}, NEW v, NEW n \in Nat \ {0},
         [NoFields EXCEPT ![f] = v] \in FsmRecord, f = "product" => v < n
  PROVE  GoodWrite(Field(f, v), n)
BY FieldWritten DEF GoodWrite

LEMMA NoDataIs ==
  NoData \in Writes /\ NoData.of = Fields \ {"stage"} /\ NoData.to = NoFields
BY SetWrite, NoFieldsType DEF NoData

LEMMA GoodNoData == ASSUME NEW n \in Nat \ {0} PROVE GoodWrite(NoData, n)
BY NoDataIs, FieldsAre, NoFieldsType DEF GoodWrite

LEMMA GoodTuples ==
  ASSUME NEW n, NEW a, NEW b, NEW c, GoodWrite(a, n)
  PROVE  /\ GoodWrites(<<>>, n) /\ GoodWrites(<<a>>, n)
         /\ GoodWrite(b, n) => GoodWrites(<<a, b>>, n)
         /\ GoodWrite(b, n) /\ GoodWrite(c, n) => GoodWrites(<<a, b, c>>, n)
BY DEF GoodWrites, GoodWrite

LEMMA GoodClears ==
  ASSUME NEW n \in Nat \ {0}, NEW s \in Stages
  PROVE  GoodWrites(Clear, n) /\ GoodWrites(Restart(s), n)
BY GoodTuples, GoodNoData, GoodStage DEF Clear, Restart, Stages

-----------------------------------------------------------------------------
(***************************************************************************)
(* Handler runs.                                                           *)
(***************************************************************************)

Busy(r) == run[r].pc # "idle"

\* A run while products below n are known.
Sound(L, n) ==
  /\ L \in RunRecord
  /\ L.pc = "idle" => L = NoRun
  /\ L.pc = "redis" <=> (L.todo # <<>>)
  /\ GoodWrites(L.todo, n)
  /\ L.data.product < n
  /\ L.next \notin AddStages

\* New products get numbers nobody has.
Past == fsm.product < nextProduct /\ \A r \in Runs : Sound(run[r], nextProduct)
Base == TypeOK /\ Past

LEMMA NoRunSound == ASSUME NEW n \in Nat \ {0} PROVE Sound(NoRun, n)
<1>1. /\ NoRun.pc = "idle" /\ NoRun.todo = <<>> /\ NoRun.data = NoFields /\ NoRun.next = "idle"
  BY DEF NoRun
<1>2. GoodWrites(NoRun.todo, n)
  BY <1>1 DEF GoodWrites
<1>. QED
  BY <1>1, <1>2, NoRunType, NoFieldsType DEF Sound, AddStages

LEMMA NoRunFields ==
  /\ NoRun.pc = "idle" /\ NoRun.h = "none" /\ NoRun.todo = <<>> /\ NoRun.card = "none"
  /\ NoRun.id = 0 /\ NoRun.data = NoFields /\ NoRun.next = "idle"
BY DEF NoRun

\* What is left of a run after its writes are those in L.todo.
LEMMA GoesIs ==
  ASSUME NEW L \in RunRecord
  PROVE  /\ Goes(L) \in RunRecord
         /\ L.todo # <<>> =>
              /\ Goes(L).pc = "redis" /\ Goes(L).h = L.h /\ Goes(L).todo = L.todo
              /\ Goes(L).card = L.card /\ Goes(L).id = L.id /\ Goes(L).data = L.data
              /\ Goes(L).next = L.next
         /\ L.todo = <<>> /\ L.h = "create" =>
              /\ Goes(L).pc = "read" /\ Goes(L).h = "create" /\ Goes(L).todo = <<>>
              /\ Goes(L).card = "none" /\ Goes(L).id = 0 /\ Goes(L).data = NoFields
              /\ Goes(L).next = "idle"
         /\ L.todo = <<>> /\ L.h # "create" /\ L.card # "none" =>
              /\ Goes(L).pc = "card" /\ Goes(L).h = L.h /\ Goes(L).todo = <<>>
              /\ Goes(L).card = L.card /\ Goes(L).id = L.id /\ Goes(L).data = L.data
              /\ Goes(L).next = L.next
         /\ L.todo = <<>> /\ L.h # "create" /\ L.card = "none" => Goes(L) = NoRun
<1>1. CASE L.todo # <<>>
  <2>1. Goes(L) = [L EXCEPT !.pc = "redis"]
    BY <1>1 DEF Goes
  <2>. QED
    BY <1>1, <2>1 DEF RunRecord
<1>2. CASE L.todo = <<>> /\ L.h = "create"
  <2>1. Goes(L) = [NoRun EXCEPT !.pc = "read", !.h = "create"]
    BY <1>2 DEF Goes
  <2>. QED
    BY <1>2, <2>1, NoRunType, NoRunFields DEF RunRecord, Handlers
<1>3. CASE L.todo = <<>> /\ L.h # "create" /\ L.card # "none"
  <2>1. Goes(L) = [L EXCEPT !.pc = "card"]
    BY <1>3 DEF Goes
  <2>. QED
    BY <1>3, <2>1 DEF RunRecord
<1>4. CASE L.todo = <<>> /\ L.h # "create" /\ L.card = "none"
  <2>1. Goes(L) = NoRun
    BY <1>4 DEF Goes
  <2>. QED
    BY <1>4, <2>1, NoRunType
<1>. QED
  BY <1>1, <1>2, <1>3, <1>4

LEMMA GoesSound ==
  ASSUME NEW L \in RunRecord, NEW n \in Nat \ {0}, GoodWrites(L.todo, n), L.data.product < n,
         L.next \notin AddStages
  PROVE  Sound(Goes(L), n)
<1>1. CASE L.todo # <<>>
  BY <1>1, GoesIs DEF Sound
<1>2. CASE L.todo = <<>> /\ L.h = "create"
  BY <1>2, GoesIs, NoFieldsType DEF Sound, AddStages
<1>3. CASE L.todo = <<>> /\ L.h # "create" /\ L.card # "none"
  BY <1>3, GoesIs DEF Sound
<1>. QED
  BY <1>1, <1>2, <1>3, GoesIs, NoRunSound

\* A run that writes, and one that shows a card after it.
LEMMA ShowIs ==
  ASSUME NEW todo \in Seq(Writes), NEW card \in Cards, NEW p \in Nat
  PROVE  /\ Show(todo, card, p) \in RunRecord
         /\ Show(todo, card, p).todo = todo /\ Show(todo, card, p).data = NoFields
         /\ Show(todo, card, p).next = "idle" /\ Show(todo, card, p).h = "none"
         /\ todo # <<>> => /\ Show(todo, card, p).pc = "redis" /\ Show(todo, card, p).card = card
                           /\ Show(todo, card, p).id = p
         /\ todo = <<>> /\ card # "none" =>
              /\ Show(todo, card, p).pc = "card" /\ Show(todo, card, p).card = card
              /\ Show(todo, card, p).id = p
<1>. DEFINE L == [NoRun EXCEPT !.todo = todo, !.card = card, !.id = p]
<1>1. L \in RunRecord
  BY NoRunType DEF RunRecord
<1>2. /\ L.todo = todo /\ L.card = card /\ L.id = p /\ L.h = "none"
      /\ L.data = NoFields /\ L.next = "idle"
  BY DEF NoRun
<1>3. Show(todo, card, p) = Goes(L)
  BY DEF Show
<1>. HIDE DEF L
<1>. QED
  BY <1>1, <1>2, <1>3, GoesIs, NoRunFields

LEMMA FinishIs ==
  ASSUME NEW todo \in Seq(Writes)
  PROVE  /\ Finish(todo) \in RunRecord
         /\ Finish(todo).todo = todo /\ Finish(todo).data = NoFields
         /\ Finish(todo).next = "idle" /\ Finish(todo).h = "none"
         /\ Finish(todo).card = "none" /\ Finish(todo).id = 0
         /\ todo # <<>> => Finish(todo).pc = "redis"
         /\ todo = <<>> => Finish(todo) = NoRun
<1>. DEFINE L == [NoRun EXCEPT !.todo = todo]
<1>1. L \in RunRecord
  BY NoRunType DEF RunRecord
<1>2. /\ L.todo = todo /\ L.card = "none" /\ L.id = 0 /\ L.h = "none"
      /\ L.data = NoFields /\ L.next = "idle"
  BY DEF NoRun
<1>3. Finish(todo) = Goes(L)
  BY DEF Finish
<1>. HIDE DEF L
<1>. QED
  BY <1>1, <1>2, <1>3, GoesIs, NoRunFields

LEMMA FinishSound ==
  ASSUME NEW n \in Nat \ {0}, NEW todo, GoodWrites(todo, n)
  PROVE  Sound(Finish(todo), n)
<1>1. todo \in Seq(Writes)
  BY DEF GoodWrites
<1>2. CASE todo = <<>>
  BY <1>1, <1>2, FinishIs, NoRunSound
<1>3. CASE todo # <<>>
  BY <1>1, <1>3, FinishIs, NoFieldsType DEF Sound, AddStages
<1>. QED
  BY <1>2, <1>3

LEMMA ShowSound ==
  ASSUME NEW n \in Nat \ {0}, NEW todo, GoodWrites(todo, n),
         NEW card \in Cards \ {"none"}, NEW p \in Nat
  PROVE  Sound(Show(todo, card, p), n)
<1>1. todo \in Seq(Writes) /\ card \in Cards /\ card # "none"
  BY DEF GoodWrites
<1>2. /\ Show(todo, card, p) \in RunRecord /\ Show(todo, card, p).data = NoFields
      /\ Show(todo, card, p).todo = todo /\ Show(todo, card, p).next = "idle"
  BY <1>1, ShowIs
<1>3. /\ todo = <<>> => Show(todo, card, p).pc = "card"
      /\ todo # <<>> => Show(todo, card, p).pc = "redis"
  BY <1>1, ShowIs
<1>. QED
  BY <1>2, <1>3, NoFieldsType DEF Sound, AddStages

\* A run that begins with a question to the database or an answer to it.
LEMMA QuestionSound ==
  ASSUME NEW L \in RunRecord, NEW n \in Nat \ {0}, L.pc \in {"read", "commit"}, L.todo = <<>>,
         L.data = NoFields, L.next \notin AddStages
  PROVE  Sound(L, n)
<1>1. GoodWrites(L.todo, n)
  BY DEF GoodWrites
<1>. QED
  BY <1>1, NoFieldsType DEF Sound

-----------------------------------------------------------------------------
(***************************************************************************)
(* The invariant: limits of photos, the dialogue that makes a product, and *)
(* the product on the screen.                                              *)
(***************************************************************************)

\* The uploads of a photo that have counted the photos and not added theirs.
Uploads(p) ==
  {r \in Runs : run[r].pc = "commit" /\ run[r].h = "photo" /\ run[r].data.product = p}

Photos(p) ==
  /\ products[p].media + Cardinality(Uploads(p)) < MaxMedia + Cardinality(Runs)
  /\ overlaps = 0 => /\ products[p].media <= MaxMedia
                     /\ Uploads(p) # {} => products[p].media < MaxMedia

Alone == overlaps = 0 => \A r, q \in Runs : Busy(r) /\ Busy(q) => r = q

\* The stages that follow the choice between photos and none.
MediaStages == {"upload", "sizes", "quantity"}

\* After a death of the bot the quantity typed last may be missing; it is asked
\* for again.
AllButLast ==
  fsm.idx \in 1..Len(fsm.sizes) =>
    \A s \in Sizes : s # fsm.sizes[fsm.idx] => fsm.quantities[s] = typed.quantities[s]

\* Below f is the record, t what was typed, o the products owed to dialogues.
IdleBefore(todo, i, f) == IF i = 1 THEN f.stage = "idle" ELSE todo[i - 1] = Stage("idle")

\* A dialogue goes on only if it owes a product, and with what was typed.
StageWrite(todo, i, f, t, o) ==
  "stage" \in todo[i].of =>
    /\ todo[i].to.stage \in AddStages => o >= 1
    /\ todo[i].to.stage \in MediaStages =>
         /\ i = 1 \/ i = 2
         /\ IF i = 2 /\ "media" \in todo[1].of THEN todo[1].to.media = t.media
            ELSE f.media = t.media
    /\ todo[i].to.stage = "quantity" =>
         IF i = 2 /\ "quantities" \in todo[1].of THEN todo[1].to.quantities = t.quantities
         ELSE f.quantities = t.quantities

\* Photos and quantities are written as typed, or forgotten with the dialogue.
MediaWrite(todo, h, i, f, t) ==
  "media" \in todo[i].of =>
    \/ h = "media" /\ todo[i].to.media = t.media + 1
    \/ h # "media" /\ todo[i].of = Fields \ {"stage"} /\ IdleBefore(todo, i, f)
    \/ h # "media" /\ todo[i].of = {"media"} /\ i = 1 /\ f.stage = "ask"
QuantityWrite(todo, i, f, t) ==
  "quantities" \in todo[i].of =>
    \/ todo[i].to.quantities = t.quantities /\ i = 1
    \/ todo[i].of = Fields \ {"stage"} /\ IdleBefore(todo, i, f)

Lawful(todo, h, f, t, o) ==
  \A i \in 1..Len(todo) : /\ StageWrite(todo, i, f, t, o)
                          /\ MediaWrite(todo, h, i, f, t)
                          /\ QuantityWrite(todo, i, f, t)

Creating(L, f, t, o) ==
  L.h = "create" =>
    /\ o >= 1 /\ f.stage = "quantity"
    /\ L.pc = "redis" => /\ Len(L.todo) = 1 /\ L.todo[1].of = {"quantities"}
                         /\ L.todo[1].to.quantities = t.quantities
    /\ L.pc = "read" => f.quantities = t.quantities
    /\ L.pc = "commit" => L.data.media = t.media /\ L.data.quantities = t.quantities

Answering(L, f, t, o) ==
  /\ L.h = "media" /\ L.pc = "read" => f.stage = "upload"
  /\ L.h = "quantity" /\ L.pc = "read" => f.stage = "quantity"
  /\ L.h = "media" /\ L.pc = "redis" => Len(L.todo) = 1 /\ L.todo[1].of = {"media"}
  /\ Lawful(L.todo, L.h, f, t, o)
  /\ Creating(L, f, t, o)

\* A handler is about to end the dialogue.
Clearing == \E r \in Runs : run[r].todo # <<>> /\ run[r].todo[1] = Stage("idle")

Dialogue ==
  overlaps = 0 =>
    /\ fsm.stage \in MediaStages => fsm.media = typed.media
    /\ fsm.stage = "quantity" => AllButLast
    /\ credit + crashes >= 0
    /\ fsm.stage \in AddStages /\ ~Clearing => credit + crashes >= 1
    /\ \A r \in Runs : Answering(run[r], fsm, typed, credit + crashes)

\* The products that the newest message is not about.
Others == Live \ {screen.product}

\* A handler is about to make the record name another product, or to show it.
Turns(L) ==
  \/ L.pc = "redis" /\ "product" \in L.todo[1].of
  \/ L.pc = "card" /\ L.id # 0
Turning == \E r \in Runs : Turns(run[r])

\* A run that opens a card, and one that writes or commits.
Pointing(L, f, others, shown) ==
  /\ L.pc = "card" /\ L.id # 0 => f.product = L.id
  /\ L.pc = "redis" /\ L.card # "none" /\ L.id # 0 =>
       Len(L.todo) = 1 /\ "product" \in L.todo[1].of /\ L.todo[1].to.product = L.id
  /\ L.card = "none" \/ L.id = 0 =>
       \A i \in 1..Len(L.todo) : "product" \in L.todo[i].of => L.todo[i].to.product \notin others
  /\ L.pc = "commit" /\ L.h \in {"edit", "stock", "newBrand", "photo", "delete"} =>
       L.data.product \notin others
  /\ L.pc = "commit" /\ L.h = "photoDelete" => L.id \in shown

\* After a button of an older message the product to lose a photo is any.
Picked == IF strayed THEN Nat ELSE {screen.product}

Pointers ==
  overlaps = 0 /\ crashes = 0 =>
    /\ ~Turning => fsm.product \notin Others
    /\ \A r \in Runs : Pointing(run[r], fsm, Others, Picked)

Inv == Base /\ (\A p \in Live : Photos(p)) /\ Alone /\ Dialogue /\ Pointers

-----------------------------------------------------------------------------
(***************************************************************************)
(* What an input of the owner may begin.                                   *)
(***************************************************************************)

\* The products owed to dialogues after a step, where that can be said.
Debt == IF overlaps' = 0 THEN credit' + crashes ELSE 1

\* A handler that asks the database, or commits, first of all.
Asking(L, f) ==
  /\ L \in RunRecord /\ L.pc \in {"read", "commit"} /\ L.todo = <<>> /\ L.data = NoFields
  /\ L.card = "none" /\ L.next \notin AddStages /\ L.h # "create"
  /\ L.pc = "commit" => L.h \in {"group", "photoDelete"}
  /\ L.pc = "read" /\ L.h = "media" => f.stage = "upload"
  /\ L.pc = "read" /\ L.h = "quantity" => f.stage = "quantity"

\* Writes that an input begins with.
Writing(todo, f, t, o, n, others) ==
  /\ GoodWrites(todo, n) /\ todo # <<>>
  /\ overlaps' = 0 => Lawful(todo, "none", f, t, o)
  /\ \A i \in 1..Len(todo) : "product" \in todo[i].of => todo[i].to.product \notin others

\* An input as the invariant sees it.
Input(r) ==
  /\ run[r].pc = "idle" /\ run' = [run EXCEPT ![r] = run'[r]]
  /\ overlaps' = IF \E q \in Runs : run[q].pc # "idle" THEN overlaps + 1 ELSE overlaps
  /\ UNCHANGED <<db, fsm, outside, crashes>> /\ updates' \in Nat
  /\ \/ /\ UNCHANGED history /\ strayed' \in {TRUE, FALSE} /\ (strayed => strayed')
        /\ Asking(run'[r], fsm)
        /\ run'[r].pc = "commit" /\ run'[r].h = "photoDelete" => run'[r].id \in Picked'
     \/ /\ UNCHANGED <<history, strayed>>
        /\ \/ \E p \in 1..nextProduct - 1, card \in Cards \ {"none"} :
                run'[r] = Show(<<Field("product", p)>>, card, p)
           \/ \E card \in Cards \ {"none"} : run'[r] = Show(<<>>, card, 0)
     \/ /\ strayed' \in {TRUE, FALSE} /\ (strayed => strayed')
        /\ credit' \in {credit, credit + 1}
        /\ screen' \in [kind : {"none", "card", "warehouse", "confirm"}, product : 0..MaxProducts]
        /\ typed' \in [media : Nat, quantities : [Sizes -> Nat]]
        /\ typed' = typed \/ fsm.stage = "ask"
             \/ (fsm.stage = "sizes" /\ typed'.media = typed.media)
        /\ \E todo : /\ run'[r] = Finish(todo)
                     /\ Writing(todo, fsm, typed', Debt, nextProduct, Others')
                     /\ screen'.product \in {screen.product, fsm.product}
                          \/ "product" \in todo[1].of

LEMMA Begins ==
  ASSUME Base, NEW r \in Runs, NEW L \in RunRecord, NEW counts \in {0, 1}, Arrive(r, L, counts)
  PROVE  /\ run'[r] = L /\ run[r].pc = "idle" /\ run' = [run EXCEPT ![r] = run'[r]]
         /\ overlaps' = IF \E q \in Runs : run[q].pc # "idle" THEN overlaps + 1 ELSE overlaps
         /\ UNCHANGED <<db, fsm, outside, crashes>> /\ updates' \in Nat
<1>1. updates \in Nat /\ run \in [Runs -> RunRecord]
  BY DEF Base, TypeOK
<1>. QED
  BY <1>1 DEF Arrive, Become

LEMMA CountIsSmall == 1 \in {0, 1} /\ 0 \in {0, 1}
OBVIOUS

LEMMA BaseFacts ==
  ASSUME Base
  PROVE  /\ nextProduct \in Nat \ {0} /\ fsm \in FsmRecord /\ fsm.product < nextProduct
         /\ run \in [Runs -> RunRecord] /\ \A r \in Runs : Sound(run[r], nextProduct)
         /\ fsm.stage \in Stages /\ credit \in Int /\ crashes \in Nat /\ overlaps \in Nat
         /\ strayed \in {TRUE, FALSE} /\ updates \in Nat
         /\ typed \in [media : Nat, quantities : [Sizes -> Nat]]
         /\ screen \in [kind : {"none", "card", "warehouse", "confirm"}, product : 0..MaxProducts]
         /\ fsm.product \in Nat /\ nextProduct <= MaxProducts + 1
<1>1. fsm \in FsmRecord /\ fsm.product < nextProduct /\ nextProduct \in 1..MaxProducts + 1
  BY DEF Base, TypeOK, Past
<1>2. nextProduct \in Nat \ {0} /\ nextProduct <= MaxProducts + 1
  BY <1>1, Numbers
<1>3. fsm.stage \in Stages /\ fsm.product \in Nat
  BY <1>1 DEF FsmRecord
<1>4. strayed \in {TRUE, FALSE}
  BY DEF Base, TypeOK
<1>5. run \in [Runs -> RunRecord] /\ \A r \in Runs : Sound(run[r], nextProduct)
  BY DEF Base, TypeOK, Past
<1>6. /\ credit \in Int /\ crashes \in Nat /\ overlaps \in Nat /\ updates \in Nat
      /\ typed \in [media : Nat, quantities : [Sizes -> Nat]]
      /\ screen \in [kind : {"none", "card", "warehouse", "confirm"}, product : 0..MaxProducts]
  BY DEF Base, TypeOK
<1>. QED
  BY <1>1, <1>2, <1>3, <1>4, <1>5, <1>6

\* Questions.
LEMMA AskInput ==
  ASSUME Base, NEW r \in Runs, NEW L, NEW counts \in {0, 1}, Arrive(r, L, counts), Asking(L, fsm),
         UNCHANGED history, strayed' \in {TRUE, FALSE}, strayed => strayed',
         L.pc = "commit" /\ L.h = "photoDelete" => L.id \in Picked'
  PROVE  Input(r)
<1>1. L \in RunRecord
  BY DEF Asking
<1>. QED
  BY <1>1, Begins, ZenonT(60) DEF Input

LEMMA AskStep ==
  ASSUME Base, NEW r \in Runs, NEW stage, NEW L, Ask(r, stage, L),
         [L EXCEPT !.pc = "read"] \in RunRecord, L.todo = <<>>, L.data = NoFields, L.card = "none",
         L.next \notin AddStages, L.h # "create", L.h # "media",
         L.h = "quantity" => stage = "quantity", L.pc \in {"idle", "read"}
  PROVE  Input(r)
<1>. DEFINE K == [L EXCEPT !.pc = "read"]
<1>1. Asking(K, fsm)
  BY DEF Ask, At, Asking, RunRecord
<1>2. K.pc = "read"
  BY DEF RunRecord
<1>3. Arrive(r, K, 1) /\ UNCHANGED <<history, strayed>>
  BY DEF Ask, Begin, Calm
<1>. HIDE DEF K
<1>4. strayed' \in {TRUE, FALSE} /\ (strayed => strayed')
  BY <1>3, BaseFacts
<1>. QED
  BY <1>1, <1>2, <1>3, <1>4, AskInput, CountIsSmall

\* Writes that leave photos, quantities and the named product alone.
Mild(w, o) ==
  /\ "media" \notin w.of /\ "quantities" \notin w.of /\ "product" \notin w.of
  /\ "stage" \in w.of =>
       w.to.stage \notin MediaStages /\ (w.to.stage \in AddStages => o >= 1)

LEMMA MildStage ==
  ASSUME NEW s \in Stages, NEW o, s \notin MediaStages, s \in AddStages => o >= 1
  PROVE  Mild(Stage(s), o)
BY StageWritten DEF Mild

LEMMA MildField ==
  ASSUME NEW f \in Fields \ {"stage", "media", "quantities", "product"}, NEW v, NEW o,
         [NoFields EXCEPT ![f] = v] \in FsmRecord
  PROVE  Mild(Field(f, v), o)
BY FieldWritten DEF Mild

LEMMA LawfulMild ==
  ASSUME NEW a, NEW b, NEW h, NEW f, NEW t, NEW o, Mild(a, o), Mild(b, o)
  PROVE  Lawful(<<a>>, h, f, t, o) /\ Lawful(<<a, b>>, h, f, t, o)
BY DEF Lawful, StageWrite, MediaWrite, QuantityWrite, Mild, MediaStages

LEMMA LawfulNothing ==
  ASSUME NEW h, NEW f, NEW t, NEW o PROVE Lawful(<<>>, h, f, t, o)
BY DEF Lawful

\* The dialogue is forgotten.
LEMMA NoDataLawful ==
  ASSUME NEW todo, NEW i \in {2, 3}, todo[i] = NoData, todo[i - 1] = Stage("idle"),
         NEW h, h # "media", NEW f, NEW t, NEW o
  PROVE  /\ StageWrite(todo, i, f, t, o) /\ MediaWrite(todo, h, i, f, t)
         /\ QuantityWrite(todo, i, f, t)
<1>1. todo[i].of = Fields \ {"stage"} /\ IdleBefore(todo, i, f)
  BY NoDataIs DEF IdleBefore
<1>. QED
  BY <1>1 DEF StageWrite, MediaWrite, QuantityWrite

LEMMA MildLawful ==
  ASSUME NEW todo, NEW i \in Nat, NEW o, Mild(todo[i], o), NEW h, NEW f, NEW t
  PROVE  /\ StageWrite(todo, i, f, t, o) /\ MediaWrite(todo, h, i, f, t)
         /\ QuantityWrite(todo, i, f, t)
BY DEF StageWrite, MediaWrite, QuantityWrite, Mild, MediaStages

LEMMA MildIdle == ASSUME NEW o PROVE Mild(Stage("idle"), o)
BY MildStage DEF Stages, MediaStages, AddStages

LEMMA LawfulClears ==
  ASSUME NEW a, NEW h, h # "media", NEW f, NEW t, NEW o
  PROVE  /\ Lawful(Clear, h, f, t, o)
         /\ Mild(a, o) => Lawful(<<Stage("idle"), NoData, a>>, h, f, t, o)
         /\ Mild(a, o) => Lawful(<<a, Stage("idle"), NoData>>, h, f, t, o)
<1>1. Lawful(Clear, h, f, t, o)
  <2>. DEFINE todo == Clear
  <2>1. Len(todo) = 2 /\ todo[1] = Stage("idle") /\ todo[2] = NoData
    BY DEF Clear
  <2>. HIDE DEF todo
  <2>2. todo[2 - 1] = Stage("idle") /\ Mild(todo[1], o)
    BY <2>1, MildIdle
  <2>3. /\ StageWrite(todo, 1, f, t, o) /\ MediaWrite(todo, h, 1, f, t)
        /\ QuantityWrite(todo, 1, f, t)
    BY <2>2, MildLawful
  <2>4. /\ StageWrite(todo, 2, f, t, o) /\ MediaWrite(todo, h, 2, f, t)
        /\ QuantityWrite(todo, 2, f, t)
    BY <2>1, <2>2, NoDataLawful
  <2>5. Lawful(todo, h, f, t, o)
    BY <2>1, <2>3, <2>4 DEF Lawful
  <2>. QED
    BY <2>5 DEF todo
<1>2. ASSUME Mild(a, o) PROVE Lawful(<<Stage("idle"), NoData, a>>, h, f, t, o)
  <2>. DEFINE todo == <<Stage("idle"), NoData, a>>
  <2>1. Len(todo) = 3 /\ todo[1] = Stage("idle") /\ todo[2] = NoData /\ todo[3] = a
    OBVIOUS
  <2>. HIDE DEF todo
  <2>2. todo[2 - 1] = Stage("idle") /\ Mild(todo[1], o) /\ Mild(todo[3], o)
    BY <1>2, <2>1, MildIdle
  <2>3. \A i \in {1, 3} : /\ StageWrite(todo, i, f, t, o) /\ MediaWrite(todo, h, i, f, t)
                          /\ QuantityWrite(todo, i, f, t)
    BY <2>2, MildLawful
  <2>4. /\ StageWrite(todo, 2, f, t, o) /\ MediaWrite(todo, h, 2, f, t)
        /\ QuantityWrite(todo, 2, f, t)
    BY <2>1, <2>2, NoDataLawful
  <2>5. Lawful(todo, h, f, t, o)
    BY <2>1, <2>3, <2>4 DEF Lawful
  <2>. QED
    BY <2>5 DEF todo
<1>3. ASSUME Mild(a, o) PROVE Lawful(<<a, Stage("idle"), NoData>>, h, f, t, o)
  <2>. DEFINE todo == <<a, Stage("idle"), NoData>>
  <2>1. Len(todo) = 3 /\ todo[1] = a /\ todo[2] = Stage("idle") /\ todo[3] = NoData
    OBVIOUS
  <2>. HIDE DEF todo
  <2>2. todo[3 - 1] = Stage("idle") /\ Mild(todo[1], o) /\ Mild(todo[2], o)
    BY <1>3, <2>1, MildIdle
  <2>3. \A i \in {1, 2} : /\ StageWrite(todo, i, f, t, o) /\ MediaWrite(todo, h, i, f, t)
                          /\ QuantityWrite(todo, i, f, t)
    BY <2>2, MildLawful
  <2>4. /\ StageWrite(todo, 3, f, t, o) /\ MediaWrite(todo, h, 3, f, t)
        /\ QuantityWrite(todo, 3, f, t)
    BY <2>1, <2>2, NoDataLawful
  <2>5. Lawful(todo, h, f, t, o)
    BY <2>1, <2>3, <2>4 DEF Lawful
  <2>. QED
    BY <2>5 DEF todo
<1>. QED
  BY <1>1, <1>2, <1>3

Plain(w, n, o) == GoodWrite(w, n) /\ Mild(w, o)

LEMMA PlainStage ==
  ASSUME NEW s \in Stages, NEW o, NEW n \in Nat \ {0}, s \notin MediaStages, s \in AddStages => o >= 1
  PROVE  Plain(Stage(s), n, o)
BY GoodStage, MildStage DEF Plain

LEMMA PlainField ==
  ASSUME NEW f \in Fields \ {"stage", "media", "quantities", "product", "sizes", "idx"}, NEW v,
         NEW o, NEW n \in Nat \ {0}, [NoFields EXCEPT ![f] = v] \in FsmRecord
  PROVE  Plain(Field(f, v), n, o)
BY GoodField, MildField DEF Plain

LEMMA PlainWriting ==
  ASSUME NEW a, NEW b, NEW f, NEW t, NEW o, NEW n \in Nat \ {0}, NEW others, 0 \notin others,
         Plain(a, n, o)
  PROVE  /\ Writing(<<a>>, f, t, o, n, others)
         /\ Plain(b, n, o) => Writing(<<a, b>>, f, t, o, n, others)
         /\ Writing(Clear, f, t, o, n, others)
         /\ Writing(<<Stage("idle"), NoData, a>>, f, t, o, n, others)
         /\ Writing(<<a, Stage("idle"), NoData>>, f, t, o, n, others)
<1>1. /\ Mild(a, o) /\ GoodWrite(a, n) /\ GoodWrite(Stage("idle"), n) /\ GoodWrite(NoData, n)
      /\ Mild(Stage("idle"), o)
  BY GoodStage, GoodNoData, MildIdle DEF Plain, Stages
<1>2. /\ "product" \in NoData.of /\ NoData.to.product = 0
      /\ "product" \notin Stage("idle").of /\ "product" \notin a.of
  BY <1>1, NoDataIs, FieldsAre, NoFieldsType DEF Mild
<1>3. Writing(<<a>>, f, t, o, n, others)
  <2>1. GoodWrites(<<a>>, n) /\ Lawful(<<a>>, "none", f, t, o)
    BY <1>1, GoodTuples, LawfulMild
  <2>. QED
    BY <1>2, <2>1 DEF Writing
<1>4. ASSUME Plain(b, n, o) PROVE Writing(<<a, b>>, f, t, o, n, others)
  <2>1. GoodWrites(<<a, b>>, n) /\ Lawful(<<a, b>>, "none", f, t, o) /\ "product" \notin b.of
    BY <1>1, <1>4, GoodTuples, LawfulMild DEF Plain, Mild
  <2>. QED
    BY <1>2, <2>1 DEF Writing
<1>5. Writing(Clear, f, t, o, n, others)
  <2>1. GoodWrites(Clear, n) /\ Lawful(Clear, "none", f, t, o)
    BY <1>1, GoodTuples, LawfulClears DEF Clear
  <2>. QED
    BY <1>2, <2>1 DEF Writing, Clear
<1>6. Writing(<<Stage("idle"), NoData, a>>, f, t, o, n, others)
  <2>1. /\ GoodWrites(<<Stage("idle"), NoData, a>>, n)
        /\ Lawful(<<Stage("idle"), NoData, a>>, "none", f, t, o)
    BY <1>1, GoodTuples, LawfulClears
  <2>. QED
    BY <1>2, <2>1 DEF Writing
<1>7. Writing(<<a, Stage("idle"), NoData>>, f, t, o, n, others)
  <2>1. /\ GoodWrites(<<a, Stage("idle"), NoData>>, n)
        /\ Lawful(<<a, Stage("idle"), NoData>>, "none", f, t, o)
    BY <1>1, GoodTuples, LawfulClears
  <2>. QED
    BY <1>2, <2>1 DEF Writing
<1>. QED
  BY <1>3, <1>4, <1>5, <1>6, <1>7

LEMMA NoOthers == 0 \notin Others /\ 0 \notin Others'
BY DEF Others, Live

\* An input that begins to write, with the history it leaves.
LEMMA WriteInput ==
  ASSUME Base, NEW r \in Runs, NEW todo, NEW counts \in {0, 1}, Arrive(r, Finish(todo), counts),
         strayed' \in {TRUE, FALSE}, strayed => strayed', credit' \in {credit, credit + 1},
         screen' \in [kind : {"none", "card", "warehouse", "confirm"}, product : 0..MaxProducts],
         typed' \in [media : Nat, quantities : [Sizes -> Nat]],
         typed' = typed \/ fsm.stage = "ask" \/ (fsm.stage = "sizes" /\ typed'.media = typed.media),
         Writing(todo, fsm, typed', Debt, nextProduct, Others'),
         screen'.product \in {screen.product, fsm.product} \/ "product" \in todo[1].of
  PROVE  Input(r)
<1>1. todo \in Seq(Writes)
  BY DEF Writing, GoodWrites
<1>2. Finish(todo) \in RunRecord
  BY <1>1, FinishIs
<1>3. /\ run'[r] = Finish(todo) /\ run[r].pc = "idle" /\ run' = [run EXCEPT ![r] = run'[r]]
      /\ overlaps' = IF \E q \in Runs : run[q].pc # "idle" THEN overlaps + 1 ELSE overlaps
      /\ UNCHANGED <<db, fsm, outside, crashes>> /\ updates' \in Nat
  BY <1>2, Begins
<1>. QED
  BY <1>3 DEF Input

\* One that leaves the history alone, and one that may use an older button.
LEMMA PlainInput ==
  ASSUME Base, NEW r \in Runs, NEW todo, Begin(r, Finish(todo)), UNCHANGED history,
         strayed' \in {TRUE, FALSE}, strayed => strayed',
         Writing(todo, fsm, typed, Debt, nextProduct, Others')
  PROVE  Input(r)
<1>1. /\ typed' = typed /\ credit' = credit /\ screen' = screen
      /\ typed' \in [media : Nat, quantities : [Sizes -> Nat]]
      /\ screen' \in [kind : {"none", "card", "warehouse", "confirm"}, product : 0..MaxProducts]
  BY BaseFacts DEF history
<1>2. Arrive(r, Finish(todo), 1) /\ Writing(todo, fsm, typed', Debt, nextProduct, Others')
  BY <1>1 DEF Begin
<1>. QED
  BY <1>1, <1>2, WriteInput, CountIsSmall

LEMMA WriteIs ==
  ASSUME Base, NEW r \in Runs, NEW todo, Write(r, todo),
         Writing(todo, fsm, typed, Debt, nextProduct, Others')
  PROVE  Input(r)
<1>1. Begin(r, Finish(todo)) /\ UNCHANGED history /\ strayed' = strayed
  BY DEF Write, Calm
<1>2. strayed' \in {TRUE, FALSE} /\ (strayed => strayed')
  BY <1>1, BaseFacts
<1>. QED
  BY <1>1, <1>2, PlainInput

LEMMA StrayIs ==
  ASSUME Base, NEW kinds, Stray(kinds)
  PROVE  strayed' \in {TRUE, FALSE} /\ (strayed => strayed')
BY BaseFacts DEF Stray

LEMMA ButtonIs ==
  ASSUME Base, NEW r \in Runs, NEW kinds, NEW todo, Button(r, kinds, todo),
         Writing(todo, fsm, typed, Debt, nextProduct, Others')
  PROVE  Input(r)
<1>1. Begin(r, Finish(todo)) /\ UNCHANGED history /\ Stray(kinds)
  BY DEF Button
<1>. QED
  BY <1>1, StrayIs, PlainInput

\* A dialogue under way owes a product, unless it is about to be forgotten.
LEMMA StageOwed ==
  ASSUME Base, Dialogue, NEW r \in Runs, NEW L, NEW counts, Arrive(r, L, counts),
         credit' \in {credit, credit + 1}, fsm.stage \in AddStages
  PROVE  Debt >= 1
<1>1. CASE overlaps' = 0
  <2>1. overlaps = 0 /\ \A q \in Runs : run[q].pc = "idle"
    BY <1>1, BaseFacts DEF Arrive
  <2>2. \A q \in Runs : run[q] = NoRun
    BY <2>1, BaseFacts DEF Sound
  <2>3. ~Clearing
    BY <2>2, NoRunFields DEF Clearing
  <2>. QED
    BY <1>1, <2>1, <2>3, BaseFacts DEF Dialogue, Debt
<1>. QED
  BY <1>1 DEF Debt

\* A new dialogue owes one.
LEMMA StartOwed ==
  ASSUME Base, Dialogue, NEW r \in Runs, NEW L, NEW counts, Arrive(r, L, counts),
         credit' = credit + 1
  PROVE  Debt >= 1
<1>1. CASE overlaps' = 0
  <2>1. overlaps = 0
    BY <1>1, BaseFacts DEF Arrive
  <2>. QED
    BY <1>1, <2>1, BaseFacts DEF Dialogue, Debt
<1>. QED
  BY <1>1 DEF Debt

LEMMA GroupField ==
  ASSUME Base, NEW kind \in Kinds, NEW c \in 1..nextId[kind] - 1, NEW o
  PROVE  Plain(Field(kind, c), nextProduct, o)
<1>1. c \in 0..MaxIds
  BY Numbers DEF Base, TypeOK
<1>2. [NoFields EXCEPT !["category"] = c] \in FsmRecord /\ [NoFields EXCEPT !["brand"] = c] \in FsmRecord
  BY <1>1, NoFieldsType DEF FsmRecord
<1>3. {"category", "brand"} \subseteq Fields \ {"stage", "media", "quantities", "product", "sizes", "idx"}
  BY FieldsAre
<1>. QED
  BY <1>2, <1>3, PlainField, BaseFacts DEF Kinds

\* The stages outside the dialogue that makes a product.
LEMMA OtherStages ==
  /\ Stages \cap AddStages = AddStages /\ AddStages \subseteq Stages /\ "idle" \in Stages
  /\ {"addCategory", "addBrand"} \cup EditStages \cup DeleteStages \subseteq Stages
  /\ ({"idle", "addCategory", "addBrand"} \cup EditStages \cup DeleteStages) \cap AddStages = {}
  /\ MediaStages \subseteq AddStages
BY DEF Stages, AddStages, EditStages, DeleteStages, MediaStages

LEMMA CalmStage ==
  ASSUME Base, NEW s \in {"idle", "addCategory", "addBrand"} \cup EditStages \cup DeleteStages, NEW o
  PROVE  Plain(Stage(s), nextProduct, o)
BY OtherStages, PlainStage, BaseFacts

LEMMA OpenStage ==
  ASSUME Base, NEW s \in {"category", "brand", "name", "purchase", "sale", "ask"}, NEW o, o >= 1
  PROVE  Plain(Stage(s), nextProduct, o)
<1>1. s \in Stages /\ s \notin MediaStages
  BY DEF Stages, AddStages, MediaStages
<1>. QED
  BY <1>1, PlainStage, BaseFacts

LEMMA StartCategoryInput == ASSUME Base, NEW r \in Runs, StartCategory(r) PROVE Input(r)
<1>. DEFINE W(t) == Writing(t, fsm, typed, Debt, nextProduct, Others')
<1>1. W(Restart("addCategory")) /\ W(<<Stage("addCategory")>>)
  BY CalmStage, PlainWriting, NoOthers, BaseFacts DEF Restart
<1>. HIDE DEF W
<1>2. W(IF At("addBrand") THEN Restart("addCategory") ELSE <<Stage("addCategory")>>)
  BY <1>1
<1>. QED
  BY <1>2, WriteIs DEF W, StartCategory

LEMMA StartBrandInput == ASSUME Base, NEW r \in Runs, StartBrand(r) PROVE Input(r)
<1>. DEFINE W(t) == Writing(t, fsm, typed, Debt, nextProduct, Others')
<1>1. W(Restart("addBrand")) /\ W(<<Stage("addBrand")>>)
  BY CalmStage, PlainWriting, NoOthers, BaseFacts DEF Restart
<1>. HIDE DEF W
<1>2. W(IF At("addCategory") THEN Restart("addBrand") ELSE <<Stage("addBrand")>>)
  BY <1>1
<1>. QED
  BY <1>2, WriteIs DEF W, StartBrand

LEMMA TypeGroupInput ==
  ASSUME Base, NEW r \in Runs, NEW kind \in Kinds, NEW stage, TypeGroup(r, kind, stage)
  PROVE  Input(r)
<1>1. PICK n \in Names :
        Begin(r, [NoRun EXCEPT !.pc = "commit", !.h = "group", !.kind = kind, !.name = n,
                           !.id = groups[kind][n]]) /\ Calm
  BY DEF TypeGroup
<1>. DEFINE L == [NoRun EXCEPT !.pc = "commit", !.h = "group", !.kind = kind, !.name = n,
                           !.id = groups[kind][n]]
<1>2. groups[kind][n] \in Nat
  BY Numbers DEF Base, TypeOK
<1>3. L \in RunRecord /\ L.pc = "commit" /\ L.h = "group"
  BY <1>2, NoRunType DEF RunRecord, Handlers
<1>4. Asking(L, fsm)
  BY <1>3, NoRunFields DEF Asking, NoRun, AddStages
<1>5. strayed' \in {TRUE, FALSE} /\ (strayed => strayed') /\ UNCHANGED history
  BY <1>1, BaseFacts DEF Calm
<1>6. Arrive(r, L, 1)
  BY <1>1 DEF Begin
<1>. HIDE DEF L
<1>. QED
  BY <1>3, <1>4, <1>5, <1>6, AskInput, CountIsSmall

LEMMA StartProductInput == ASSUME Base, Dialogue, NEW r \in Runs, StartProduct(r) PROVE Input(r)
<1>1. /\ Arrive(r, Finish(Restart("category")), 1) /\ credit' = credit + 1
      /\ screen' = screen /\ typed' = typed /\ strayed' = strayed
  BY DEF StartProduct, Begin
<1>2. Debt >= 1
  BY <1>1, StartOwed
<1>3. Writing(Restart("category"), fsm, typed', Debt, nextProduct, Others')
  BY <1>2, OpenStage, PlainWriting, NoOthers, BaseFacts DEF Restart
<1>4. strayed' \in {TRUE, FALSE} /\ (strayed => strayed')
  BY <1>1, BaseFacts
<1>. QED
  BY <1>1, <1>3, <1>4, WriteInput, CountIsSmall, BaseFacts

LEMMA ChooseCategoryInput == ASSUME Base, Dialogue, NEW r \in Runs, ChooseCategory(r) PROVE Input(r)
<1>. DEFINE W(t) == Writing(t, fsm, typed, Debt, nextProduct, Others')
<1>1. PICK c \in 1..nextId["category"] - 1 :
        /\ At("category")
        /\ Write(r, IF Ids("brand") = {} THEN <<Field("category", c), Stage("idle"), NoData>>
                    ELSE <<Field("category", c), Stage("brand")>>)
  BY DEF ChooseCategory
<1>2. Debt >= 1
  BY <1>1, StageOwed DEF At, AddStages, Write, Begin, Calm, history
<1>3. W(<<Field("category", c), Stage("idle"), NoData>>) /\ W(<<Field("category", c), Stage("brand")>>)
  BY <1>2, OpenStage, GroupField, PlainWriting, NoOthers, BaseFacts DEF Kinds
<1>. HIDE DEF W
<1>4. W(IF Ids("brand") = {} THEN <<Field("category", c), Stage("idle"), NoData>>
        ELSE <<Field("category", c), Stage("brand")>>)
  BY <1>3
<1>. QED
  BY <1>1, <1>4, WriteIs DEF W

LEMMA ChooseBrandInput == ASSUME Base, Dialogue, NEW r \in Runs, ChooseBrand(r) PROVE Input(r)
<1>1. PICK b \in 1..nextId["brand"] - 1 :
        At("brand") /\ Write(r, <<Field("brand", b), Stage("name")>>)
  BY DEF ChooseBrand
<1>2. Debt >= 1
  BY <1>1, StageOwed DEF At, AddStages, Write, Begin, Calm, history
<1>3. Writing(<<Field("brand", b), Stage("name")>>, fsm, typed, Debt, nextProduct, Others')
  BY <1>2, OpenStage, GroupField, PlainWriting, NoOthers, BaseFacts DEF Kinds
<1>. QED
  BY <1>1, <1>3, WriteIs

LEMMA EnterFactInput ==
  ASSUME Base, Dialogue, NEW r \in Runs, NEW fact \in Facts, NEW next \in {"purchase", "sale", "ask"},
         EnterFact(r, fact, next)
  PROVE  Input(r)
<1>1. At(fact) /\ Write(r, <<Field("facts", fsm.facts \cup {fact}), Stage(next)>>)
  BY DEF EnterFact
<1>2. Debt >= 1
  BY <1>1, StageOwed DEF At, AddStages, Facts, Write, Begin, Calm, history
<1>3. [NoFields EXCEPT !["facts"] = fsm.facts \cup {fact}] \in FsmRecord
  BY NoFieldsType, BaseFacts DEF FsmRecord
<1>4. Plain(Field("facts", fsm.facts \cup {fact}), nextProduct, Debt)
  BY <1>3, PlainField, FieldsAre, BaseFacts
<1>5. Writing(<<Field("facts", fsm.facts \cup {fact}), Stage(next)>>, fsm, typed, Debt, nextProduct, Others')
  BY <1>2, <1>4, OpenStage, PlainWriting, NoOthers, BaseFacts
<1>. QED
  BY <1>1, <1>5, WriteIs

LEMMA CancelInput == ASSUME Base, NEW r \in Runs, Cancel(r) PROVE Input(r)
<1>1. Writing(Clear, fsm, typed, Debt, nextProduct, Others')
  BY CalmStage, PlainWriting, NoOthers, BaseFacts
<1>. QED
  BY <1>1, WriteIs DEF Cancel

\* An owner who waits has been answered what the record holds.
LEMMA StageMedia ==
  ASSUME Base, Dialogue, NEW r \in Runs, NEW L, NEW counts, Arrive(r, L, counts),
         fsm.stage \in MediaStages, overlaps' = 0
  PROVE  fsm.media = typed.media
<1>1. overlaps = 0
  BY BaseFacts DEF Arrive
<1>. QED
  BY <1>1 DEF Dialogue

LEMMA NewMediaInput ==
  ASSUME Base, Dialogue, NEW r \in Runs, NEW stage \in {"upload", "sizes"}, NewMedia(r, stage)
  PROVE  Input(r)
<1>. DEFINE a == Field("media", 0)
            b == Stage(stage)
            todo == <<a, b>>
<1>1. /\ fsm.stage = "ask" /\ Arrive(r, Finish(todo), 1) /\ typed' = [typed EXCEPT !.media = 0]
      /\ screen' = screen /\ credit' = credit /\ strayed' = strayed
  BY DEF NewMedia, Begin, At
<1>2. typed' \in [media : Nat, quantities : [Sizes -> Nat]] /\ typed'.media = 0
  BY <1>1, BaseFacts
<1>3. Debt >= 1
  BY <1>1, StageOwed DEF AddStages
<1>4. [NoFields EXCEPT !["media"] = 0] \in FsmRecord /\ "media" \in Fields \ {"stage", "sizes", "idx"}
  BY NoFieldsType, FieldsAre, Numbers DEF FsmRecord
<1>5. a.of = {"media"} /\ a.to["media"] = 0 /\ GoodWrite(a, nextProduct)
  BY <1>4, FieldWritten, GoodField, BaseFacts
<1>6. b.of = {"stage"} /\ b.to.stage = stage /\ GoodWrite(b, nextProduct)
  BY StageWritten, GoodStage, BaseFacts DEF Stages, AddStages
<1>7. todo[1] = a /\ todo[2] = b /\ Len(todo) = 2 /\ todo # <<>>
  OBVIOUS
<1>8. GoodWrites(todo, nextProduct)
  BY <1>5, <1>6, GoodTuples
<1>. HIDE DEF a, b, todo
<1>9. Lawful(todo, "none", fsm, typed', Debt)
  <2>1. /\ StageWrite(todo, 1, fsm, typed', Debt) /\ MediaWrite(todo, "none", 1, fsm, typed')
        /\ QuantityWrite(todo, 1, fsm, typed')
    BY <1>1, <1>5, <1>7 DEF StageWrite, MediaWrite, QuantityWrite
  <2>2. /\ StageWrite(todo, 2, fsm, typed', Debt) /\ MediaWrite(todo, "none", 2, fsm, typed')
        /\ QuantityWrite(todo, 2, fsm, typed')
    BY <1>2, <1>3, <1>5, <1>6, <1>7 DEF StageWrite, MediaWrite, QuantityWrite
  <2>. QED
    BY <2>1, <2>2, <1>7 DEF Lawful
<1>10. Writing(todo, fsm, typed', Debt, nextProduct, Others')
  BY <1>5, <1>6, <1>7, <1>8, <1>9 DEF Writing
<1>11. strayed' \in {TRUE, FALSE} /\ (strayed => strayed')
  BY <1>1, BaseFacts
<1>12. /\ credit' \in {credit, credit + 1} /\ screen'.product \in {screen.product, fsm.product}
       /\ screen' \in [kind : {"none", "card", "warehouse", "confirm"}, product : 0..MaxProducts]
  BY <1>1, BaseFacts
<1>13. Arrive(r, Finish(todo), 1)
  BY <1>1
<1>14. typed' = typed \/ fsm.stage = "ask" \/ (fsm.stage = "sizes" /\ typed'.media = typed.media)
  BY <1>1
<1>. QED
  BY <1>2, <1>10, <1>11, <1>12, <1>13, <1>14, WriteInput, CountIsSmall

LEMMA UploadInput == ASSUME Base, NEW r \in Runs, Upload(r) PROVE Input(r)
<1>. DEFINE L == [NoRun EXCEPT !.pc = "read", !.h = "media"]
<1>1. fsm.stage = "upload" /\ Arrive(r, L, 0) /\ UNCHANGED <<history, strayed>>
  BY DEF Upload, At, Calm
<1>2. L \in RunRecord /\ L.pc = "read" /\ L.h = "media"
  BY NoRunType DEF RunRecord, Handlers
<1>3. Asking(L, fsm)
  BY <1>1, <1>2, NoRunFields DEF Asking, NoRun, AddStages
<1>4. strayed' \in {TRUE, FALSE} /\ (strayed => strayed')
  BY <1>1, BaseFacts
<1>. HIDE DEF L
<1>. QED
  BY <1>1, <1>2, <1>3, <1>4, AskInput, CountIsSmall

LEMMA PhotosDoneInput == ASSUME Base, Dialogue, NEW r \in Runs, PhotosDone(r) PROVE Input(r)
<1>. DEFINE b == Stage("sizes")
            todo == <<b>>
<1>1. fsm.stage = "upload" /\ Arrive(r, Finish(todo), 0) /\ UNCHANGED <<history, strayed>>
  BY DEF PhotosDone, At, Calm
<1>2. Debt >= 1
  BY <1>1, StageOwed DEF AddStages, history
<1>3. overlaps' = 0 => fsm.media = typed.media
  BY <1>1, StageMedia DEF MediaStages
<1>4. b.of = {"stage"} /\ b.to.stage = "sizes" /\ GoodWrite(b, nextProduct)
  BY StageWritten, GoodStage, BaseFacts DEF Stages, AddStages
<1>5. todo[1] = b /\ Len(todo) = 1 /\ todo # <<>>
  OBVIOUS
<1>6. GoodWrites(todo, nextProduct)
  BY <1>4, GoodTuples
<1>7. /\ typed' = typed /\ credit' = credit /\ screen' = screen /\ strayed' = strayed
      /\ strayed' \in {TRUE, FALSE} /\ (strayed => strayed')
  BY <1>1, BaseFacts DEF history
<1>. HIDE DEF b, todo
<1>8. overlaps' = 0 => Lawful(todo, "none", fsm, typed', Debt)
  BY <1>2, <1>3, <1>4, <1>5, <1>7 DEF Lawful, StageWrite, MediaWrite, QuantityWrite
<1>9. Writing(todo, fsm, typed', Debt, nextProduct, Others')
  BY <1>4, <1>5, <1>6, <1>8 DEF Writing
<1>. QED
  BY <1>1, <1>7, <1>9, WriteInput, CountIsSmall, BaseFacts

LEMMA EnterSizesInput == ASSUME Base, Dialogue, NEW r \in Runs, EnterSizes(r) PROVE Input(r)
<1>1. PICK l \in SizeLists :
        /\ At("sizes")
        /\ Begin(r, Finish(<<Set({"sizes", "quantities", "idx"}, [NoFields EXCEPT !.sizes = l]),
                             Stage("quantity")>>))
        /\ typed' = [typed EXCEPT !.quantities = NoFields.quantities]
        /\ UNCHANGED <<screen, credit, strayed>>
  BY DEF EnterSizes
<1>. DEFINE v == [NoFields EXCEPT !.sizes = l]
            a == Set({"sizes", "quantities", "idx"}, v)
            b == Stage("quantity")
            todo == <<a, b>>
<1>2. fsm.stage = "sizes" /\ Arrive(r, Finish(todo), 1)
  BY <1>1 DEF At, Begin
<1>3. /\ typed' \in [media : Nat, quantities : [Sizes -> Nat]]
      /\ typed'.quantities = NoFields.quantities /\ typed'.media = typed.media
  BY <1>1, NoFieldsType, BaseFacts
<1>4. v \in FsmRecord /\ v.quantities = NoFields.quantities /\ v.product = 0
  BY NoFieldsType, OwnerAssumption DEF FsmRecord
<1>5. a.of = {"sizes", "quantities", "idx"} /\ a.to = v /\ a \in Writes
  BY <1>4, FieldsAre, SetWrite
<1>6. GoodWrite(a, nextProduct)
  <2>. HIDE DEF a, v
  <2>. QED
    BY <1>4, <1>5, BaseFacts DEF GoodWrite
<1>7. b.of = {"stage"} /\ b.to.stage = "quantity" /\ GoodWrite(b, nextProduct)
  BY StageWritten, GoodStage, BaseFacts DEF Stages, AddStages
<1>8. todo[1] = a /\ todo[2] = b /\ Len(todo) = 2 /\ todo # <<>>
  OBVIOUS
<1>9. GoodWrites(todo, nextProduct)
  BY <1>6, <1>7, GoodTuples
<1>. HIDE DEF a, b, todo, v
<1>10. Debt >= 1
  BY <1>1, <1>2, StageOwed DEF AddStages
<1>11. overlaps' = 0 => fsm.media = typed.media
  BY <1>2, StageMedia DEF MediaStages
<1>12. overlaps' = 0 => Lawful(todo, "none", fsm, typed', Debt)
  <2>. SUFFICES ASSUME overlaps' = 0 PROVE Lawful(todo, "none", fsm, typed', Debt)
    OBVIOUS
  <2>1. /\ StageWrite(todo, 1, fsm, typed', Debt) /\ MediaWrite(todo, "none", 1, fsm, typed')
        /\ QuantityWrite(todo, 1, fsm, typed')
    BY <1>3, <1>4, <1>5, <1>8 DEF StageWrite, MediaWrite, QuantityWrite
  <2>2. /\ StageWrite(todo, 2, fsm, typed', Debt) /\ MediaWrite(todo, "none", 2, fsm, typed')
        /\ QuantityWrite(todo, 2, fsm, typed')
    BY <1>3, <1>4, <1>5, <1>7, <1>8, <1>10, <1>11 DEF StageWrite, MediaWrite, QuantityWrite
  <2>. QED
    BY <2>1, <2>2, <1>8 DEF Lawful
<1>13. Writing(todo, fsm, typed', Debt, nextProduct, Others')
  BY <1>5, <1>7, <1>8, <1>9, <1>12 DEF Writing
<1>14. strayed' \in {TRUE, FALSE} /\ (strayed => strayed')
  BY <1>1, BaseFacts
<1>. QED
  BY <1>1, <1>2, <1>3, <1>13, <1>14, WriteInput, CountIsSmall, BaseFacts

LEMMA EnterQuantityInput == ASSUME Base, NEW r \in Runs, EnterQuantity(r) PROVE Input(r)
<1>1. PICK q \in Quantities : Ask(r, "quantity", [NoRun EXCEPT !.h = "quantity", !.qty = q])
  BY DEF EnterQuantity
<1>. DEFINE L == [NoRun EXCEPT !.h = "quantity", !.qty = q]
<1>2. [L EXCEPT !.pc = "read"] \in RunRecord
  BY NoRunType DEF RunRecord, Handlers
<1>3. /\ L.todo = <<>> /\ L.data = NoFields /\ L.card = "none" /\ L.next \notin AddStages
      /\ L.h = "quantity" /\ L.pc = "idle"
  BY NoRunFields DEF NoRun, AddStages
<1>4. Ask(r, "quantity", L)
  BY <1>1
<1>. HIDE DEF L
<1>. QED
  BY <1>2, <1>3, <1>4, AskStep

LEMMA AddingInput == ASSUME Base, Dialogue, NEW r \in Runs, Adding(r) PROVE Input(r)
<1>1. ASSUME TypeCategory(r) PROVE Input(r)
  BY <1>1, TypeGroupInput DEF TypeCategory, Kinds
<1>2. ASSUME TypeBrand(r) PROVE Input(r)
  BY <1>2, TypeGroupInput DEF TypeBrand, Kinds
<1>3. ASSUME EnterName(r) \/ EnterPurchase(r) \/ EnterSale(r) PROVE Input(r)
  BY <1>3, EnterFactInput DEF EnterName, EnterPurchase, EnterSale, Facts
<1>4. ASSUME PhotosYes(r) \/ PhotosSkip(r) PROVE Input(r)
  BY <1>4, NewMediaInput DEF PhotosYes, PhotosSkip
<1>. QED
  BY <1>1, <1>2, <1>3, <1>4, StartCategoryInput, StartBrandInput, StartProductInput,
     ChooseCategoryInput, ChooseBrandInput, UploadInput, PhotosDoneInput, EnterSizesInput,
     EnterQuantityInput, CancelInput DEF Adding

\* The dialogues that edit and delete begin anew, go one stage on, or ask.
LEMMA RestartInput ==
  ASSUME Base, NEW r \in Runs, NEW s \in EditStages \cup DeleteStages, Write(r, Restart(s))
  PROVE  Input(r)
<1>1. Writing(Restart(s), fsm, typed, Debt, nextProduct, Others')
  BY CalmStage, PlainWriting, NoOthers, BaseFacts DEF Restart
<1>. QED
  BY <1>1, WriteIs

LEMMA GroupInput ==
  ASSUME Base, NEW r \in Runs, NEW kind \in Kinds, NEW c \in 1..nextId[kind] - 1,
         NEW s \in EditStages \cup DeleteStages,
         Write(r, <<Field(kind, c), Stage(s)>>) \/ Write(r, <<Field(kind, c)>>)
  PROVE  Input(r)
<1>1. Plain(Field(kind, c), nextProduct, Debt) /\ Plain(Stage(s), nextProduct, Debt)
  BY CalmStage, GroupField
<1>2. /\ Writing(<<Field(kind, c), Stage(s)>>, fsm, typed, Debt, nextProduct, Others')
      /\ Writing(<<Field(kind, c)>>, fsm, typed, Debt, nextProduct, Others')
  BY <1>1, PlainWriting, NoOthers, BaseFacts
<1>. QED
  BY <1>2, WriteIs

LEMMA StageButton ==
  ASSUME Base, NEW r \in Runs, NEW kinds, NEW s \in EditStages, Button(r, kinds, <<Stage(s)>>)
  PROVE  Input(r)
<1>1. Writing(<<Stage(s)>>, fsm, typed, Debt, nextProduct, Others')
  BY CalmStage, PlainWriting, NoOthers, BaseFacts
<1>. QED
  BY <1>1, ButtonIs

LEMMA SizeButton ==
  ASSUME Base, NEW r \in Runs, NEW kinds, NEW x \in Sizes \cup {NoSize},
         Button(r, kinds, <<Field("size", x), Stage("stock")>>)
  PROVE  Input(r)
<1>1. [NoFields EXCEPT !["size"] = x] \in FsmRecord
  BY NoFieldsType DEF FsmRecord
<1>2. Plain(Field("size", x), nextProduct, Debt) /\ Plain(Stage("stock"), nextProduct, Debt)
  BY <1>1, FieldsAre, PlainField, CalmStage, BaseFacts DEF EditStages
<1>3. Writing(<<Field("size", x), Stage("stock")>>, fsm, typed, Debt, nextProduct, Others')
  BY <1>2, PlainWriting, NoOthers, BaseFacts
<1>. QED
  BY <1>3, ButtonIs

LEMMA ListProductsInput ==
  ASSUME Base, NEW r \in Runs, NEW stage, NEW next \in EditStages \cup DeleteStages,
         ListProducts(r, stage, next)
  PROVE  Input(r)
<1>1. PICK b \in 1..nextId["brand"] - 1 :
        Ask(r, stage, [NoRun EXCEPT !.h = "list", !.id = b, !.next = next])
  BY DEF ListProducts
<1>. DEFINE L == [NoRun EXCEPT !.h = "list", !.id = b, !.next = next]
<1>2. next \in Stages /\ next \notin AddStages /\ b \in Nat
  BY OtherStages
<1>3. [L EXCEPT !.pc = "read"] \in RunRecord
  BY <1>2, NoRunType DEF RunRecord, Handlers
<1>4. /\ L.todo = <<>> /\ L.data = NoFields /\ L.card = "none" /\ L.next = next
      /\ L.h = "list" /\ L.pc = "idle"
  BY DEF NoRun
<1>5. Ask(r, stage, L)
  BY <1>1
<1>. HIDE DEF L
<1>. QED
  BY <1>2, <1>3, <1>4, <1>5, AskStep

\* Cards.
LEMMA OpenInput ==
  ASSUME Base, NEW r \in Runs, NEW p \in 1..nextProduct - 1, NEW card \in Cards \ {"none"},
         Begin(r, Show(<<Field("product", p)>>, card, p)), Calm
  PROVE  Input(r)
<1>1. p \in 0..MaxProducts /\ p \in Nat /\ p < nextProduct
  BY BaseFacts, Numbers
<1>2. [NoFields EXCEPT !["product"] = p] \in FsmRecord /\ "product" \in Fields \ {"stage", "sizes", "idx"}
  BY <1>1, NoFieldsType, FieldsAre DEF FsmRecord
<1>3. GoodWrite(Field("product", p), nextProduct)
  BY <1>1, <1>2, GoodField, BaseFacts
<1>4. <<Field("product", p)>> \in Seq(Writes)
  BY <1>3, GoodTuples DEF GoodWrites
<1>5. Show(<<Field("product", p)>>, card, p) \in RunRecord
  BY <1>1, <1>4, ShowIs
<1>6. Arrive(r, Show(<<Field("product", p)>>, card, p), 1) /\ UNCHANGED <<history, strayed>>
  BY DEF Begin, Calm
<1>7. /\ run'[r] = Show(<<Field("product", p)>>, card, p) /\ run[r].pc = "idle"
      /\ run' = [run EXCEPT ![r] = run'[r]]
      /\ overlaps' = IF \E q \in Runs : run[q].pc # "idle" THEN overlaps + 1 ELSE overlaps
      /\ UNCHANGED <<db, fsm, outside, crashes>> /\ updates' \in Nat
  BY <1>5, <1>6, Begins, CountIsSmall
<1>. QED
  BY <1>6, <1>7 DEF Input

LEMMA ViewInput ==
  ASSUME Base, NEW r \in Runs, NEW card \in Cards \ {"none"}, Begin(r, Show(<<>>, card, 0)), Calm
  PROVE  Input(r)
<1>1. <<>> \in Seq(Writes) /\ 0 \in Nat
  OBVIOUS
<1>2. Show(<<>>, card, 0) \in RunRecord
  BY <1>1, ShowIs
<1>3. Arrive(r, Show(<<>>, card, 0), 1) /\ UNCHANGED <<history, strayed>>
  BY DEF Begin, Calm
<1>4. /\ run'[r] = Show(<<>>, card, 0) /\ run[r].pc = "idle"
      /\ run' = [run EXCEPT ![r] = run'[r]]
      /\ overlaps' = IF \E q \in Runs : run[q].pc # "idle" THEN overlaps + 1 ELSE overlaps
      /\ UNCHANGED <<db, fsm, outside, crashes>> /\ updates' \in Nat
  BY <1>2, <1>3, Begins, CountIsSmall
<1>. QED
  BY <1>3, <1>4 DEF Input

LEMMA ListInput == ASSUME Base, NEW r \in Runs, NEW s \in EditStages, List(r, s) PROVE Input(r)
<1>1. /\ Arrive(r, Finish(<<Stage(s)>>), 1) /\ Stray({"card"})
      /\ screen' = [kind |-> "card", product |-> fsm.product]
      /\ typed' = typed /\ credit' = credit
  BY DEF List, Begin
<1>2. Writing(<<Stage(s)>>, fsm, typed', Debt, nextProduct, Others')
  BY CalmStage, PlainWriting, NoOthers, BaseFacts
<1>3. fsm.product \in 0..MaxProducts
  BY BaseFacts DEF FsmRecord
<1>4. /\ screen' \in [kind : {"none", "card", "warehouse", "confirm"}, product : 0..MaxProducts]
      /\ screen'.product \in {screen.product, fsm.product} /\ credit' \in {credit, credit + 1}
      /\ typed' \in [media : Nat, quantities : [Sizes -> Nat]]
  BY <1>1, <1>3, BaseFacts
<1>5. strayed' \in {TRUE, FALSE} /\ (strayed => strayed')
  BY <1>1, StrayIs
<1>. QED
  BY <1>1, <1>2, <1>4, <1>5, WriteInput, CountIsSmall

LEMMA PressPhotoDeleteInput == ASSUME Base, NEW r \in Runs, PressPhotoDelete(r) PROVE Input(r)
<1>1. PICK p \in Live :
        /\ Begin(r, [NoRun EXCEPT !.pc = "commit", !.h = "photoDelete", !.id = p])
        /\ strayed' = (strayed \/ screen # [kind |-> "card", product |-> p])
        /\ UNCHANGED history
  BY DEF PressPhotoDelete
<1>. DEFINE L == [NoRun EXCEPT !.pc = "commit", !.h = "photoDelete", !.id = p]
<1>2. p \in Nat
  BY DEF Live
<1>3. L \in RunRecord /\ L.pc = "commit" /\ L.h = "photoDelete" /\ L.id = p
  BY <1>2, NoRunType DEF RunRecord, Handlers
<1>4. Asking(L, fsm)
  BY <1>3, NoRunFields DEF Asking, NoRun, AddStages
<1>5. strayed' \in {TRUE, FALSE} /\ (strayed => strayed')
  BY <1>1, BaseFacts
<1>6. ~strayed' => p = screen'.product
  <2>1. ~strayed' => screen = [kind |-> "card", product |-> p]
    BY <1>1
  <2>2. screen' = screen
    BY <1>1 DEF history
  <2>. QED
    BY <2>1, <2>2
<1>7. p \in Picked'
  BY <1>2, <1>5, <1>6 DEF Picked
<1>8. Arrive(r, L, 1) /\ UNCHANGED history
  BY <1>1 DEF Begin
<1>. HIDE DEF L
<1>. QED
  BY <1>3, <1>4, <1>5, <1>7, <1>8, AskInput, CountIsSmall

\* Texts and photos, and confirmations.
Question(L) ==
  /\ L \in RunRecord /\ L.pc = "idle" /\ L.todo = <<>> /\ L.data = NoFields /\ L.card = "none"
  /\ L.next \notin AddStages /\ L.h \notin {"create", "media", "quantity"}

LEMMA QuestionInput ==
  ASSUME Base, NEW r \in Runs, NEW stage, NEW L, Question(L), Ask(r, stage, L)
  PROVE  Input(r)
<1>1. [L EXCEPT !.pc = "read"] \in RunRecord
  BY DEF Question, RunRecord
<1>. QED
  BY <1>1, AskStep DEF Question

LEMMA TextInput ==
  ASSUME Base, NEW r \in Runs,
         \/ TypePrice(r) \/ TypeDescription(r) \/ SendPhoto(r) \/ TypeNewBrand(r) \/ TypeStock(r)
         \/ ConfirmCategory(r) \/ ConfirmBrand(r)
  PROVE  Input(r)
<1>1. CASE TypePrice(r) \/ TypeDescription(r)
  <2>1. [NoRun EXCEPT !.h = "edit"] \in RunRecord
    BY NoRunType DEF RunRecord, Handlers
  <2>2. Question([NoRun EXCEPT !.h = "edit"])
    BY <2>1 DEF Question, NoRun, AddStages
  <2>. QED
    BY <1>1, <2>2, QuestionInput DEF TypePrice, TypeDescription
<1>2. CASE SendPhoto(r)
  <2>1. [NoRun EXCEPT !.h = "photo"] \in RunRecord
    BY NoRunType DEF RunRecord, Handlers
  <2>2. Question([NoRun EXCEPT !.h = "photo"])
    BY <2>1 DEF Question, NoRun, AddStages
  <2>. QED
    BY <1>2, <2>2, QuestionInput DEF SendPhoto
<1>3. CASE TypeNewBrand(r)
  <2>1. PICK n \in Names : Ask(r, "newBrand", [NoRun EXCEPT !.h = "newBrand", !.name = n])
    BY <1>3 DEF TypeNewBrand
  <2>2. [NoRun EXCEPT !.h = "newBrand", !.name = n] \in RunRecord
    BY NoRunType DEF RunRecord, Handlers
  <2>3. Question([NoRun EXCEPT !.h = "newBrand", !.name = n])
    BY <2>2 DEF Question, NoRun, AddStages
  <2>. QED
    BY <2>1, <2>3, QuestionInput
<1>4. CASE TypeStock(r)
  <2>1. PICK s \in Sizes, q \in Quantities :
          Ask(r, "stock", [NoRun EXCEPT !.h = "stock", !.size = s, !.qty = q])
    BY <1>4 DEF TypeStock
  <2>2. [NoRun EXCEPT !.h = "stock", !.size = s, !.qty = q] \in RunRecord
    BY NoRunType DEF RunRecord, Handlers
  <2>3. Question([NoRun EXCEPT !.h = "stock", !.size = s, !.qty = q])
    BY <2>2 DEF Question, NoRun, AddStages
  <2>. QED
    BY <2>1, <2>3, QuestionInput
<1>5. CASE ConfirmCategory(r)
  <2>1. [NoRun EXCEPT !.h = "deleteGroup"] \in RunRecord
    BY NoRunType DEF RunRecord, Handlers
  <2>2. Question([NoRun EXCEPT !.h = "deleteGroup"])
    BY <2>1 DEF Question, NoRun, AddStages
  <2>. QED
    BY <1>5, <2>2, QuestionInput DEF ConfirmCategory
<1>6. CASE ConfirmBrand(r)
  <2>1. [NoRun EXCEPT !.h = "deleteGroup", !.kind = "brand"] \in RunRecord
    BY NoRunType DEF RunRecord, Handlers, Kinds
  <2>2. Question([NoRun EXCEPT !.h = "deleteGroup", !.kind = "brand"])
    BY <2>1 DEF Question, NoRun, AddStages
  <2>. QED
    BY <1>6, <2>2, QuestionInput DEF ConfirmBrand
<1>. QED
  BY <1>1, <1>2, <1>3, <1>4, <1>5, <1>6

LEMMA EditingInput == ASSUME Base, NEW r \in Runs, Editing(r) PROVE Input(r)
<1>1. ASSUME StartEdit(r) PROVE Input(r)
  BY <1>1, RestartInput DEF StartEdit, EditStages
<1>2. ASSUME EditCategory(r) PROVE Input(r)
  BY <1>2, GroupInput DEF EditCategory, EditStages, Kinds
<1>3. ASSUME EditBrand(r) PROVE Input(r)
  BY <1>3, ListProductsInput DEF EditBrand, EditStages
<1>4. {"edit", "warehouse"} \subseteq Cards \ {"none"}
  BY DEF Cards
<1>5. ASSUME OpenCard(r) \/ OpenWarehouseCard(r) PROVE Input(r)
  BY <1>4, <1>5, OpenInput DEF OpenCard, OpenWarehouseCard
<1>6. ASSUME BackToCard(r) \/ RefreshCard(r) PROVE Input(r)
  BY <1>4, <1>6, ViewInput DEF BackToCard, RefreshCard
<1>7. ASSUME PressPrice(r) \/ PressDescription(r) \/ PressNewBrand(r) \/ PressPhoto(r) PROVE Input(r)
  BY <1>7, StageButton DEF PressPrice, PressDescription, PressNewBrand, PressPhoto, EditStages
<1>8. ASSUME PressSize(r) \/ PressNewSize(r) PROVE Input(r)
  BY <1>8, SizeButton DEF PressSize, PressNewSize
<1>9. ASSUME PressStock(r) \/ PressPhotoList(r) PROVE Input(r)
  BY <1>9, ListInput DEF PressStock, PressPhotoList, EditStages
<1>. QED
  BY <1>1, <1>2, <1>3, <1>5, <1>6, <1>7, <1>8, <1>9, PressPhotoDeleteInput, TextInput DEF Editing

\* The question whether to delete a product names it, and so does the screen.
LEMMA DeleteChooseInput == ASSUME Base, NEW r \in Runs, DeleteChoose(r) PROVE Input(r)
<1>1. PICK p \in 1..nextProduct - 1 :
        /\ Begin(r, Finish(IF p \in Live THEN <<Field("product", p), Stage("confirm")>>
                           ELSE <<Field("product", p)>>))
        /\ screen' = IF p \in Live THEN [kind |-> "confirm", product |-> p] ELSE screen
        /\ UNCHANGED <<typed, credit, strayed>>
  BY DEF DeleteChoose
<1>. DEFINE a == Field("product", p)
            b == Stage("confirm")
<1>2. p \in 0..MaxProducts /\ p \in Nat /\ p < nextProduct
  BY BaseFacts, Numbers
<1>3. [NoFields EXCEPT !["product"] = p] \in FsmRecord /\ "product" \in Fields \ {"stage", "sizes", "idx"}
  BY <1>2, NoFieldsType, FieldsAre DEF FsmRecord
<1>4. GoodWrite(a, nextProduct) /\ a.of = {"product"} /\ a.to["product"] = p
  BY <1>2, <1>3, GoodField, FieldWritten, BaseFacts
<1>5. Mild(b, Debt) /\ GoodWrite(b, nextProduct) /\ b.of = {"stage"}
  BY CalmStage, StageWritten DEF Plain, DeleteStages, Stages
<1>. HIDE DEF a, b
<1>6. Arrive(r, Finish(IF p \in Live THEN <<a, b>> ELSE <<a>>), 1)
  BY <1>1 DEF a, b, Begin
<1>7. p \notin Others'
  <2>1. groups' = groups /\ products' = products
    BY <1>6 DEF Arrive, db
  <2>2. Live' = Live
    BY <2>1 DEF Live
  <2>. QED
    BY <1>1, <2>2 DEF Others
<1>8. Lawful(<<a>>, "none", fsm, typed', Debt) /\ Lawful(<<a, b>>, "none", fsm, typed', Debt)
  BY <1>4, <1>5 DEF Lawful, StageWrite, MediaWrite, QuantityWrite, Mild, MediaStages
<1>9. GoodWrites(<<a>>, nextProduct) /\ GoodWrites(<<a, b>>, nextProduct)
  BY <1>4, <1>5, GoodTuples
<1>10. /\ Writing(<<a>>, fsm, typed', Debt, nextProduct, Others')
       /\ Writing(<<a, b>>, fsm, typed', Debt, nextProduct, Others')
  BY <1>4, <1>5, <1>7, <1>8, <1>9 DEF Writing
<1>11. /\ strayed' \in {TRUE, FALSE} /\ (strayed => strayed') /\ credit' \in {credit, credit + 1}
       /\ typed' = typed /\ typed' \in [media : Nat, quantities : [Sizes -> Nat]]
  BY <1>1, BaseFacts
<1>12. screen' \in [kind : {"none", "card", "warehouse", "confirm"}, product : 0..MaxProducts]
  BY <1>1, <1>2, BaseFacts
<1>13. "product" \in <<a>>[1].of /\ "product" \in <<a, b>>[1].of
  BY <1>4
<1>14. CASE p \in Live
  BY <1>6, <1>10, <1>11, <1>12, <1>13, <1>14, WriteInput, CountIsSmall
<1>15. CASE p \notin Live
  BY <1>6, <1>10, <1>11, <1>12, <1>13, <1>15, WriteInput, CountIsSmall
<1>. QED
  BY <1>14, <1>15

LEMMA ConfirmInput == ASSUME Base, NEW r \in Runs, Confirm(r) PROVE Input(r)
<1>. DEFINE L == [NoRun EXCEPT !.pc = "read", !.h = "delete"]
<1>1. Arrive(r, L, 1) /\ Stray({"confirm"}) /\ UNCHANGED history
  BY DEF Confirm, Begin
<1>2. L \in RunRecord /\ L.pc = "read" /\ L.h = "delete"
  BY NoRunType DEF RunRecord, Handlers
<1>3. Asking(L, fsm)
  BY <1>2, NoRunFields DEF Asking, NoRun, AddStages
<1>4. strayed' \in {TRUE, FALSE} /\ (strayed => strayed')
  BY <1>1, StrayIs
<1>. HIDE DEF L
<1>. QED
  BY <1>1, <1>2, <1>3, <1>4, AskInput, CountIsSmall

LEMMA DeletingInput == ASSUME Base, NEW r \in Runs, Deleting(r) PROVE Input(r)
<1>1. ASSUME StartDelete(r) \/ StartDeleteCategory(r) \/ StartDeleteBrand(r) PROVE Input(r)
  BY <1>1, RestartInput
  DEF StartDelete, StartDeleteCategory, StartDeleteBrand, StartDeleteGroup, DeleteStages
<1>2. ASSUME DeleteChooseCategory(r) PROVE Input(r)
  <2>1. PICK c \in 1..nextId["category"] - 1 :
          Write(r, IF Ids("brand") = {} THEN <<Field("category", c)>>
                   ELSE <<Field("category", c), Stage("delBrand")>>)
    BY <1>2 DEF DeleteChooseCategory
  <2>2. \/ Write(r, <<Field("category", c), Stage("delBrand")>>)
        \/ Write(r, <<Field("category", c)>>)
    BY <2>1
  <2>. QED
    BY <2>2, GroupInput DEF DeleteStages, Kinds
<1>3. ASSUME DeleteChooseBrand(r) PROVE Input(r)
  BY <1>3, ListProductsInput DEF DeleteChooseBrand, DeleteStages
<1>4. ASSUME ChooseDeleteCategory(r) PROVE Input(r)
  BY <1>4, GroupInput DEF ChooseDeleteCategory, DeleteStages, Kinds
<1>5. ASSUME ChooseDeleteBrand(r) PROVE Input(r)
  BY <1>5, GroupInput DEF ChooseDeleteBrand, DeleteStages, Kinds
<1>. QED
  BY <1>1, <1>2, <1>3, <1>4, <1>5, DeleteChooseInput, ConfirmInput, TextInput DEF Deleting

-----------------------------------------------------------------------------
(***************************************************************************)
(* Types and runs stay sound.                                              *)
(***************************************************************************)

LEMMA InputSound == ASSUME Base, NEW r \in Runs, Input(r) PROVE Sound(run'[r], nextProduct)
<1>1. CASE Asking(run'[r], fsm)
  BY <1>1, QuestionSound, BaseFacts DEF Asking
<1>2. CASE \E p \in 1..nextProduct - 1, card \in Cards \ {"none"} :
             run'[r] = Show(<<Field("product", p)>>, card, p)
  <2>1. PICK p \in 1..nextProduct - 1, card \in Cards \ {"none"} :
             run'[r] = Show(<<Field("product", p)>>, card, p)
    BY <1>2
  <2>2. p \in 0..MaxProducts /\ p \in Nat /\ p < nextProduct
    BY BaseFacts, Numbers
  <2>3. [NoFields EXCEPT !["product"] = p] \in FsmRecord
        /\ "product" \in Fields \ {"stage", "sizes", "idx"}
    BY <2>2, NoFieldsType, FieldsAre DEF FsmRecord
  <2>4. GoodWrites(<<Field("product", p)>>, nextProduct)
    BY <2>2, <2>3, GoodField, GoodTuples, BaseFacts
  <2>. QED
    BY <2>1, <2>2, <2>4, ShowSound, BaseFacts
<1>3. CASE \E card \in Cards \ {"none"} : run'[r] = Show(<<>>, card, 0)
  <2>1. GoodWrites(<<>>, nextProduct) /\ 0 \in Nat
    BY DEF GoodWrites
  <2>. QED
    BY <1>3, <2>1, ShowSound, BaseFacts
<1>4. CASE \E todo : run'[r] = Finish(todo) /\ Writing(todo, fsm, typed', Debt, nextProduct, Others')
  BY <1>4, FinishSound, BaseFacts DEF Writing
<1>. QED
  BY <1>1, <1>2, <1>3, <1>4 DEF Input

LEMMA SoundLater ==
  ASSUME NEW L, NEW n \in Nat, NEW m \in Nat, n <= m, Sound(L, n)
  PROVE  Sound(L, m)
<1>1. GoodWrites(L.todo, n) /\ L.data.product < n /\ L \in RunRecord
  BY DEF Sound
<1>2. L.data.product \in Int
  BY <1>1, Numbers DEF RunRecord, FsmRecord
<1>3. L.data.product < m
  BY <1>1, <1>2
<1>4. ASSUME NEW w, GoodWrite(w, n) PROVE GoodWrite(w, m)
  <2>1. w.to \in FsmRecord
    BY <1>4 DEF GoodWrite, Writes
  <2>2. w.to.product \in Int
    BY <2>1, Numbers DEF FsmRecord
  <2>. QED
    BY <1>4, <2>2 DEF GoodWrite
<1>5. GoodWrites(L.todo, m)
  BY <1>1, <1>4 DEF GoodWrites
<1>. QED
  BY <1>3, <1>5 DEF Sound

\* A step of one run, that may insert a product and change the record.
LEMMA StepPast ==
  ASSUME Base, NEW r \in Runs, run' = [run EXCEPT ![r] = run'[r]], nextProduct' \in Nat,
         nextProduct <= nextProduct', Sound(run'[r], nextProduct'), fsm'.product < nextProduct'
  PROVE  Past' /\ run' \in [Runs -> RunRecord]
<1>1. run' \in [Runs -> RunRecord] /\ \A q \in Runs \ {r} : run'[q] = run[q]
  BY BaseFacts DEF Sound
<1>2. ASSUME NEW q \in Runs \ {r} PROVE Sound(run'[q], nextProduct')
  BY <1>1, SoundLater, BaseFacts
<1>. QED
  BY <1>1, <1>2 DEF Past

\* The types of the database, and those of the rest.
RowsOK ==
  /\ groups \in [Kinds -> [Names -> 0..MaxIds]]
  /\ nextId \in [Kinds -> 1..MaxIds + 1] /\ nextProduct \in 1..MaxProducts + 1
  /\ \A k \in Kinds, n \in Names : groups[k][n] < nextId[k]
  /\ products \in [1..MaxProducts -> Row]
  /\ \A p \in Live : /\ p < nextProduct
                      /\ products[p].category \in Ids("category")
                      /\ products[p].brand \in Ids("brand")
HistoryOK ==
  /\ screen \in [kind : {"none", "card", "warehouse", "confirm"}, product : 0..MaxProducts]
  /\ typed \in [media : Nat, quantities : [Sizes -> Nat]] /\ credit \in Int
BoundsOK ==
  /\ overlaps \in Nat /\ strayed \in BOOLEAN
  /\ updates \in Nat /\ outside \in Nat /\ crashes \in Nat

LEMMA TypeParts ==
  TypeOK <=> /\ RowsOK /\ HistoryOK /\ BoundsOK
             /\ fsm \in FsmRecord /\ run \in [Runs -> RunRecord]
BY DEF TypeOK, RowsOK, HistoryOK, BoundsOK

LEMMA SameRows == ASSUME RowsOK, UNCHANGED db PROVE RowsOK' /\ Live' = Live
<1>1. groups' = groups /\ nextId' = nextId /\ products' = products /\ nextProduct' = nextProduct
  BY DEF db
<1>2. Live' = Live /\ \A k : Ids(k)' = Ids(k)
  BY <1>1 DEF Live, Ids
<1>. QED
  BY <1>1, <1>2 DEF RowsOK

LEMMA TypePartsNext ==
  ASSUME RowsOK', HistoryOK', BoundsOK', fsm' \in FsmRecord, run' \in [Runs -> RunRecord]
  PROVE  TypeOK'
BY DEF TypeOK, RowsOK, HistoryOK, BoundsOK, Live, Ids

LEMMA InputBase == ASSUME Base, NEW r \in Runs, Input(r) PROVE Base'
<1>1. /\ run' = [run EXCEPT ![r] = run'[r]] /\ UNCHANGED <<db, fsm, outside, crashes>>
      /\ updates' \in Nat
  BY DEF Input
<1>2. Past' /\ run' \in [Runs -> RunRecord]
  BY <1>1, InputSound, StepPast, BaseFacts DEF db
<1>3. RowsOK /\ HistoryOK /\ BoundsOK /\ fsm' \in FsmRecord
  BY <1>1, TypeParts DEF Base
<1>4. RowsOK'
  BY <1>1, <1>3, SameRows
<1>5. overlaps' \in Nat /\ outside' \in Nat /\ crashes' \in Nat
  BY <1>1, <1>3 DEF Input, BoundsOK
<1>6. strayed' \in BOOLEAN
  BY <1>3 DEF Input, BoundsOK
<1>7. HistoryOK'
  <2>1. CASE UNCHANGED history
    BY <1>3, <2>1 DEF HistoryOK, history
  <2>2. ASSUME /\ credit' \in {credit, credit + 1}
               /\ screen' \in [kind : {"none", "card", "warehouse", "confirm"}, product : 0..MaxProducts]
               /\ typed' \in [media : Nat, quantities : [Sizes -> Nat]]
        PROVE  HistoryOK'
    BY <1>3, <2>2 DEF HistoryOK
  <2>. QED
    BY <2>1, <2>2 DEF Input, history
<1>8. BoundsOK'
  BY <1>1, <1>5, <1>6 DEF BoundsOK
<1>. QED
  BY <1>1, <1>2, <1>3, <1>4, <1>7, <1>8, TypePartsNext DEF Base

\* A step of a busy run: what it reads, commits and writes.
LEMMA BusyBase ==
  ASSUME Base, NEW r \in Runs, NEW L, Become(r, L), RowsOK', HistoryOK', UNCHANGED bounds,
         nextProduct <= nextProduct', Sound(L, nextProduct'),
         fsm' \in FsmRecord, fsm'.product < nextProduct'
  PROVE  Base'
<1>1. L \in RunRecord
  BY DEF Sound
<1>2. run'[r] = L /\ run' = [run EXCEPT ![r] = run'[r]]
  BY <1>1, BaseFacts DEF Become
<1>3. nextProduct' \in Nat
  BY Numbers DEF RowsOK
<1>4. Past' /\ run' \in [Runs -> RunRecord]
  BY <1>2, <1>3, StepPast
<1>5. BoundsOK
  BY TypeParts DEF Base
<1>6. BoundsOK'
  BY <1>5 DEF BoundsOK, bounds
<1>. QED
  BY <1>4, <1>6, TypePartsNext DEF Base

\* A question or a commit that leaves the rows, the record and the screen alone.
LEMMA QuietBase ==
  ASSUME Base, NEW r \in Runs, NEW L, Become(r, L), Sound(L, nextProduct),
         UNCHANGED <<db, fsm, screen, credit, bounds>>,
         typed' \in [media : Nat, quantities : [Sizes -> Nat]]
  PROVE  Base'
<1>1. RowsOK /\ HistoryOK /\ fsm \in FsmRecord /\ fsm.product < nextProduct
  BY TypeParts DEF Base, Past
<1>2. RowsOK' /\ HistoryOK'
  BY <1>1, SameRows DEF HistoryOK
<1>3. nextProduct' = nextProduct /\ nextProduct <= nextProduct'
  BY BaseFacts DEF db
<1>. QED
  BY <1>1, <1>2, <1>3, BusyBase

\* The record taken along to the commit.
LEMMA CommitsSound ==
  ASSUME Base, NEW r \in Runs, run[r].pc = "read"
  PROVE  /\ Sound(Commits(run[r]), nextProduct) /\ Commits(run[r]) \in RunRecord
         /\ Commits(run[r]).pc = "commit" /\ Commits(run[r]).data = fsm
         /\ Commits(run[r]).h = run[r].h /\ Commits(run[r]).todo = <<>>
         /\ Commits(run[r]).card = run[r].card /\ Commits(run[r]).id = run[r].id
         /\ Commits(run[r]).next = run[r].next
<1>1. /\ run[r] \in RunRecord /\ run[r].todo = <<>> /\ run[r].next \notin AddStages
      /\ fsm \in FsmRecord /\ fsm.product < nextProduct
  BY BaseFacts DEF Sound
<1>2. Commits(run[r]) = [run[r] EXCEPT !.pc = "commit", !.data = fsm]
  BY DEF Commits
<1>3. /\ Commits(run[r]) \in RunRecord
      /\ Commits(run[r]).pc = "commit" /\ Commits(run[r]).data = fsm
      /\ Commits(run[r]).h = run[r].h /\ Commits(run[r]).todo = <<>>
      /\ Commits(run[r]).card = run[r].card /\ Commits(run[r]).id = run[r].id
      /\ Commits(run[r]).next = run[r].next
  BY <1>1, <1>2 DEF RunRecord
<1>4. GoodWrites(<<>>, nextProduct)
  BY DEF GoodWrites
<1>. QED
  BY <1>1, <1>3, <1>4 DEF Sound

LEMMA SoundBasics ==
  ASSUME Base
  PROVE  /\ Sound(NoRun, nextProduct) /\ Sound(Finish(Clear), nextProduct)
         /\ Sound(Finish(<<>>), nextProduct)
         /\ Clear # <<>> /\ Clear \in Seq(Writes)
BY NoRunSound, FinishSound, GoodClears, GoodTuples, GoodNoData, BaseFacts
DEF Stages, GoodWrites, Clear

LEMMA ReadListBase == ASSUME Base, NEW r \in Runs, ReadList(r) PROVE Base'
<1>1. run[r].next \in Stages
  BY BaseFacts DEF RunRecord
<1>2. Sound(Finish(<<Stage(run[r].next)>>), nextProduct) /\ Sound(Finish(<<>>), nextProduct)
  BY <1>1, GoodStage, GoodTuples, FinishSound, SoundBasics, BaseFacts
<1>3. UNCHANGED <<db, fsm, screen, credit, bounds>> /\ typed' = typed
  BY DEF ReadList, Reads
<1>4. Become(r, Finish(<<Stage(run[r].next)>>)) \/ Become(r, Finish(<<>>))
  BY DEF ReadList
<1>. QED
  BY <1>2, <1>3, <1>4, QuietBase, BaseFacts

\* What is written about an upload.
LEMMA SavedIs ==
  ASSUME NEW m \in 0..MaxMedia, NEW n \in Nat \ {0}
  PROVE  /\ Sound(Saved(m), n) /\ Saved(m).pc = "redis" /\ Saved(m).h = "media"
         /\ Saved(m).todo = <<Field("media", m)>> /\ Saved(m).card = "none" /\ Saved(m).id = 0
         /\ Field("media", m).of = {"media"} /\ Field("media", m).to.media = m
<1>. DEFINE a == Field("media", m)
            L == [NoRun EXCEPT !.h = "media", !.todo = <<a>>]
<1>1. [NoFields EXCEPT !["media"] = m] \in FsmRecord /\ "media" \in Fields \ {"stage", "sizes", "idx"}
  BY NoFieldsType, FieldsAre DEF FsmRecord
<1>2. a \in Writes /\ a.of = {"media"} /\ a.to["media"] = m /\ GoodWrites(<<a>>, n)
  BY <1>1, FieldWritten, GoodField, GoodTuples
<1>. HIDE DEF a
<1>3. L \in RunRecord
  <2>1. <<a>> \in Seq(Writes) /\ "media" \in Handlers
    BY <1>2 DEF Handlers
  <2>. QED
    BY <2>1, NoRunType DEF RunRecord
<1>4. L.todo = <<a>> /\ L.h = "media" /\ L.data = NoFields /\ L.next = "idle" /\ L.card = "none" /\ L.id = 0
  BY DEF NoRun
<1>5. Saved(m) = Goes(L)
  BY DEF Saved, a
<1>6. L.todo # <<>>
  BY <1>4
<1>. HIDE DEF L
<1>7. Sound(Saved(m), n)
  BY <1>2, <1>3, <1>4, <1>5, GoesSound, NoFieldsType DEF AddStages
<1>8. /\ Saved(m).pc = "redis" /\ Saved(m).h = "media" /\ Saved(m).todo = <<a>>
      /\ Saved(m).card = "none" /\ Saved(m).id = 0
  BY <1>3, <1>4, <1>5, <1>6, GoesIs
<1>. QED
  BY <1>2, <1>7, <1>8 DEF a

LEMMA ReadUploadBase == ASSUME Base, NEW r \in Runs, ReadUpload(r) PROVE Base'
<1>1. UNCHANGED <<db, fsm, screen, credit, bounds>> /\ typed' = typed
  BY DEF ReadUpload, Reads
<1>2. CASE fsm.media >= MaxMedia
  <2>1. Become(r, NoRun)
    BY <1>2 DEF ReadUpload
  <2>. QED
    BY <1>1, <2>1, SoundBasics, QuietBase, BaseFacts
<1>3. CASE ~(fsm.media >= MaxMedia)
  <2>1. Become(r, Saved(fsm.media + 1))
    BY <1>3 DEF ReadUpload
  <2>2. fsm.media + 1 \in 0..MaxMedia
    <3>1. fsm.media \in 0..MaxMedia
      BY BaseFacts DEF FsmRecord
    <3>. QED
      BY <1>3, <3>1, Numbers
  <2>. QED
    BY <1>1, <2>1, <2>2, SavedIs, QuietBase, BaseFacts
<1>. QED
  BY <1>2, <1>3

\* A quantity is typed: it is written, and after the last one a product is made.
LEMMA ReadQuantityIs ==
  ASSUME Base, NEW r \in Runs, ReadQuantity(r)
  PROVE  \/ Become(r, NoRun) /\ typed' = typed
         \/ \E w \in Writes, L \in RunRecord :
              /\ fsm.idx \in 1..Len(fsm.sizes) /\ fsm.sizes[fsm.idx] \in Sizes
              /\ w.of = {"quantities"} \/ w.of = {"quantities", "idx"}
              /\ w.to.quantities = [fsm.quantities EXCEPT ![fsm.sizes[fsm.idx]] = run[r].qty]
              /\ typed' = [typed EXCEPT !.quantities[fsm.sizes[fsm.idx]] = run[r].qty]
              /\ Become(r, L) /\ Sound(L, nextProduct) /\ L.pc = "redis" /\ L.todo = <<w>>
              /\ L.card = "none" /\ L.id = 0 /\ L.h \in {"none", "create"}
              /\ L.h = "create" => w.of = {"quantities"}
<1>1. CASE fsm.idx > Len(fsm.sizes)
  BY <1>1 DEF ReadQuantity
<1>2. CASE ~(fsm.idx > Len(fsm.sizes))
  <2>. DEFINE s == fsm.sizes[fsm.idx]
              q == [fsm.quantities EXCEPT ![s] = run[r].qty]
              v == [NoFields EXCEPT !.quantities = q, !.idx = fsm.idx + 1]
              w1 == Set({"quantities", "idx"}, v)
              w2 == Set({"quantities"}, v)
              L2 == [NoRun EXCEPT !.h = "create", !.todo = <<w2>>]
  <2>1. fsm.idx \in Nat \ {0} /\ fsm.sizes \in Seq(Sizes) /\ fsm.quantities \in [Sizes -> Nat]
    BY BaseFacts DEF FsmRecord
  <2>2. fsm.idx \in 1..Len(fsm.sizes) /\ s \in Sizes
    BY <1>2, <2>1
  <2>3. run[r].qty \in Nat
    <3>1. run[r] \in RunRecord
      BY BaseFacts
    <3>2. run[r].qty \in Quantities
      BY <3>1 DEF RunRecord
    <3>. QED
      BY <3>2 DEF Quantities
  <2>4. q \in [Sizes -> Nat] /\ fsm.idx + 1 \in Nat \ {0}
    BY <2>1, <2>2, <2>3
  <2>5. v \in FsmRecord /\ v.quantities = q /\ v.product = 0
    BY <2>4, NoFieldsType DEF FsmRecord
  <2>6. /\ w1 \in Writes /\ w1.of = {"quantities", "idx"} /\ w1.to = v
        /\ w2 \in Writes /\ w2.of = {"quantities"} /\ w2.to = v
    BY <2>5, SetWrite, FieldsAre
  <2>7. /\ typed' = [typed EXCEPT !.quantities[s] = run[r].qty]
        /\ Become(r, IF fsm.idx < Len(fsm.sizes) THEN Finish(<<w1>>) ELSE Goes(L2))
    BY <1>2 DEF ReadQuantity
  <2>8. L2.h = "create" /\ L2.todo = <<w2>> /\ L2.data = NoFields /\ L2.next = "idle"
        /\ L2.card = "none" /\ L2.id = 0
    BY DEF NoRun
  <2>. HIDE DEF q, v, w1, w2
  <2>9. <<w1>> \in Seq(Writes) /\ <<w2>> \in Seq(Writes) /\ "create" \in Handlers
    BY <2>6 DEF Handlers
  <2>10. L2 \in RunRecord
    BY <2>9, NoRunType DEF RunRecord
  <2>. HIDE DEF L2
  <2>11. GoodWrites(<<w1>>, nextProduct) /\ GoodWrites(<<w2>>, nextProduct)
    <3>1. GoodWrite(w1, nextProduct) /\ GoodWrite(w2, nextProduct)
      BY <2>5, <2>6, BaseFacts DEF GoodWrite
    <3>. QED
      BY <3>1, GoodTuples
  <2>12. CASE fsm.idx < Len(fsm.sizes)
    <3>. DEFINE L == Finish(<<w1>>)
    <3>1. /\ Become(r, L) /\ Sound(L, nextProduct) /\ L.pc = "redis" /\ L.todo = <<w1>>
          /\ L.card = "none" /\ L.id = 0 /\ L.h = "none" /\ L \in RunRecord
      BY <2>7, <2>9, <2>11, <2>12, FinishIs, FinishSound, BaseFacts
    <3>. HIDE DEF L
    <3>. QED
      BY <2>2, <2>5, <2>6, <2>7, <3>1 DEF q
  <2>13. CASE ~(fsm.idx < Len(fsm.sizes))
    <3>. DEFINE L == Goes(L2)
    <3>1. L2.todo # <<>>
      BY <2>8
    <3>2. /\ Become(r, L) /\ L.pc = "redis" /\ L.todo = <<w2>>
          /\ L.card = "none" /\ L.id = 0 /\ L.h = "create" /\ L \in RunRecord
      BY <2>7, <2>8, <2>10, <2>13, <3>1, GoesIs
    <3>3. Sound(L, nextProduct)
      BY <2>8, <2>10, <2>11, GoesSound, NoFieldsType, BaseFacts, SMTT(30) DEF AddStages
    <3>. HIDE DEF L
    <3>. QED
      BY <2>2, <2>5, <2>6, <2>7, <3>2, <3>3 DEF q
  <2>. QED
    BY <2>12, <2>13
<1>. QED
  BY <1>1, <1>2

LEMMA ReadQuantityBase == ASSUME Base, NEW r \in Runs, ReadQuantity(r) PROVE Base'
<1>1. UNCHANGED <<db, fsm, screen, credit, bounds>>
  BY DEF ReadQuantity, Reads
<1>2. CASE Become(r, NoRun) /\ typed' = typed
  BY <1>1, <1>2, SoundBasics, QuietBase, BaseFacts
<1>3. CASE \E L \in RunRecord :
             /\ fsm.sizes[fsm.idx] \in Sizes /\ Become(r, L) /\ Sound(L, nextProduct)
             /\ typed' = [typed EXCEPT !.quantities[fsm.sizes[fsm.idx]] = run[r].qty]
  <2>1. run[r].qty \in Nat
    <3>1. run[r] \in RunRecord
      BY BaseFacts
    <3>2. run[r].qty \in Quantities
      BY <3>1 DEF RunRecord
    <3>. QED
      BY <3>2 DEF Quantities
  <2>2. typed' \in [media : Nat, quantities : [Sizes -> Nat]]
    BY <1>3, <2>1, BaseFacts
  <2>. QED
    BY <1>1, <1>3, <2>2, QuietBase
<1>. QED
  BY <1>2, <1>3, ReadQuantityIs

LEMMA ReadCreateBase == ASSUME Base, NEW r \in Runs, ReadCreate(r) PROVE Base'
<1>1. UNCHANGED <<db, fsm, screen, credit, bounds>> /\ typed' = typed /\ run[r].pc = "read"
  BY DEF ReadCreate, Reads
<1>2. Become(r, NoRun) \/ Become(r, Finish(Clear)) \/ Become(r, Commits(run[r]))
  BY DEF ReadCreate
<1>. QED
  BY <1>1, <1>2, SoundBasics, CommitsSound, QuietBase, BaseFacts

LEMMA ReadEditBase == ASSUME Base, NEW r \in Runs, ReadEdit(r) PROVE Base'
<1>1. /\ UNCHANGED <<db, fsm, screen, credit, bounds>> /\ typed' = typed /\ run[r].pc = "read"
      /\ Become(r, Commits(run[r]))
  BY DEF ReadEdit, Reads
<1>. QED
  BY <1>1, CommitsSound, QuietBase, BaseFacts

\* The brand that get_or_create found.
LEMMA ReadNewBrandIs ==
  ASSUME Base, NEW r \in Runs, ReadNewBrand(r)
  PROVE  \/ Become(r, NoRun)
         \/ \E L \in RunRecord : /\ Become(r, L) /\ Sound(L, nextProduct) /\ L.pc = "commit"
                                 /\ L.data = fsm /\ L.h = "newBrand" /\ L.todo = <<>>
<1>1. CASE fsm.product \in Live
  <2>. DEFINE K == Commits(run[r])
              L == [K EXCEPT !.id = groups["brand"][run[r].name]]
  <2>1. Become(r, L) /\ run[r].pc = "read" /\ run[r].h = "newBrand"
    BY <1>1 DEF ReadNewBrand, Reads
  <2>2. /\ Sound(K, nextProduct) /\ K \in RunRecord /\ K.pc = "commit" /\ K.data = fsm
        /\ K.h = "newBrand" /\ K.todo = <<>>
    BY <2>1, CommitsSound
  <2>3. groups["brand"][run[r].name] \in Nat
    <3>1. run[r].name \in Names /\ "brand" \in Kinds
      BY BaseFacts DEF RunRecord, Kinds
    <3>. QED
      BY <3>1, Numbers DEF Base, TypeOK
  <2>. HIDE DEF K
  <2>4. /\ L \in RunRecord /\ L.pc = "commit" /\ L.data = fsm /\ L.h = "newBrand"
        /\ L.todo = <<>> /\ L.next = K.next
    BY <2>2, <2>3 DEF RunRecord
  <2>5. Sound(L, nextProduct)
    BY <2>2, <2>4 DEF Sound
  <2>. QED
    BY <2>1, <2>4, <2>5
<1>. QED
  BY <1>1 DEF ReadNewBrand

LEMMA ReadNewBrandBase == ASSUME Base, NEW r \in Runs, ReadNewBrand(r) PROVE Base'
<1>1. UNCHANGED <<db, fsm, screen, credit, bounds>> /\ typed' = typed
  BY DEF ReadNewBrand, Reads
<1>. QED
  BY <1>1, ReadNewBrandIs, SoundBasics, QuietBase, BaseFacts

LEMMA ReadPhotoBase == ASSUME Base, NEW r \in Runs, ReadPhoto(r) PROVE Base'
<1>1. UNCHANGED <<db, fsm, screen, credit, bounds>> /\ typed' = typed /\ run[r].pc = "read"
  BY DEF ReadPhoto, Reads
<1>2. Become(r, NoRun) \/ Become(r, Commits(run[r]))
  BY DEF ReadPhoto
<1>. QED
  BY <1>1, <1>2, SoundBasics, CommitsSound, QuietBase, BaseFacts

\* One product changes.
LEMMA OneRow ==
  ASSUME RowsOK, NEW p \in Live, NEW row, row = NoProduct \/ row \in Row,
         row = NoProduct \/ row.category \in Ids("category"),
         row = NoProduct \/ row.brand \in Ids("brand"),
         products' = [products EXCEPT ![p] = row], UNCHANGED <<groups, nextId, nextProduct>>
  PROVE  RowsOK'
<1>1. NoProduct \in Row
  BY Numbers DEF NoProduct, Row
<1>2. p \in 1..MaxProducts /\ products \in [1..MaxProducts -> Row] /\ row \in Row
  BY <1>1 DEF Live, RowsOK
<1>3. products' \in [1..MaxProducts -> Row] /\ products'[p] = row
      /\ \A q \in 1..MaxProducts \ {p} : products'[q] = products[q]
  BY <1>2
<1>4. Ids("category")' = Ids("category") /\ Ids("brand")' = Ids("brand")
  BY DEF Ids
<1>5. ASSUME NEW q \in Live'
      PROVE  /\ q < nextProduct' /\ products'[q].category \in Ids("category")'
             /\ products'[q].brand \in Ids("brand")'
  <2>1. q \in 1..MaxProducts /\ products'[q] # NoProduct
    BY DEF Live
  <2>2. CASE q = p
    BY <1>3, <1>4, <2>1, <2>2 DEF RowsOK
  <2>3. CASE q # p
    <3>1. q \in Live /\ products'[q] = products[q]
      BY <1>3, <2>1, <2>3 DEF Live
    <3>. QED
      BY <1>4, <3>1 DEF RowsOK
  <2>. QED
    BY <2>2, <2>3
<1>. QED
  BY <1>3, <1>5 DEF RowsOK

\* get_or_create: the ids known stay, and a new one is the next.
LEMMA InsertKeeps ==
  ASSUME RowsOK, NEW kind \in Kinds, NEW n \in Names, NEW found \in Nat,
         Insertable(kind, n, found), Insert(kind, n, found)
  PROVE  /\ groups' \in [Kinds -> [Names -> 0..MaxIds]] /\ nextId' \in [Kinds -> 1..MaxIds + 1]
         /\ \A k \in Kinds, x \in Names : groups'[k][x] < nextId'[k]
         /\ \A k \in Kinds : Ids(k) \subseteq Ids(k)'
         /\ found = 0 => Id(kind, found) \in Ids(kind)'
         /\ found # 0 => Id(kind, found) = found
<1>1. CASE found # 0
  BY <1>1 DEF Insert, RowsOK, Ids, Id
<1>2. CASE found = 0
  <2>1. /\ groups[kind][n] = 0 /\ nextId[kind] <= MaxIds /\ nextId[kind] \in 1..MaxIds + 1
        /\ groups' = [groups EXCEPT ![kind][n] = nextId[kind]]
        /\ nextId' = [nextId EXCEPT ![kind] = @ + 1]
        /\ groups \in [Kinds -> [Names -> 0..MaxIds]] /\ nextId \in [Kinds -> 1..MaxIds + 1]
    BY <1>2 DEF Insert, Insertable, RowsOK
  <2>2. nextId[kind] \in 0..MaxIds /\ nextId[kind] + 1 \in 1..MaxIds + 1 /\ nextId[kind] # 0
    BY <2>1, Numbers
  <2>3. groups' \in [Kinds -> [Names -> 0..MaxIds]] /\ nextId' \in [Kinds -> 1..MaxIds + 1]
    BY <2>1, <2>2
  <2>4. \A k \in Kinds, x \in Names :
          groups'[k][x] = IF k = kind /\ x = n THEN nextId[kind] ELSE groups[k][x]
    BY <2>1
  <2>5. \A k \in Kinds : nextId'[k] = IF k = kind THEN nextId[k] + 1 ELSE nextId[k]
    BY <2>1
  <2>6. ASSUME NEW k \in Kinds, NEW x \in Names PROVE groups'[k][x] < nextId'[k]
    <3>1. groups[k][x] < nextId[k] /\ groups[k][x] \in Nat /\ nextId[k] \in Nat
      BY <2>1, Numbers DEF RowsOK
    <3>. QED
      BY <2>4, <2>5, <3>1
  <2>7. ASSUME NEW k \in Kinds PROVE Ids(k) \subseteq Ids(k)'
    <3>. SUFFICES ASSUME NEW x \in Names, groups[k][x] # 0 PROVE groups[k][x] \in Ids(k)'
      BY DEF Ids
    <3>1. groups'[k][x] = groups[k][x]
      BY <2>1, <2>4
    <3>. QED
      BY <3>1 DEF Ids
  <2>8. Id(kind, found) = nextId[kind] /\ groups'[kind][n] = nextId[kind]
    BY <1>2, <2>4 DEF Id
  <2>9. Id(kind, found) \in Ids(kind)'
    BY <2>2, <2>8 DEF Ids
  <2>. QED
    BY <1>2, <2>3, <2>6, <2>7, <2>9
<1>. QED
  BY <1>1, <1>2

\* Rows of before under more ids, and one new or changed row.
LEMMA MoreIds ==
  ASSUME RowsOK, NEW p \in 1..MaxProducts, NEW row \in Row,
         groups' \in [Kinds -> [Names -> 0..MaxIds]], nextId' \in [Kinds -> 1..MaxIds + 1],
         \A k \in Kinds, x \in Names : groups'[k][x] < nextId'[k],
         \A k \in Kinds : Ids(k) \subseteq Ids(k)',
         row.category \in Ids("category")', row.brand \in Ids("brand")',
         products' = [products EXCEPT ![p] = row],
         nextProduct' \in 1..MaxProducts + 1, nextProduct <= nextProduct', p < nextProduct'
  PROVE  RowsOK'
<1>1. /\ products' \in [1..MaxProducts -> Row] /\ products'[p] = row
      /\ \A q \in 1..MaxProducts \ {p} : products'[q] = products[q]
  BY DEF RowsOK
<1>2. "category" \in Kinds /\ "brand" \in Kinds
  BY DEF Kinds
<1>3. ASSUME NEW q \in Live'
      PROVE  /\ q < nextProduct' /\ products'[q].category \in Ids("category")'
             /\ products'[q].brand \in Ids("brand")'
  <2>1. q \in 1..MaxProducts /\ products'[q] # NoProduct
    BY DEF Live
  <2>2. CASE q = p
    BY <1>1, <2>2
  <2>3. CASE q # p
    <3>1. q \in Live /\ products'[q] = products[q]
      BY <1>1, <2>1, <2>3 DEF Live
    <3>2. q < nextProduct /\ nextProduct \in Int /\ nextProduct' \in Int
      BY <3>1, Numbers DEF RowsOK
    <3>3. q < nextProduct'
      BY <2>1, <3>2, Numbers
    <3>. QED
      BY <1>2, <3>1, <3>3 DEF RowsOK
  <2>. QED
    BY <2>2, <2>3
<1>. QED
  BY <1>1, <1>3 DEF RowsOK

\* A commit that does not change the rows, or one of them.
LEMMA CommitBase ==
  ASSUME Base, NEW r \in Runs, NEW L, Become(r, L), Sound(L, nextProduct),
         UNCHANGED <<fsm, screen, typed, bounds>>, RowsOK', credit' \in Int,
         nextProduct <= nextProduct'
  PROVE  Base'
<1>1. HistoryOK'
  BY BaseFacts DEF HistoryOK
<1>2. nextProduct' \in Nat /\ nextProduct \in Nat
  BY Numbers, BaseFacts DEF RowsOK
<1>3. Sound(L, nextProduct')
  BY <1>2, SoundLater
<1>4. fsm' \in FsmRecord /\ fsm'.product < nextProduct'
  BY <1>2, BaseFacts
<1>. QED
  BY <1>1, <1>3, <1>4, BusyBase

\* What commits leave to do.
LEMMA AfterCommit ==
  ASSUME Base
  PROVE  /\ Sound(NoRun, nextProduct) /\ Sound(Finish(Clear), nextProduct)
         /\ Sound(Show(<<>>, "edit", 0), nextProduct)
         /\ Sound(Show(<<Stage("idle")>>, "warehouse", 0), nextProduct)
<1>1. GoodWrites(<<>>, nextProduct) /\ GoodWrites(<<Stage("idle")>>, nextProduct)
  BY GoodStage, GoodTuples, BaseFacts DEF Stages, GoodWrites
<1>2. {"edit", "warehouse"} \subseteq Cards \ {"none"} /\ 0 \in Nat
  BY DEF Cards
<1>. QED
  BY <1>1, <1>2, SoundBasics, ShowSound, BaseFacts

LEMMA RunData ==
  ASSUME Base, NEW r \in Runs
  PROVE  /\ run[r] \in RunRecord /\ run[r].data \in FsmRecord /\ run[r].kind \in Kinds
         /\ run[r].name \in Names /\ run[r].id \in Nat /\ run[r].qty \in Nat
         /\ run[r].data.category \in 0..MaxIds /\ run[r].data.brand \in 0..MaxIds
         /\ run[r].data.media \in 0..MaxMedia /\ run[r].data.media \in Nat
         /\ run[r].data.quantities \in [Sizes -> Nat]
         /\ run[r].data.product \in Nat /\ run[r].data.product < nextProduct
<1>1. run[r] \in RunRecord /\ run[r].data \in FsmRecord /\ run[r].data.product < nextProduct
  BY BaseFacts DEF RunRecord, Sound
<1>2. /\ run[r].kind \in Kinds /\ run[r].name \in Names /\ run[r].id \in Nat
      /\ run[r].qty \in Quantities
  BY <1>1 DEF RunRecord
<1>3. /\ run[r].data.category \in 0..MaxIds /\ run[r].data.brand \in 0..MaxIds
      /\ run[r].data.media \in 0..MaxMedia /\ run[r].data.quantities \in [Sizes -> Nat]
      /\ run[r].data.product \in 0..MaxProducts
  BY <1>1 DEF FsmRecord
<1>. QED
  BY <1>1, <1>2, <1>3, Numbers DEF Quantities

LEMMA NothingRows ==
  ASSUME Base, Nothing
  PROVE  RowsOK' /\ credit' \in Int /\ nextProduct <= nextProduct' /\ Live' = Live
<1>1. RowsOK /\ UNCHANGED db
  BY TypeParts DEF Base, Nothing
<1>. QED
  BY <1>1, SameRows, BaseFacts DEF Nothing, db

LEMMA CommitGroupBase == ASSUME Base, NEW r \in Runs, CommitGroup(r) PROVE Base'
<1>. DEFINE L == run[r]
<1>1. UNCHANGED <<fsm, screen, typed, bounds>>
  BY DEF CommitGroup, CommitsOf
<1>2. CASE Insertable(L.kind, L.name, L.id)
  <2>1. /\ Insert(L.kind, L.name, L.id) /\ UNCHANGED <<products, nextProduct, credit>>
        /\ Become(r, Finish(Clear))
    BY <1>2 DEF CommitGroup
  <2>2. /\ groups' \in [Kinds -> [Names -> 0..MaxIds]] /\ nextId' \in [Kinds -> 1..MaxIds + 1]
        /\ \A k \in Kinds, x \in Names : groups'[k][x] < nextId'[k]
        /\ \A k \in Kinds : Ids(k) \subseteq Ids(k)'
    BY <1>2, <2>1, RunData, InsertKeeps, TypeParts DEF Base
  <2>3. RowsOK'
    <3>1. Live' = Live /\ "category" \in Kinds /\ "brand" \in Kinds
      BY <2>1 DEF Live, Kinds
    <3>. QED
      BY <2>1, <2>2, <3>1, TypeParts DEF RowsOK, Base
  <2>4. credit' \in Int /\ nextProduct <= nextProduct'
    BY <2>1, BaseFacts
  <2>. QED
    BY <1>1, <2>1, <2>3, <2>4, AfterCommit, CommitBase
<1>3. CASE ~Insertable(L.kind, L.name, L.id)
  <2>1. Nothing /\ Become(r, NoRun)
    BY <1>3 DEF CommitGroup
  <2>. QED
    BY <1>1, <2>1, NothingRows, AfterCommit, CommitBase
<1>. QED
  BY <1>2, <1>3

\* The product a dialogue makes.
Made(d) ==
  [category |-> d.category, brand |-> d.brand, media |-> d.media, stock |-> d.quantities, edits |-> 0]

LEMMA CommitProductIs ==
  ASSUME Base, NEW r \in Runs, CommitProduct(r)
  PROVE  \/ Nothing /\ Become(r, NoRun)
         \/ /\ nextProduct \in 1..MaxProducts /\ Made(run[r].data) \in Row
            /\ run[r].data.category \in Ids("category") /\ run[r].data.brand \in Ids("brand")
            /\ products' = [products EXCEPT ![nextProduct] = Made(run[r].data)]
            /\ nextProduct' = nextProduct + 1 /\ credit' = credit - 1
            /\ UNCHANGED <<groups, nextId>> /\ Become(r, Finish(Clear))
<1>. DEFINE d == run[r].data
<1>1. Made(d) \in Row
  BY RunData DEF Made, Row
<1>2. CASE Storable(d) /\ d.category \in Ids("category") /\ d.brand \in Ids("brand")
  <2>1. /\ nextProduct <= MaxProducts
        /\ products' = [products EXCEPT ![nextProduct] = Made(d)]
        /\ nextProduct' = nextProduct + 1 /\ credit' = credit - 1
        /\ UNCHANGED <<groups, nextId>> /\ Become(r, Finish(Clear))
    BY <1>2 DEF CommitProduct, Made
  <2>2. nextProduct \in 1..MaxProducts
    BY <2>1, BaseFacts, Numbers
  <2>. QED
    BY <1>1, <1>2, <2>1, <2>2
<1>3. CASE ~(Storable(d) /\ d.category \in Ids("category") /\ d.brand \in Ids("brand"))
  BY <1>3 DEF CommitProduct
<1>. QED
  BY <1>2, <1>3

LEMMA CommitProductBase == ASSUME Base, NEW r \in Runs, CommitProduct(r) PROVE Base'
<1>1. UNCHANGED <<fsm, screen, typed, bounds>>
  BY DEF CommitProduct, CommitsOf
<1>2. CASE Nothing /\ Become(r, NoRun)
  BY <1>1, <1>2, NothingRows, AfterCommit, CommitBase
<1>3. CASE /\ nextProduct \in 1..MaxProducts /\ Made(run[r].data) \in Row
           /\ run[r].data.category \in Ids("category") /\ run[r].data.brand \in Ids("brand")
           /\ products' = [products EXCEPT ![nextProduct] = Made(run[r].data)]
           /\ nextProduct' = nextProduct + 1 /\ credit' = credit - 1
           /\ UNCHANGED <<groups, nextId>> /\ Become(r, Finish(Clear))
  <2>1. /\ nextProduct' \in 1..MaxProducts + 1 /\ nextProduct <= nextProduct'
        /\ nextProduct < nextProduct' /\ credit' \in Int
    BY <1>3, BaseFacts, Numbers
  <2>2. \A k \in Kinds : Ids(k)' = Ids(k)
    BY <1>3 DEF Ids
  <2>3. /\ Made(run[r].data).category \in Ids("category")'
        /\ Made(run[r].data).brand \in Ids("brand")'
    BY <1>3, <2>2 DEF Made, Kinds
  <2>4. RowsOK
    BY TypeParts DEF Base
  <2>5. /\ groups' \in [Kinds -> [Names -> 0..MaxIds]] /\ nextId' \in [Kinds -> 1..MaxIds + 1]
        /\ \A k \in Kinds, x \in Names : groups'[k][x] < nextId'[k]
        /\ \A k \in Kinds : Ids(k) \subseteq Ids(k)'
    BY <1>3, <2>2, <2>4 DEF RowsOK
  <2>6. RowsOK'
    BY <1>3, <2>1, <2>3, <2>4, <2>5, MoreIds
  <2>. QED
    BY <1>1, <1>3, <2>1, <2>6, AfterCommit, CommitBase
<1>. QED
  BY <1>2, <1>3, CommitProductIs

\* A commit that changes one product, and the product it means.
Target(r) == IF run[r].h = "photoDelete" THEN run[r].id ELSE run[r].data.product
Afterwards ==
  {NoRun, Finish(Clear), Show(<<>>, "edit", 0), Show(<<Stage("idle")>>, "warehouse", 0)}
OneCommits(r) ==
  \/ CommitEdit(r) \/ CommitStock(r) \/ CommitPhoto(r) \/ CommitPhotoDelete(r) \/ CommitDelete(r)
Changed(r, p, row) ==
  /\ p \in Live /\ p = Target(r) /\ products' = [products EXCEPT ![p] = row]
  /\ \/ row = NoProduct
     \/ /\ row \in Row /\ row.category = products[p].category /\ row.brand = products[p].brand
        /\ \/ row.media <= products[p].media
           \/ run[r].h = "photo" /\ row.media = products[p].media + 1
OneChange(r) ==
  /\ run[r].pc = "commit" /\ run[r].h \in {"edit", "stock", "photo", "photoDelete", "delete"}
  /\ UNCHANGED <<fsm, screen, typed, bounds, credit>>
  /\ \E L \in Afterwards : Become(r, L)
  /\ \/ Nothing
     \/ /\ UNCHANGED <<groups, nextId, nextProduct>>
        /\ \E p, row : Changed(r, p, row)

LEMMA RowOf ==
  ASSUME Base, NEW p \in Live
  PROVE  /\ products[p] \in Row /\ p \in 1..MaxProducts /\ p \in Nat /\ p < nextProduct
         /\ products[p].media \in Nat
         /\ products[p].category \in Ids("category") /\ products[p].brand \in Ids("brand")
<1>1. p \in 1..MaxProducts /\ products[p] \in Row
  BY DEF Live, Base, TypeOK
<1>. QED
  BY <1>1 DEF Base, TypeOK, Row

LEMMA EditsIs ==
  ASSUME Base, NEW r \in Runs, NEW h \in {"edit", "stock"}, NEW row, Edits(r, h, row),
         run[r].data.product \in Live =>
           /\ row \in Row /\ row.category = products[run[r].data.product].category
           /\ row.brand = products[run[r].data.product].brand
           /\ row.media = products[run[r].data.product].media
  PROVE  OneChange(r)
<1>. DEFINE p == run[r].data.product
<1>1. /\ run[r].pc = "commit" /\ run[r].h = h /\ UNCHANGED <<fsm, screen, typed, bounds>>
      /\ Become(r, Show(<<>>, "edit", 0))
  BY DEF Edits, CommitsOf
<1>2. CASE p \in Live
  <2>1. /\ products' = [products EXCEPT ![p] = row]
        /\ UNCHANGED <<groups, nextId, nextProduct, credit>>
    BY <1>2 DEF Edits, OnlyProduct
  <2>2. p = Target(r) /\ row.media <= products[p].media
    BY <1>1, <1>2, RowOf DEF Target
  <2>3. Changed(r, p, row)
    BY <1>2, <2>1, <2>2 DEF Changed
  <2>. QED
    BY <1>1, <2>1, <2>3 DEF OneChange, Afterwards
<1>3. CASE p \notin Live
  <2>1. Nothing
    BY <1>3 DEF Edits
  <2>. QED
    BY <1>1, <2>1 DEF OneChange, Afterwards, Nothing
<1>. QED
  BY <1>2, <1>3

LEMMA CommitEditIs == ASSUME Base, NEW r \in Runs, CommitEdit(r) PROVE OneChange(r)
<1>. DEFINE row == [Edited(r) EXCEPT !.edits = @ + 1]
<1>1. Edits(r, "edit", row)
  BY DEF CommitEdit
<1>2. run[r].data.product \in Live =>
        /\ row \in Row /\ row.category = products[run[r].data.product].category
        /\ row.brand = products[run[r].data.product].brand
        /\ row.media = products[run[r].data.product].media
  BY RowOf DEF Edited, Row
<1>. HIDE DEF row
<1>. QED
  BY <1>1, <1>2, EditsIs

LEMMA CommitStockIs == ASSUME Base, NEW r \in Runs, CommitStock(r) PROVE OneChange(r)
<1>. DEFINE s == IF run[r].data.size # NoSize THEN run[r].data.size ELSE run[r].size
            row == [Edited(r) EXCEPT !.stock[s] = run[r].qty]
<1>1. Edits(r, "stock", row)
  BY DEF CommitStock
<1>. HIDE DEF s
<1>2. run[r].data.product \in Live =>
        /\ row \in Row /\ row.category = products[run[r].data.product].category
        /\ row.brand = products[run[r].data.product].brand
        /\ row.media = products[run[r].data.product].media
  BY RowOf, RunData DEF Edited, Row
<1>. HIDE DEF row
<1>. QED
  BY <1>1, <1>2, EditsIs

LEMMA CommitPhotoIs == ASSUME Base, NEW r \in Runs, CommitPhoto(r) PROVE OneChange(r)
<1>. DEFINE p == run[r].data.product
            row == [Edited(r) EXCEPT !.media = @ + 1]
<1>1. run[r].pc = "commit" /\ run[r].h = "photo" /\ UNCHANGED <<fsm, screen, typed, bounds>>
  BY DEF CommitPhoto, CommitsOf
<1>2. CASE p \in Live
  <2>1. /\ products' = [products EXCEPT ![p] = row]
        /\ UNCHANGED <<groups, nextId, nextProduct, credit>> /\ Become(r, Show(<<>>, "edit", 0))
    BY <1>2 DEF CommitPhoto, OnlyProduct
  <2>2. /\ row \in Row /\ row.category = products[p].category /\ row.brand = products[p].brand
        /\ row.media = products[p].media + 1
    BY <1>2, RowOf DEF Edited, Row
  <2>3. p = Target(r)
    BY <1>1 DEF Target
  <2>4. Changed(r, p, row)
    BY <1>1, <1>2, <2>1, <2>2, <2>3 DEF Changed
  <2>. QED
    BY <1>1, <2>1, <2>4 DEF OneChange, Afterwards
<1>3. CASE p \notin Live
  <2>1. Nothing /\ Become(r, NoRun)
    BY <1>3 DEF CommitPhoto
  <2>. QED
    BY <1>1, <2>1 DEF OneChange, Afterwards, Nothing
<1>. QED
  BY <1>2, <1>3

LEMMA CommitPhotoDeleteIs == ASSUME Base, NEW r \in Runs, CommitPhotoDelete(r) PROVE OneChange(r)
<1>. DEFINE p == run[r].id
            row == [products[p] EXCEPT !.media = @ - 1]
<1>1. run[r].pc = "commit" /\ run[r].h = "photoDelete" /\ UNCHANGED <<fsm, screen, typed, bounds>>
  BY DEF CommitPhotoDelete, CommitsOf
<1>2. CASE p \in Live /\ products[p].media > 0
  <2>1. /\ products' = [products EXCEPT ![p] = row]
        /\ UNCHANGED <<groups, nextId, nextProduct, credit>> /\ Become(r, Show(<<>>, "edit", 0))
    BY <1>2 DEF CommitPhotoDelete, OnlyProduct
  <2>2. products[p].media - 1 \in Nat /\ products[p].media - 1 <= products[p].media
    BY <1>2, RowOf
  <2>3. /\ row \in Row /\ row.category = products[p].category /\ row.brand = products[p].brand
        /\ row.media <= products[p].media
    BY <1>2, <2>2, RowOf DEF Row
  <2>4. p = Target(r)
    BY <1>1 DEF Target
  <2>5. Changed(r, p, row)
    BY <1>2, <2>1, <2>3, <2>4 DEF Changed
  <2>. QED
    BY <1>1, <2>1, <2>5 DEF OneChange, Afterwards
<1>3. CASE ~(p \in Live /\ products[p].media > 0)
  <2>1. Nothing /\ Become(r, NoRun)
    BY <1>3 DEF CommitPhotoDelete
  <2>. QED
    BY <1>1, <2>1 DEF OneChange, Afterwards, Nothing
<1>. QED
  BY <1>2, <1>3

LEMMA CommitDeleteIs == ASSUME Base, NEW r \in Runs, CommitDelete(r) PROVE OneChange(r)
<1>. DEFINE p == run[r].data.product
<1>1. /\ run[r].pc = "commit" /\ run[r].h = "delete" /\ UNCHANGED <<fsm, screen, typed, bounds>>
      /\ Become(r, Finish(Clear))
  BY DEF CommitDelete, CommitsOf
<1>2. CASE p \in Live
  <2>1. /\ products' = [products EXCEPT ![p] = NoProduct]
        /\ UNCHANGED <<groups, nextId, nextProduct, credit>>
    BY <1>2 DEF CommitDelete, OnlyProduct
  <2>2. p = Target(r)
    BY <1>1 DEF Target
  <2>3. Changed(r, p, NoProduct)
    BY <1>2, <2>1, <2>2 DEF Changed
  <2>. QED
    BY <1>1, <2>1, <2>3 DEF OneChange, Afterwards
<1>3. CASE p \notin Live
  <2>1. Nothing
    BY <1>3 DEF CommitDelete
  <2>. QED
    BY <1>1, <2>1 DEF OneChange, Afterwards, Nothing
<1>. QED
  BY <1>2, <1>3

LEMMA OneCommitsIs == ASSUME Base, NEW r \in Runs, OneCommits(r) PROVE OneChange(r)
BY CommitEditIs, CommitStockIs, CommitPhotoIs, CommitPhotoDeleteIs, CommitDeleteIs DEF OneCommits

LEMMA OneChangeBase == ASSUME Base, NEW r \in Runs, OneChange(r) PROVE Base'
<1>1. PICK L \in Afterwards : Become(r, L)
  BY DEF OneChange
<1>2. Sound(L, nextProduct)
  BY <1>1, AfterCommit DEF Afterwards
<1>3. /\ UNCHANGED <<fsm, screen, typed, bounds>> /\ credit' \in Int
  BY BaseFacts DEF OneChange
<1>4. CASE Nothing
  BY <1>1, <1>2, <1>3, <1>4, NothingRows, CommitBase
<1>5. CASE UNCHANGED <<groups, nextId, nextProduct>> /\ \E p, row : Changed(r, p, row)
  <2>1. PICK p, row : Changed(r, p, row)
    BY <1>5
  <2>2. p \in Live /\ products' = [products EXCEPT ![p] = row] /\ (row = NoProduct \/ row \in Row)
    BY <2>1 DEF Changed
  <2>3. /\ row = NoProduct \/ row.category \in Ids("category")
        /\ row = NoProduct \/ row.brand \in Ids("brand")
    BY <2>1, <2>2, RowOf DEF Changed
  <2>4. RowsOK /\ nextProduct' = nextProduct /\ nextProduct <= nextProduct'
    BY <1>5, TypeParts, BaseFacts DEF Base
  <2>5. RowsOK'
    BY <1>5, <2>2, <2>3, <2>4, OneRow
  <2>. QED
    BY <1>1, <1>2, <1>3, <2>4, <2>5, CommitBase
<1>. QED
  BY <1>4, <1>5 DEF OneChange

LEMMA CommitNewBrandIs ==
  ASSUME Base, NEW r \in Runs, CommitNewBrand(r)
  PROVE  \/ Nothing /\ Become(r, NoRun)
         \/ LET p == run[r].data.product
                row == [products[p] EXCEPT !.brand = Id("brand", run[r].id)]
            IN /\ p \in Live /\ Insertable("brand", run[r].name, run[r].id)
               /\ Insert("brand", run[r].name, run[r].id)
               /\ run[r].id # 0 => run[r].id \in Ids("brand")
               /\ products' = [products EXCEPT ![p] = row]
               /\ UNCHANGED <<nextProduct, credit>>
               /\ Become(r, Show(<<Stage("idle")>>, "warehouse", 0))
<1>. DEFINE p == run[r].data.product
            new == Id("brand", run[r].id)
<1>1. CASE /\ p \in Live /\ Insertable("brand", run[r].name, run[r].id)
           /\ run[r].id # 0 => run[r].id \in Ids("brand")
  <2>1. /\ Insert("brand", run[r].name, run[r].id)
        /\ products' = [products EXCEPT ![p].brand = new]
        /\ UNCHANGED <<nextProduct, credit>>
        /\ Become(r, Show(<<Stage("idle")>>, "warehouse", 0))
    BY <1>1 DEF CommitNewBrand
  <2>. HIDE DEF new
  <2>2. products' = [products EXCEPT ![p] = [products[p] EXCEPT !.brand = new]]
    BY <1>1, <2>1
  <2>. QED
    BY <1>1, <2>1, <2>2 DEF new
<1>2. CASE ~(/\ p \in Live /\ Insertable("brand", run[r].name, run[r].id)
             /\ run[r].id # 0 => run[r].id \in Ids("brand"))
  BY <1>2 DEF CommitNewBrand
<1>. QED
  BY <1>1, <1>2

LEMMA CommitNewBrandBase == ASSUME Base, NEW r \in Runs, CommitNewBrand(r) PROVE Base'
<1>. DEFINE p == run[r].data.product
            new == Id("brand", run[r].id)
            row == [products[p] EXCEPT !.brand = new]
<1>1. UNCHANGED <<fsm, screen, typed, bounds>> /\ RowsOK
  BY TypeParts DEF CommitNewBrand, CommitsOf, Base
<1>2. CASE Nothing /\ Become(r, NoRun)
  BY <1>1, <1>2, NothingRows, AfterCommit, CommitBase
<1>3. CASE /\ p \in Live /\ Insertable("brand", run[r].name, run[r].id)
           /\ Insert("brand", run[r].name, run[r].id)
           /\ run[r].id # 0 => run[r].id \in Ids("brand")
           /\ products' = [products EXCEPT ![p] = row]
           /\ UNCHANGED <<nextProduct, credit>>
           /\ Become(r, Show(<<Stage("idle")>>, "warehouse", 0))
  <2>1. /\ groups' \in [Kinds -> [Names -> 0..MaxIds]] /\ nextId' \in [Kinds -> 1..MaxIds + 1]
        /\ \A k \in Kinds, x \in Names : groups'[k][x] < nextId'[k]
        /\ \A k \in Kinds : Ids(k) \subseteq Ids(k)'
        /\ run[r].id = 0 => new \in Ids("brand")'
        /\ run[r].id # 0 => new = run[r].id
    BY <1>1, <1>3, RunData, InsertKeeps DEF Kinds
  <2>2. new \in Ids("brand")'
    BY <1>3, <2>1 DEF Kinds
  <2>3. new \in 0..MaxIds
    BY <2>1, <2>2 DEF Ids, Kinds
  <2>. HIDE DEF new
  <2>4. row \in Row /\ row.category = products[p].category /\ row.brand = new
    BY <1>3, <2>3, RowOf DEF Row
  <2>. HIDE DEF row
  <2>5. row.category \in Ids("category")' /\ row.brand \in Ids("brand")'
    BY <1>3, <2>1, <2>2, <2>4, RowOf DEF Kinds
  <2>6. /\ p \in 1..MaxProducts /\ nextProduct' = nextProduct
        /\ nextProduct' \in 1..MaxProducts + 1 /\ nextProduct <= nextProduct' /\ p < nextProduct'
        /\ credit' \in Int
    BY <1>1, <1>3, RowOf, BaseFacts, Numbers DEF RowsOK
  <2>7. RowsOK'
    BY <1>1, <1>3, <2>1, <2>4, <2>5, <2>6, MoreIds
  <2>. QED
    BY <1>1, <1>3, <2>6, <2>7, AfterCommit, CommitBase
<1>. QED
  BY <1>2, <1>3, CommitNewBrandIs

\* Some products go, and ids they do not have.
LEMMA CommitDeleteGroupIs ==
  ASSUME Base, NEW r \in Runs, CommitDeleteGroup(r)
  PROVE  /\ RowsOK' /\ Live' \subseteq Live /\ \A p \in Live' : products'[p] = products[p]
         /\ UNCHANGED <<nextProduct, credit>> /\ Become(r, Finish(Clear))
<1>. DEFINE kind == run[r].kind
            id == run[r].data[kind]
<1>1. /\ groups' = [groups EXCEPT ![kind] = [n \in Names |-> IF groups[kind][n] = id THEN 0 ELSE groups[kind][n]]]
      /\ products' = [p \in 1..MaxProducts |->
                        IF products[p][kind] = id THEN NoProduct ELSE products[p]]
      /\ UNCHANGED <<nextId, nextProduct, credit>> /\ Become(r, Finish(Clear))
  BY DEF CommitDeleteGroup, Without
<1>2. kind \in Kinds /\ RowsOK
  BY RunData, TypeParts DEF Base
<1>. HIDE DEF kind, id
<1>3. groups \in [Kinds -> [Names -> 0..MaxIds]] /\ 0 \in 0..MaxIds
  BY <1>2, Numbers DEF RowsOK
<1>4. groups' \in [Kinds -> [Names -> 0..MaxIds]]
      /\ \A k \in Kinds, n \in Names :
           groups'[k][n] = IF k = kind /\ groups[k][n] = id THEN 0 ELSE groups[k][n]
  BY <1>1, <1>2, <1>3
<1>5. \A p \in Live' : p \in Live /\ products'[p] = products[p] /\ products[p][kind] # id
  BY <1>1 DEF Live
<1>6. ASSUME NEW k \in Kinds, NEW x \in Ids(k), k = kind => x # id
      PROVE  x \in Ids(k)'
  <2>1. PICK n \in Names : groups[k][n] = x /\ x # 0
    BY <1>6 DEF Ids
  <2>2. groups'[k][n] = x
    BY <1>4, <1>6, <2>1
  <2>. QED
    BY <2>1, <2>2 DEF Ids
<1>7. ASSUME NEW p \in Live'
      PROVE  /\ p < nextProduct' /\ products'[p].category \in Ids("category")'
             /\ products'[p].brand \in Ids("brand")'
  <2>1. /\ p < nextProduct /\ products[p].category \in Ids("category")
        /\ products[p].brand \in Ids("brand")
    BY <1>5, RowOf
  <2>2. products[p].category = products[p]["category"] /\ products[p].brand = products[p]["brand"]
    OBVIOUS
  <2>3. products[p].category \in Ids("category")' /\ products[p].brand \in Ids("brand")'
    BY <1>5, <1>6, <2>1, <2>2 DEF Kinds
  <2>. QED
    BY <1>1, <1>5, <2>1, <2>3
<1>8. products' \in [1..MaxProducts -> Row]
  <2>1. NoProduct \in Row
    BY Numbers DEF NoProduct, Row
  <2>. QED
    BY <1>1, <1>2, <2>1 DEF RowsOK
<1>9. ASSUME NEW k \in Kinds, NEW n \in Names PROVE groups'[k][n] < nextId'[k]
  <2>1. groups[k][n] < nextId[k] /\ nextId[k] \in 1..MaxIds + 1
    BY <1>2 DEF RowsOK
  <2>2. 0 < nextId[k]
    BY <2>1, Numbers
  <2>. QED
    BY <1>1, <1>4, <2>1, <2>2
<1>. QED
  BY <1>1, <1>2, <1>4, <1>5, <1>7, <1>8, <1>9 DEF RowsOK

LEMMA CommitDeleteGroupBase == ASSUME Base, NEW r \in Runs, CommitDeleteGroup(r) PROVE Base'
<1>1. UNCHANGED <<fsm, screen, typed, bounds>>
  BY DEF CommitDeleteGroup, CommitsOf
<1>2. credit' \in Int /\ nextProduct <= nextProduct'
  BY CommitDeleteGroupIs, BaseFacts
<1>. QED
  BY <1>1, <1>2, CommitDeleteGroupIs, AfterCommit, CommitBase

-----------------------------------------------------------------------------
(***************************************************************************)
(* Writes to Redis, cards, the web API and the death of the bot.           *)
(***************************************************************************)

\* The write at the head, and those after it.
LEMMA Heads ==
  ASSUME Base, NEW r \in Runs, run[r].pc = "redis"
  PROVE  /\ run[r].todo \in Seq(Writes) /\ run[r].todo # <<>> /\ Len(run[r].todo) \in Nat \ {0}
         /\ Head(run[r].todo) = run[r].todo[1] /\ GoodWrite(run[r].todo[1], nextProduct)
         /\ Tail(run[r].todo) \in Seq(Writes) /\ Len(Tail(run[r].todo)) = Len(run[r].todo) - 1
         /\ \A i \in 1..Len(Tail(run[r].todo)) :
              i + 1 \in 1..Len(run[r].todo) /\ Tail(run[r].todo)[i] = run[r].todo[i + 1]
         /\ GoodWrites(Tail(run[r].todo), nextProduct)
<1>. DEFINE todo == run[r].todo
<1>1. GoodWrites(todo, nextProduct) /\ todo # <<>> /\ todo \in Seq(Writes)
  BY BaseFacts DEF Sound, GoodWrites
<1>. HIDE DEF todo
<1>2. /\ Len(todo) \in Nat \ {0} /\ Head(todo) = todo[1] /\ Tail(todo) \in Seq(Writes)
      /\ Len(Tail(todo)) = Len(todo) - 1
      /\ \A i \in 1..Len(Tail(todo)) : i + 1 \in 1..Len(todo) /\ Tail(todo)[i] = todo[i + 1]
  BY <1>1
<1>3. GoodWrite(todo[1], nextProduct)
  BY <1>1, <1>2 DEF GoodWrites
<1>4. GoodWrites(Tail(todo), nextProduct)
  BY <1>1, <1>2 DEF GoodWrites
<1>. QED
  BY <1>1, <1>2, <1>3, <1>4 DEF todo

\* A write to Redis as the invariant sees it.
LEMMA WriteRedisIs ==
  ASSUME Base, NEW r \in Runs, WriteRedis(r)
  PROVE  LET todo == run[r].todo
             w == todo[1]
             L == [run[r] EXCEPT !.todo = Tail(todo)]
         IN /\ run[r].pc = "redis" /\ fsm' = Written(w) /\ fsm' \in FsmRecord
            /\ fsm'.product < nextProduct
            /\ L \in RunRecord /\ L.todo = Tail(todo) /\ L.h = run[r].h /\ L.card = run[r].card
            /\ L.id = run[r].id /\ L.data = run[r].data /\ L.next = run[r].next
            /\ Become(r, Goes(L)) /\ Sound(Goes(L), nextProduct)
            /\ typed'.media = IF run[r].h = "media" THEN typed.media + 1 ELSE typed.media
            /\ typed'.quantities = typed.quantities
            /\ typed' \in [media : Nat, quantities : [Sizes -> Nat]]
            /\ UNCHANGED <<db, screen, credit, bounds>>
<1>. DEFINE todo == run[r].todo
            w == todo[1]
            L == [run[r] EXCEPT !.todo = Tail(todo)]
<1>1. /\ run[r].pc = "redis" /\ fsm' = Written(Head(todo)) /\ Become(r, Goes(L))
      /\ UNCHANGED <<db, screen, credit, bounds>>
      /\ typed' = IF run[r].h = "media" THEN [typed EXCEPT !.media = @ + 1] ELSE typed
  BY DEF WriteRedis
<1>2. /\ Head(todo) = w /\ GoodWrite(w, nextProduct) /\ Tail(todo) \in Seq(Writes)
      /\ GoodWrites(Tail(todo), nextProduct)
  BY <1>1, Heads
<1>3. w \in Writes /\ w.to.product < nextProduct
  BY <1>2 DEF GoodWrite
<1>4. fsm' = Written(w)
  BY <1>1, <1>2
<1>. HIDE DEF w
<1>5. fsm' \in FsmRecord /\ fsm'.product < nextProduct
  BY <1>3, <1>4, WrittenRecord, BaseFacts
<1>6. run[r] \in RunRecord /\ run[r].data.product < nextProduct /\ run[r].next \notin AddStages
  BY BaseFacts DEF Sound
<1>7. /\ L \in RunRecord /\ L.todo = Tail(todo) /\ L.h = run[r].h /\ L.card = run[r].card
      /\ L.id = run[r].id /\ L.data = run[r].data /\ L.next = run[r].next
  BY <1>2, <1>6 DEF RunRecord
<1>. HIDE DEF L
<1>8. Sound(Goes(L), nextProduct)
  BY <1>2, <1>6, <1>7, GoesSound, BaseFacts
<1>9. /\ typed'.media = IF run[r].h = "media" THEN typed.media + 1 ELSE typed.media
      /\ typed'.quantities = typed.quantities
      /\ typed' \in [media : Nat, quantities : [Sizes -> Nat]]
  BY <1>1, BaseFacts
<1>. QED
  BY <1>1, <1>4, <1>5, <1>7, <1>8, <1>9 DEF w, L

LEMMA SameHistory ==
  ASSUME Base, UNCHANGED <<screen, credit>>, typed' \in [media : Nat, quantities : [Sizes -> Nat]]
  PROVE  HistoryOK'
BY BaseFacts DEF HistoryOK

LEMMA WriteRedisBase == ASSUME Base, NEW r \in Runs, WriteRedis(r) PROVE Base'
<1>. DEFINE L == [run[r] EXCEPT !.todo = Tail(run[r].todo)]
<1>1. /\ fsm' \in FsmRecord /\ fsm'.product < nextProduct
      /\ Become(r, Goes(L)) /\ Sound(Goes(L), nextProduct)
      /\ typed' \in [media : Nat, quantities : [Sizes -> Nat]]
      /\ UNCHANGED <<db, screen, credit, bounds>>
  BY WriteRedisIs
<1>. HIDE DEF L
<1>2. nextProduct' = nextProduct /\ nextProduct <= nextProduct'
  BY <1>1, BaseFacts DEF db
<1>3. RowsOK' /\ HistoryOK'
  BY <1>1, SameRows, SameHistory, TypeParts DEF Base
<1>. QED
  BY <1>1, <1>2, <1>3, BusyBase

\* The card that is shown, and the record it leaves.
LEMMA ShowCardIs ==
  ASSUME Base, NEW r \in Runs, ShowCard(r)
  PROVE  /\ run[r].pc = "card" /\ Become(r, NoRun) /\ UNCHANGED <<db, typed, credit, bounds>>
         /\ LET p == IF run[r].id # 0 THEN run[r].id ELSE fsm.product
            IN \/ p \notin Live /\ UNCHANGED <<fsm, screen>>
               \/ /\ p \in Live /\ screen' \in [kind : {"card", "warehouse"}, product : 0..MaxProducts]
                  /\ screen'.product = p
                  /\ fsm' = fsm \/ fsm' = Written(Stage("view"))
<1>. DEFINE p == IF run[r].id # 0 THEN run[r].id ELSE fsm.product
<1>1. /\ run[r].pc = "card" /\ Become(r, NoRun) /\ UNCHANGED <<db, typed, credit, bounds>>
      /\ IF p \notin Live THEN UNCHANGED <<fsm, screen>>
         ELSE IF run[r].card = "edit"
         THEN /\ fsm' = Written(Stage("view"))
              /\ screen' = [kind |-> "card", product |-> p]
         ELSE /\ UNCHANGED fsm
              /\ screen' = [kind |-> "warehouse", product |-> p]
  BY DEF ShowCard
<1>2. p \in Live => p \in 0..MaxProducts
  BY Numbers DEF Live
<1>. HIDE DEF p
<1>3. CASE p \notin Live
  BY <1>1, <1>3 DEF p
<1>4. CASE p \in Live
  <2>1. screen' \in [kind : {"card", "warehouse"}, product : 0..MaxProducts] /\ screen'.product = p
    BY <1>1, <1>2, <1>4
  <2>2. fsm' = fsm \/ fsm' = Written(Stage("view"))
    BY <1>1, <1>4
  <2>. QED
    BY <1>1, <1>4, <2>1, <2>2 DEF p
<1>. QED
  BY <1>3, <1>4

LEMMA Viewed ==
  ASSUME Base
  PROVE  /\ Written(Stage("view")) \in FsmRecord
         /\ Written(Stage("view")).stage = "view"
         /\ Written(Stage("view")).media = fsm.media
         /\ Written(Stage("view")).quantities = fsm.quantities
         /\ Written(Stage("view")).product = fsm.product
BY StageWritten, WrittenRecord, BaseFacts DEF Stages, EditStages

LEMMA ShowCardBase == ASSUME Base, NEW r \in Runs, ShowCard(r) PROVE Base'
<1>1. Become(r, NoRun) /\ UNCHANGED <<db, typed, credit, bounds>>
  BY ShowCardIs
<1>2. fsm' = fsm \/ fsm' = Written(Stage("view"))
  BY ShowCardIs
<1>3. screen' \in [kind : {"none", "card", "warehouse", "confirm"}, product : 0..MaxProducts]
  <2>1. screen' = screen \/ screen' \in [kind : {"card", "warehouse"}, product : 0..MaxProducts]
    BY ShowCardIs
  <2>. QED
    BY <2>1, BaseFacts
<1>4. nextProduct' = nextProduct /\ nextProduct <= nextProduct'
  BY <1>1, BaseFacts DEF db
<1>5. RowsOK' /\ HistoryOK'
  BY <1>1, <1>3, SameRows, TypeParts, BaseFacts DEF Base, HistoryOK
<1>6. fsm' \in FsmRecord /\ fsm'.product < nextProduct'
  BY <1>2, <1>4, Viewed, BaseFacts
<1>. QED
  BY <1>1, <1>4, <1>5, <1>6, SoundBasics, BusyBase

\* get_or_create for a category and a brand at once.
LEMMA InsertBoth ==
  ASSUME RowsOK, NEW names \in [Kinds -> Names],
         \A k \in Kinds : groups[k][names[k]] = 0 => nextId[k] <= MaxIds,
         groups' \in [Kinds -> [Names -> Int]],
         \A k \in Kinds, x \in Names :
           groups'[k][x] = IF x = names[k] THEN Id(k, groups[k][x]) ELSE groups[k][x],
         nextId' = [k \in Kinds |-> IF groups[k][names[k]] = 0 THEN nextId[k] + 1 ELSE nextId[k]]
  PROVE  /\ groups' \in [Kinds -> [Names -> 0..MaxIds]] /\ nextId' \in [Kinds -> 1..MaxIds + 1]
         /\ \A k \in Kinds, x \in Names : groups'[k][x] < nextId'[k]
         /\ \A k \in Kinds : Ids(k) \subseteq Ids(k)'
         /\ \A k \in Kinds : Id(k, groups[k][names[k]]) \in Ids(k)' \cap 0..MaxIds
<1>1. ASSUME NEW k \in Kinds
      PROVE  /\ nextId'[k] \in 1..MaxIds + 1
             /\ Id(k, groups[k][names[k]]) \in 0..MaxIds /\ Id(k, groups[k][names[k]]) # 0
             /\ Id(k, groups[k][names[k]]) < nextId'[k] /\ nextId[k] <= nextId'[k]
             /\ nextId[k] \in Nat
  <2>. DEFINE found == groups[k][names[k]]
  <2>1. found \in 0..MaxIds /\ found < nextId[k] /\ nextId[k] \in 1..MaxIds + 1
    BY DEF RowsOK
  <2>2. /\ nextId'[k] = IF found = 0 THEN nextId[k] + 1 ELSE nextId[k]
        /\ found = 0 => nextId[k] <= MaxIds
    OBVIOUS
  <2>. HIDE DEF found
  <2>3. /\ nextId'[k] \in 1..MaxIds + 1 /\ Id(k, found) \in 0..MaxIds /\ Id(k, found) # 0
        /\ Id(k, found) < nextId'[k] /\ nextId[k] <= nextId'[k] /\ nextId[k] \in Nat
    BY <2>1, <2>2, Numbers DEF Id
  <2>. QED
    BY <2>3 DEF found
<1>2. ASSUME NEW k \in Kinds, NEW x \in Names
      PROVE  /\ groups'[k][x] \in 0..MaxIds /\ groups'[k][x] < nextId'[k]
             /\ groups[k][x] # 0 => groups'[k][x] = groups[k][x]
  <2>1. groups[k][x] \in 0..MaxIds /\ groups[k][x] < nextId[k]
    BY DEF RowsOK
  <2>2. CASE x = names[k]
    BY <1>1, <2>1, <2>2 DEF Id
  <2>3. CASE x # names[k]
    <3>1. groups'[k][x] = groups[k][x] /\ nextId[k] <= nextId'[k] /\ nextId[k] \in Nat
          /\ nextId'[k] \in 1..MaxIds + 1
      BY <1>1, <2>3
    <3>. QED
      BY <2>1, <3>1, Numbers
  <2>. QED
    BY <2>2, <2>3
<1>3. groups' \in [Kinds -> [Names -> 0..MaxIds]] /\ nextId' \in [Kinds -> 1..MaxIds + 1]
  BY <1>1, <1>2
<1>4. ASSUME NEW k \in Kinds PROVE Ids(k) \subseteq Ids(k)'
  BY <1>2 DEF Ids
<1>5. ASSUME NEW k \in Kinds PROVE Id(k, groups[k][names[k]]) \in Ids(k)' \cap 0..MaxIds
  <2>1. groups'[k][names[k]] = Id(k, groups[k][names[k]])
    OBVIOUS
  <2>. QED
    BY <1>1, <2>1 DEF Ids
<1>. QED
  BY <1>2, <1>3, <1>4, <1>5

\* The calls of the web API as the invariant sees them.
AdminIs ==
  /\ UNCHANGED <<fsm, run, history, overlaps, strayed, crashes>>
  /\ outside' = outside + 1 /\ updates' = updates + 1
  /\ \A r \in Runs : run[r].pc # "redis"
  /\ nextProduct' \in {nextProduct, nextProduct + 1} /\ RowsOK'
  /\ \A p \in Live' :
       \/ p \in Live /\ products'[p].media = products[p].media
       \/ p = nextProduct /\ products'[p].media <= 1

LEMMA AdminCreateIs == ASSUME Base, AdminCreate PROVE AdminIs
<1>1. PICK c \in Names, b \in Names, s \in AdminSizes \cup {NoSize} :
       LET found == [k \in Kinds |-> groups[k][IF k = "category" THEN c ELSE b]]
       IN /\ \A k \in Kinds : found[k] = 0 => nextId[k] <= MaxIds
          /\ groups' = [groups EXCEPT !["category"][c] = Id("category", found["category"]),
                                      !["brand"][b] = Id("brand", found["brand"])]
          /\ nextId' = [k \in Kinds |-> IF found[k] = 0 THEN nextId[k] + 1 ELSE nextId[k]]
          /\ products' = [products EXCEPT ![nextProduct] =
                            [category |-> Id("category", found["category"]),
                             brand |-> Id("brand", found["brand"]),
                             media |-> IF s = NoSize THEN 0 ELSE 1,
                             stock |-> [i \in Sizes |-> IF i = s THEN 1 ELSE 0], edits |-> 0]]
  BY DEF AdminCreate
<1>. DEFINE names == [k \in Kinds |-> IF k = "category" THEN c ELSE b]
            idc == Id("category", groups["category"][names["category"]])
            idb == Id("brand", groups["brand"][names["brand"]])
            media == IF s = NoSize THEN 0 ELSE 1
            stock == [i \in Sizes |-> IF i = s THEN 1 ELSE 0]
            row == [category |-> idc, brand |-> idb, media |-> media, stock |-> stock, edits |-> 0]
<1>2. RowsOK /\ nextProduct \in 1..MaxProducts /\ nextProduct' = nextProduct + 1
  BY TypeParts, BaseFacts, Numbers DEF AdminCreate, Base
<1>3. names \in [Kinds -> Names] /\ names["category"] = c /\ names["brand"] = b
  BY DEF Kinds
<1>4. /\ \A k \in Kinds : groups[k][names[k]] = 0 => nextId[k] <= MaxIds
      /\ groups' = [groups EXCEPT !["category"][c] = idc, !["brand"][b] = idb]
      /\ nextId' = [k \in Kinds |-> IF groups[k][names[k]] = 0 THEN nextId[k] + 1 ELSE nextId[k]]
      /\ products' = [products EXCEPT ![nextProduct] = row]
  BY <1>1 DEF Kinds
<1>5. groups \in [Kinds -> [Names -> 0..MaxIds]] /\ nextId \in [Kinds -> 1..MaxIds + 1]
  BY <1>2 DEF RowsOK
<1>6. idc \in Int /\ idb \in Int
  BY <1>3, <1>5, Numbers DEF Id, Kinds
<1>7. groups' \in [Kinds -> [Names -> Int]]
  <2>. HIDE DEF idc, idb
  <2>1. groups \in [Kinds -> [Names -> Int]]
    BY <1>5, Numbers
  <2>. QED
    BY <1>4, <1>6, <2>1
<1>8. ASSUME NEW k \in Kinds, NEW x \in Names
      PROVE  groups'[k][x] = IF x = names[k] THEN Id(k, groups[k][x]) ELSE groups[k][x]
  <2>1. groups'[k][x] = IF k = "category" /\ x = c THEN idc
                        ELSE IF k = "brand" /\ x = b THEN idb ELSE groups[k][x]
    <3>. HIDE DEF idc, idb
    <3>. QED
      BY <1>4, <1>5 DEF Kinds
  <2>. QED
    BY <1>3, <2>1 DEF Kinds
<1>. HIDE DEF names
<1>9. /\ groups' \in [Kinds -> [Names -> 0..MaxIds]] /\ nextId' \in [Kinds -> 1..MaxIds + 1]
      /\ \A k \in Kinds, x \in Names : groups'[k][x] < nextId'[k]
      /\ \A k \in Kinds : Ids(k) \subseteq Ids(k)'
      /\ \A k \in Kinds : Id(k, groups[k][names[k]]) \in Ids(k)' \cap 0..MaxIds
  BY <1>2, <1>3, <1>4, <1>7, <1>8, InsertBoth
<1>10. idc \in Ids("category")' \cap 0..MaxIds /\ idb \in Ids("brand")' \cap 0..MaxIds
  BY <1>9 DEF Kinds
<1>. HIDE DEF idc, idb
<1>11. media \in Nat /\ media <= 1 /\ stock \in [Sizes -> Nat]
  OBVIOUS
<1>. HIDE DEF media, stock
<1>12. row \in Row /\ row.category = idc /\ row.brand = idb /\ row.media = media
  BY <1>10, <1>11 DEF Row
<1>. HIDE DEF row
<1>13. /\ nextProduct' \in 1..MaxProducts + 1 /\ nextProduct <= nextProduct'
       /\ nextProduct < nextProduct'
  BY <1>2, Numbers
<1>14. RowsOK'
  BY <1>2, <1>4, <1>9, <1>10, <1>12, <1>13, MoreIds
<1>15. ASSUME NEW p \in Live'
       PROVE  \/ p \in Live /\ products'[p].media = products[p].media
              \/ p = nextProduct /\ products'[p].media <= 1
  <2>1. products \in [1..MaxProducts -> Row]
    BY <1>2 DEF RowsOK
  <2>2. p \in 1..MaxProducts /\ products'[p] # NoProduct
    BY DEF Live
  <2>. QED
    BY <1>2, <1>4, <1>11, <1>12, <2>1, <2>2 DEF Live
<1>. QED
  BY <1>2, <1>14, <1>15 DEF AdminIs, AdminCreate, Admin

LEMMA AdminUpdateIs == ASSUME Base, AdminUpdate PROVE AdminIs
<1>1. PICK p \in Live, kind \in Kinds, n \in Names, s \in AdminSizes :
       LET found == groups[kind][n]
       IN /\ Insertable(kind, n, found) /\ Insert(kind, n, found)
          /\ products' = [products EXCEPT ![p][kind] = Id(kind, found),
                                          ![p].stock[s] = 1, ![p].edits = @ + 1]
  BY DEF AdminUpdate
<1>. DEFINE found == groups[kind][n]
            id == Id(kind, found)
            row == [products[p] EXCEPT ![kind] = id, !.stock[s] = 1, !.edits = @ + 1]
<1>2. RowsOK /\ nextProduct' = nextProduct /\ s \in Sizes
  BY TypeParts, OwnerAssumption DEF AdminUpdate, Base
<1>3. found \in Nat
  BY <1>2, Numbers DEF RowsOK
<1>4. /\ groups' \in [Kinds -> [Names -> 0..MaxIds]] /\ nextId' \in [Kinds -> 1..MaxIds + 1]
      /\ \A k \in Kinds, x \in Names : groups'[k][x] < nextId'[k]
      /\ \A k \in Kinds : Ids(k) \subseteq Ids(k)'
      /\ found = 0 => id \in Ids(kind)'
      /\ found # 0 => id = found
  BY <1>1, <1>2, <1>3, InsertKeeps
<1>5. id \in Ids(kind)'
  <2>1. found # 0 => found \in Ids(kind)
    BY DEF Ids
  <2>. QED
    BY <1>4, <2>1
<1>6. id \in 0..MaxIds
  BY <1>4, <1>5 DEF Ids
<1>7. products[p] \in Row /\ p \in 1..MaxProducts /\ p < nextProduct
      /\ products[p].category \in Ids("category") /\ products[p].brand \in Ids("brand")
      /\ products \in [1..MaxProducts -> Row]
  BY <1>2, RowOf DEF RowsOK
<1>8. products' = [products EXCEPT ![p] = row]
  <2>. HIDE DEF id, found
  <2>1. products' = [products EXCEPT ![p][kind] = id, ![p].stock[s] = 1, ![p].edits = @ + 1]
    BY <1>1 DEF id, found
  <2>. QED
    BY <1>7, <2>1
<1>9. /\ row \in Row /\ row.media = products[p].media
      /\ row.category = IF kind = "category" THEN id ELSE products[p].category
      /\ row.brand = IF kind = "brand" THEN id ELSE products[p].brand
  <2>. HIDE DEF id, found
  <2>1. PICK old : old = products[p] /\ old \in Row
    BY <1>7
  <2>2. row = [old EXCEPT ![kind] = id, !.stock[s] = 1, !.edits = @ + 1]
    BY <2>1
  <2>. HIDE DEF row
  <2>3. row.media = old.media
    BY <1>2, <1>6, <2>1, <2>2 DEF Row, Kinds
  <2>4. /\ row.category = IF kind = "category" THEN id ELSE old.category
        /\ row.brand = IF kind = "brand" THEN id ELSE old.brand
    BY <1>2, <1>6, <2>1, <2>2 DEF Row, Kinds
  <2>5. row.stock = [old.stock EXCEPT ![s] = 1]
    BY <1>2, <1>6, <2>1, <2>2 DEF Row, Kinds
  <2>6. row.edits = old.edits + 1
    <3>1. CASE kind = "category"
      BY <1>2, <1>6, <2>1, <2>2, <3>1 DEF Row
    <3>2. CASE kind = "brand"
      BY <1>2, <1>6, <2>1, <2>2, <3>2 DEF Row
    <3>. QED
      BY <3>1, <3>2 DEF Kinds
  <2>7. /\ DOMAIN row = {"category", "brand", "media", "stock", "edits"}
        /\ row = [f \in DOMAIN row |-> row[f]]
    BY <1>2, <1>6, <2>1, <2>2 DEF Row, Kinds
  <2>8. row.stock \in [Sizes -> Nat] /\ row.edits \in Nat
    BY <1>2, <2>1, <2>5, <2>6 DEF Row
  <2>9. row \in Row
    BY <1>6, <2>1, <2>3, <2>4, <2>7, <2>8 DEF Row
  <2>. QED
    BY <2>1, <2>3, <2>4, <2>9
<1>. HIDE DEF row
<1>10. row.category \in Ids("category")' /\ row.brand \in Ids("brand")'
  <2>. HIDE DEF id, found
  <2>1. Ids("category") \subseteq Ids("category")' /\ Ids("brand") \subseteq Ids("brand")'
    BY <1>4 DEF Kinds
  <2>. QED
    BY <1>5, <1>7, <1>9, <2>1 DEF Kinds
<1>11. nextProduct' \in 1..MaxProducts + 1 /\ nextProduct <= nextProduct' /\ p < nextProduct'
  BY <1>2, <1>7, BaseFacts DEF RowsOK
<1>12. RowsOK'
  BY <1>2, <1>4, <1>7, <1>8, <1>9, <1>10, <1>11, MoreIds
<1>13. ASSUME NEW q \in Live' PROVE q \in Live /\ products'[q].media = products[q].media
  BY <1>7, <1>8, <1>9 DEF Live
<1>. QED
  BY <1>2, <1>12, <1>13 DEF AdminIs, AdminUpdate, Admin

LEMMA AdminDeleteIs == ASSUME Base, AdminDelete PROVE AdminIs
<1>1. PICK p \in Live : products' = [products EXCEPT ![p] = NoProduct]
  BY DEF AdminDelete
<1>2. RowsOK /\ UNCHANGED <<groups, nextId, nextProduct>>
  BY TypeParts DEF AdminDelete, Base
<1>3. RowsOK'
  BY <1>1, <1>2, OneRow
<1>4. ASSUME NEW q \in Live' PROVE q \in Live /\ products'[q].media = products[q].media
  BY <1>1, <1>2 DEF Live, RowsOK
<1>. QED
  BY <1>2, <1>3, <1>4 DEF AdminIs, AdminDelete, Admin

LEMMA AdminBase == ASSUME Base, AdminIs PROVE Base'
<1>1. /\ RowsOK' /\ UNCHANGED <<fsm, run, history, overlaps, strayed, crashes>>
      /\ outside' = outside + 1 /\ updates' = updates + 1
      /\ nextProduct' \in {nextProduct, nextProduct + 1}
  BY DEF AdminIs
<1>2. nextProduct \in Nat /\ nextProduct' \in Nat /\ nextProduct <= nextProduct'
  BY <1>1, BaseFacts
<1>3. BoundsOK /\ HistoryOK /\ fsm \in FsmRecord /\ run \in [Runs -> RunRecord]
  BY TypeParts DEF Base
<1>4. BoundsOK' /\ HistoryOK'
  BY <1>1, <1>3 DEF BoundsOK, HistoryOK, history
<1>5. ASSUME NEW r \in Runs PROVE Sound(run'[r], nextProduct')
  <2>1. Sound(run[r], nextProduct)
    BY BaseFacts
  <2>. QED
    BY <1>1, <1>2, <2>1, SoundLater
<1>6. fsm'.product < nextProduct'
  BY <1>1, <1>2, BaseFacts
<1>7. TypeOK'
  BY <1>1, <1>3, <1>4, TypePartsNext
<1>. QED
  BY <1>5, <1>6, <1>7 DEF Base, Past

LEMMA CrashBase == ASSUME Base, Crash PROVE Base'
<1>1. /\ run' = [r \in Runs |-> NoRun] /\ UNCHANGED <<db, fsm, history, overlaps, strayed>>
      /\ updates' = updates /\ outside' = outside /\ crashes' = crashes + 1
  BY DEF Crash
<1>2. BoundsOK /\ HistoryOK /\ RowsOK /\ fsm \in FsmRecord
  BY TypeParts DEF Base
<1>3. BoundsOK' /\ HistoryOK'
  BY <1>1, <1>2 DEF BoundsOK, HistoryOK, history
<1>4. RowsOK' /\ nextProduct' = nextProduct
  BY <1>1, <1>2, SameRows DEF db
<1>5. run' \in [Runs -> RunRecord]
  BY <1>1, NoRunType
<1>6. ASSUME NEW r \in Runs PROVE Sound(run'[r], nextProduct')
  BY <1>1, <1>4, NoRunSound, BaseFacts
<1>7. TypeOK'
  BY <1>1, <1>2, <1>3, <1>4, <1>5, TypePartsNext
<1>. QED
  BY <1>1, <1>4, <1>6, <1>7, BaseFacts DEF Base, Past

LEMMA StutterBase == ASSUME Base, UNCHANGED vars PROVE Base'
<1>1. /\ UNCHANGED <<db, fsm, run, history, bounds>>
  BY DEF vars
<1>2. BoundsOK /\ HistoryOK /\ RowsOK /\ fsm \in FsmRecord /\ run \in [Runs -> RunRecord]
  BY TypeParts DEF Base
<1>3. BoundsOK' /\ HistoryOK' /\ RowsOK' /\ nextProduct' = nextProduct
  BY <1>1, <1>2, SameRows DEF BoundsOK, HistoryOK, history, bounds, db
<1>4. TypeOK'
  BY <1>1, <1>2, <1>3, TypePartsNext
<1>. QED
  BY <1>1, <1>3, <1>4 DEF Base, Past

-----------------------------------------------------------------------------
(***************************************************************************)
(* Photos, and that a run is alone.                                        *)
(***************************************************************************)

\* A step of one busy run.
OneStep(r) ==
  Busy(r) /\ run' = [run EXCEPT ![r] = run'[r]] /\ UNCHANGED <<overlaps, crashes>>

LEMMA OneStepIs ==
  ASSUME Base, NEW r \in Runs, NEW L, run[r].pc # "idle", Become(r, L), UNCHANGED bounds
  PROVE  OneStep(r) /\ run'[r] = L /\ \A q \in Runs \ {r} : run'[q] = run[q]
BY BaseFacts DEF OneStep, Become, Busy, bounds

LEMMA AloneStep ==
  ASSUME Base, Alone, NEW r \in Runs, OneStep(r) PROVE Alone'
<1>1. /\ Busy(r) /\ \A q \in Runs \ {r} : run'[q] = run[q]
      /\ overlaps' = overlaps
  BY BaseFacts DEF OneStep
<1>. QED
  BY <1>1 DEF Alone, Busy

LEMMA AloneInput ==
  ASSUME Base, NEW r \in Runs, Input(r) PROVE Alone'
<1>1. /\ \A q \in Runs \ {r} : run'[q] = run[q]
      /\ overlaps' = 0 => \A q \in Runs : run[q].pc = "idle"
  BY BaseFacts DEF Input
<1>. QED
  BY <1>1 DEF Alone, Busy

\* Nobody else is busy.
LEMMA RestIdle ==
  ASSUME Base, Alone, overlaps = 0, NEW r \in Runs, Busy(r)
  PROVE  \A q \in Runs \ {r} : run[q] = NoRun
BY BaseFacts DEF Alone, Busy, Sound

LEMMA AllIdle ==
  ASSUME Base, NEW r \in Runs, Input(r), overlaps' = 0
  PROVE  overlaps = 0 /\ \A q \in Runs : run[q] = NoRun
BY BaseFacts DEF Input, Sound

LEMMA UploadsFinite ==
  /\ Cardinality(Runs) \in Nat \ {0}
  /\ \A p : /\ IsFiniteSet(Uploads(p)) /\ Cardinality(Uploads(p)) \in Nat
            /\ Cardinality(Uploads(p)) <= Cardinality(Runs)
<1>1. IsFiniteSet(Runs) /\ Runs # {}
  BY OwnerAssumption
<1>2. Cardinality(Runs) \in Nat \ {0}
  BY <1>1, FS_CardinalityType, FS_EmptySet
<1>3. ASSUME NEW p
      PROVE  /\ IsFiniteSet(Uploads(p)) /\ Cardinality(Uploads(p)) \in Nat
             /\ Cardinality(Uploads(p)) <= Cardinality(Runs)
  <2>1. Uploads(p) \subseteq Runs
    BY DEF Uploads
  <2>. QED
    BY <1>1, <2>1, FS_Subset, FS_CardinalityType
<1>. QED
  BY <1>2, <1>3

LEMMA UploadsFiniteNext ==
  \A p : /\ IsFiniteSet(Uploads(p)') /\ Cardinality(Uploads(p)') \in Nat
         /\ Cardinality(Uploads(p)') <= Cardinality(Runs)
<1>1. IsFiniteSet(Runs)
  BY OwnerAssumption
<1>. TAKE p
<1>2. Uploads(p)' \subseteq Runs
  BY DEF Uploads
<1>. QED
  BY <1>1, <1>2, FS_Subset, FS_CardinalityType

\* What a step may do to the photos of a product, and to the uploads under way.
NoMorePhotos(p) ==
  p \in Live /\ products'[p].media <= products[p].media /\ Uploads(p)' \subseteq Uploads(p)
NewPhotos(p) == products'[p].media <= MaxMedia /\ Uploads(p)' = {}
CountedPhotos(p) ==
  p \in Live /\ products'[p].media = products[p].media /\ products[p].media < MaxMedia
OnePhoto(r, p) ==
  /\ p \in Live /\ products'[p].media = products[p].media + 1
  /\ r \in Uploads(p) /\ Uploads(p)' \subseteq Uploads(p) \ {r}

LEMMA PhotosStep ==
  ASSUME Base, TypeOK', Alone, NEW p \in Live', p \in Live => Photos(p), overlaps' = 0 => overlaps = 0,
         \/ NoMorePhotos(p)
         \/ NewPhotos(p)
         \/ CountedPhotos(p)
         \/ \E r \in Runs : OnePhoto(r, p)
  PROVE  Photos(p)'
<1>. DEFINE m == products[p].media
            n == products'[p].media
            c == Cardinality(Uploads(p))
            d == Cardinality(Uploads(p)')
            a == Cardinality(Runs)
<1>1. /\ n \in Nat /\ c \in Nat /\ d \in Nat /\ a \in Nat \ {0} /\ c <= a /\ d <= a
      /\ IsFiniteSet(Uploads(p)) /\ MaxMedia \in Nat \ {0}
  <2>1. products'[p] \in Row
    BY DEF TypeOK, Live
  <2>. QED
    BY <2>1, UploadsFinite, UploadsFiniteNext, Numbers DEF Row
<1>2. p \in Live => /\ m \in Nat /\ m + c < MaxMedia + a
                    /\ overlaps = 0 => m <= MaxMedia /\ (Uploads(p) # {} => m < MaxMedia)
  BY RowOf DEF Photos
<1>. HIDE DEF m, n
<1>3. SUFFICES /\ n + d < MaxMedia + a
               /\ overlaps' = 0 => n <= MaxMedia /\ (Uploads(p)' # {} => n < MaxMedia)
  BY DEF Photos, n
<1>4. CASE NoMorePhotos(p)
  <2>1. d <= c
    BY <1>1, <1>4, FS_Subset DEF NoMorePhotos
  <2>2. p \in Live /\ n <= m /\ (Uploads(p)' # {} => Uploads(p) # {})
    BY <1>4 DEF NoMorePhotos, m, n
  <2>. HIDE DEF c, d, a
  <2>. QED
    BY <1>1, <1>2, <2>1, <2>2
<1>5. CASE NewPhotos(p)
  <2>1. d = 0 /\ n <= MaxMedia /\ Uploads(p)' = {}
    BY <1>5, FS_EmptySet DEF NewPhotos, n
  <2>. HIDE DEF c, d, a
  <2>. QED
    BY <1>1, <2>1
<1>6. CASE CountedPhotos(p)
  <2>1. p \in Live /\ n = m /\ m < MaxMedia
    BY <1>6 DEF CountedPhotos, m, n
  <2>. HIDE DEF c, d, a
  <2>. QED
    BY <1>1, <1>2, <2>1
<1>7. ASSUME NEW r \in Runs, OnePhoto(r, p)
      PROVE  /\ n + d < MaxMedia + a
             /\ overlaps' = 0 => n <= MaxMedia /\ (Uploads(p)' # {} => n < MaxMedia)
  <2>1. p \in Live /\ n = m + 1 /\ r \in Uploads(p) /\ Uploads(p)' \subseteq Uploads(p) \ {r}
    BY <1>7 DEF OnePhoto, m, n
  <2>2. /\ IsFiniteSet(Uploads(p) \ {r}) /\ Cardinality(Uploads(p) \ {r}) = c - 1
    BY <1>1, <2>1, FS_RemoveElement
  <2>3. d <= c - 1
    BY <2>1, <2>2, FS_Subset
  <2>4. ASSUME overlaps' = 0 PROVE Uploads(p)' = {}
    <3>1. \A q \in Uploads(p) : q \in Runs /\ Busy(q)
      BY DEF Uploads, Busy
    <3>2. \A q \in Uploads(p) : q = r
      BY <2>1, <2>4, <3>1 DEF Alone
    <3>. QED
      BY <2>1, <3>2
  <2>5. overlaps' = 0 => m < MaxMedia
    BY <1>2, <2>1
  <2>. HIDE DEF c, d, a
  <2>. QED
    BY <1>1, <1>2, <2>1, <2>3, <2>4, <2>5
<1>. QED
  BY <1>4, <1>5, <1>6, <1>7

AllPhotos == \A p \in Live : Photos(p)

\* A step that adds no photos and counts none.
FewerPhotos == \A p \in Live' : p \in Live /\ products'[p].media <= products[p].media
LEMMA KeptPhotos ==
  ASSUME Base, TypeOK', Alone, AllPhotos, overlaps' = 0 => overlaps = 0, FewerPhotos,
         \A q \in Runs : run'[q] = run[q] \/ run'[q].pc # "commit" \/ run'[q].h # "photo"
  PROVE  AllPhotos'
<1>. SUFFICES ASSUME NEW p \in Live' PROVE Photos(p)'
  BY DEF AllPhotos
<1>1. Uploads(p)' \subseteq Uploads(p)
  BY DEF Uploads
<1>2. NoMorePhotos(p) /\ p \in Live
  BY <1>1 DEF NoMorePhotos, FewerPhotos
<1>3. Photos(p)
  BY <1>2 DEF AllPhotos
<1>. QED
  BY <1>2, <1>3, PhotosStep

LEMMA SamePhotos == ASSUME Base, UNCHANGED db PROVE FewerPhotos /\ Live' = Live
<1>1. products' = products
  BY DEF db
<1>2. Live' = Live
  BY <1>1 DEF Live
<1>. QED
  BY <1>1, <1>2, RowOf DEF FewerPhotos

LEMMA InputPhotos ==
  ASSUME Base, Alone, AllPhotos, NEW r \in Runs, Input(r) PROVE AllPhotos'
<1>1. /\ \A q \in Runs \ {r} : run'[q] = run[q]
      /\ UNCHANGED db /\ (overlaps' = 0 => overlaps = 0)
  BY BaseFacts DEF Input
<1>2. run'[r].pc # "commit" \/ run'[r].h # "photo"
  <2>1. CASE Asking(run'[r], fsm)
    BY <2>1 DEF Asking
  <2>2. ASSUME NEW todo, GoodWrites(todo, nextProduct), run'[r] = Finish(todo)
        PROVE  run'[r].h # "photo"
    BY <2>2, FinishIs DEF GoodWrites
  <2>3. ASSUME NEW todo, GoodWrites(todo, nextProduct), NEW card \in Cards, NEW p \in Nat,
               run'[r] = Show(todo, card, p)
        PROVE  run'[r].h # "photo"
    BY <2>3, ShowIs DEF GoodWrites
  <2>4. ASSUME NEW p \in 1..nextProduct - 1 PROVE GoodWrites(<<Field("product", p)>>, nextProduct)
    <3>1. p \in 0..MaxProducts /\ p < nextProduct
      BY BaseFacts, Numbers
    <3>2. [NoFields EXCEPT !["product"] = p] \in FsmRecord
          /\ "product" \in Fields \ {"stage", "sizes", "idx"}
      BY <3>1, NoFieldsType, FieldsAre DEF FsmRecord
    <3>. QED
      BY <3>1, <3>2, GoodField, GoodTuples, BaseFacts
  <2>5. GoodWrites(<<>>, nextProduct) /\ 0 \in Nat /\ \A p \in 1..nextProduct - 1 : p \in Nat
    BY BaseFacts DEF GoodWrites
  <2>. QED
    BY <2>1, <2>2, <2>3, <2>4, <2>5 DEF Input, Writing
<1>3. TypeOK'
  BY InputBase DEF Base
<1>. QED
  BY <1>1, <1>2, <1>3, SamePhotos, KeptPhotos

\* Steps of a busy run that end without a photo counted.
LEMMA OneStepPhotos ==
  ASSUME Base, Base', Alone, AllPhotos, NEW r \in Runs, OneStep(r), FewerPhotos,
         run'[r].pc # "commit" \/ run'[r].h # "photo"
  PROVE  AllPhotos'
<1>1. /\ \A q \in Runs \ {r} : run'[q] = run[q]
      /\ overlaps' = 0 => overlaps = 0
  BY BaseFacts DEF OneStep
<1>2. TypeOK'
  BY DEF Base
<1>. QED
  BY <1>1, <1>2, KeptPhotos

\* The read that counts the photos.
LEMMA ReadPhotoPhotos ==
  ASSUME Base, Base', Alone, AllPhotos, NEW r \in Runs, ReadPhoto(r) PROVE AllPhotos'
<1>. DEFINE f == fsm.product
<1>1. run[r].pc = "read" /\ UNCHANGED <<db, fsm, screen, credit, bounds>>
  BY DEF ReadPhoto, Reads
<1>2. CASE Become(r, NoRun)
  BY <1>1, <1>2, OneStepIs, SamePhotos, OneStepPhotos, NoRunFields
<1>3. CASE f \in Live /\ products[f].media < MaxMedia /\ Become(r, Commits(run[r]))
  <2>1. /\ OneStep(r) /\ run'[r] = Commits(run[r]) /\ \A q \in Runs \ {r} : run'[q] = run[q]
        /\ overlaps' = overlaps /\ products' = products
    BY <1>1, <1>3, OneStepIs DEF bounds, db
  <2>2. run'[r].data.product = f
    BY <1>1, <2>1, CommitsSound
  <2>3. Live' = Live
    BY <1>1, SamePhotos
  <2>. SUFFICES ASSUME NEW p \in Live' PROVE Photos(p)'
    BY DEF AllPhotos
  <2>4. CASE p = f
    <3>1. CountedPhotos(p)
      BY <1>3, <2>1, <2>4 DEF CountedPhotos
    <3>. QED
      BY <2>1, <2>3, <3>1, PhotosStep DEF AllPhotos, Base
  <2>5. CASE p # f
    <3>1. Uploads(p)' \subseteq Uploads(p)
      BY <2>1, <2>2, <2>5 DEF Uploads
    <3>2. NoMorePhotos(p)
      BY <2>1, <2>3, <3>1, RowOf DEF NoMorePhotos
    <3>. QED
      BY <2>1, <2>3, <3>2, PhotosStep DEF AllPhotos, Base
  <2>. QED
    BY <2>4, <2>5
<1>. QED
  BY <1>2, <1>3 DEF ReadPhoto

LEMMA ShowRun ==
  ASSUME NEW todo \in Seq(Writes), NEW card \in Cards \ {"none"}, NEW p \in Nat,
         NEW L, L = Show(todo, card, p)
  PROVE  /\ L.h = "none" /\ L.data = NoFields /\ L.todo = todo /\ L.card = card /\ L.id = p
         /\ L.card # "none"
         /\ todo = <<>> => L.pc = "card"
         /\ todo # <<>> => L.pc = "redis"
<1>1. card \in Cards /\ card # "none"
  OBVIOUS
<1>2. L.h = "none" /\ L.data = NoFields /\ L.todo = todo
  BY <1>1, ShowIs
<1>3. /\ L.card = card /\ L.id = p
      /\ todo = <<>> => L.pc = "card"
      /\ todo # <<>> => L.pc = "redis"
  BY <1>1, ShowIs
<1>. QED
  BY <1>1, <1>2, <1>3

\* What is left after a commit is not an upload.
LEMMA AfterwardsIs ==
  ASSUME Base, NEW L \in Afterwards
  PROVE  /\ L.pc # "commit" /\ L.h = "none" /\ L.data = NoFields
         /\ \/ L = NoRun
            \/ L.pc = "redis" /\ L.todo = Clear /\ L.card = "none" /\ L.id = 0
            \/ L.pc = "card" /\ L.todo = <<>> /\ L.card # "none" /\ L.id = 0
            \/ L.pc = "redis" /\ L.todo = <<Stage("idle")>> /\ L.card # "none" /\ L.id = 0
<1>1. "edit" \in Cards /\ "warehouse" \in Cards /\ 0 \in Nat /\ <<>> \in Seq(Writes)
      /\ "none" # "edit" /\ "none" # "warehouse"
  BY DEF Cards
<1>2. Stage("idle") \in Writes
  BY StageWritten DEF Stages
<1>3. <<Stage("idle")>> \in Seq(Writes) /\ <<Stage("idle")>> # <<>>
  BY <1>2
<1>4. CASE L = NoRun
  BY <1>4, NoRunFields
<1>5. CASE L = Finish(Clear)
  BY <1>5, SoundBasics, FinishIs
<1>6. ASSUME NEW todo \in Seq(Writes), NEW card \in Cards \ {"none"}, L = Show(todo, card, 0)
      PROVE  /\ L.h = "none" /\ L.data = NoFields /\ L.todo = todo /\ L.card # "none" /\ L.id = 0
             /\ todo = <<>> => L.pc = "card"
             /\ todo # <<>> => L.pc = "redis"
  BY <1>1, <1>6, ShowRun
<1>7. CASE L \in {Show(<<>>, "edit", 0), Show(<<Stage("idle")>>, "warehouse", 0)}
  <2>1. "edit" \in Cards \ {"none"} /\ "warehouse" \in Cards \ {"none"}
    BY DEF Cards
  <2>2. CASE L = Show(<<>>, "edit", 0)
    BY <1>1, <1>6, <2>1, <2>2
  <2>3. CASE L = Show(<<Stage("idle")>>, "warehouse", 0)
    BY <1>3, <1>6, <2>1, <2>3
  <2>. QED
    BY <1>7, <2>2, <2>3
<1>. QED
  BY <1>4, <1>5, <1>7 DEF Afterwards

LEMMA OneChangePhotos ==
  ASSUME Base, Base', Alone, AllPhotos, NEW r \in Runs, OneChange(r) PROVE AllPhotos'
<1>1. PICK L \in Afterwards : Become(r, L)
  BY DEF OneChange
<1>2. run[r].pc = "commit" /\ UNCHANGED bounds
  BY DEF OneChange
<1>3. /\ OneStep(r) /\ run'[r] = L /\ \A q \in Runs \ {r} : run'[q] = run[q]
      /\ overlaps' = overlaps
  BY <1>1, <1>2, OneStepIs DEF bounds
<1>4. run'[r].pc # "commit"
  BY <1>3, AfterwardsIs
<1>5. CASE FewerPhotos
  BY <1>3, <1>4, <1>5, OneStepPhotos
<1>6. CASE Nothing
  BY <1>3, <1>4, <1>6, OneStepPhotos, SamePhotos DEF Nothing
<1>7. ASSUME NEW p, NEW row, Changed(r, p, row) PROVE AllPhotos'
  <2>1. /\ p \in Live /\ products' = [products EXCEPT ![p] = row] /\ p = Target(r)
        /\ products \in [1..MaxProducts -> Row]
    BY <1>7 DEF Changed, Base, TypeOK
  <2>2. \A q \in Live' : q \in Live /\ (q # p => products'[q] = products[q])
    BY <2>1 DEF Live
  <2>3. products'[p] = row
    BY <2>1, RowOf
  <2>4. CASE row = NoProduct \/ row.media <= products[p].media
    <3>1. p \in Live' => row # NoProduct
      BY <2>3 DEF Live
    <3>2. FewerPhotos
      BY <2>2, <2>3, <2>4, <3>1, RowOf DEF FewerPhotos
    <3>. QED
      BY <1>5, <3>2
  <2>5. CASE run[r].h = "photo" /\ row.media = products[p].media + 1
    <3>1. r \in Uploads(p)
      BY <1>2, <2>1, <2>5 DEF Uploads, Target
    <3>2. \A q : Uploads(q)' \subseteq Uploads(q) \ {r}
      BY <1>3, <1>4 DEF Uploads
    <3>. SUFFICES ASSUME NEW q \in Live' PROVE Photos(q)'
      BY DEF AllPhotos
    <3>3. q \in Live /\ Photos(q) /\ TypeOK'
      BY <2>2 DEF AllPhotos, Base
    <3>4. CASE q = p
      <4>1. OnePhoto(r, q)
        BY <2>1, <2>3, <2>5, <3>1, <3>2, <3>4 DEF OnePhoto
      <4>. QED
        BY <1>3, <3>3, <4>1, PhotosStep
    <3>5. CASE q # p
      <4>1. NoMorePhotos(q)
        BY <2>2, <3>2, <3>3, <3>5, RowOf DEF NoMorePhotos
      <4>. QED
        BY <1>3, <3>3, <4>1, PhotosStep
    <3>. QED
      BY <3>4, <3>5
  <2>. QED
    BY <1>7, <2>4, <2>5 DEF Changed
<1>. QED
  BY <1>6, <1>7 DEF OneChange

LEMMA CommitProductPhotos ==
  ASSUME Base, Base', Alone, AllPhotos, NEW r \in Runs, CommitProduct(r) PROVE AllPhotos'
<1>1. run[r].pc = "commit" /\ UNCHANGED bounds
  BY DEF CommitProduct, CommitsOf
<1>2. CASE Nothing /\ Become(r, NoRun)
  <2>1. OneStep(r) /\ run'[r].pc # "commit"
    BY <1>1, <1>2, OneStepIs, NoRunFields
  <2>. QED
    BY <1>2, <2>1, OneStepPhotos, SamePhotos DEF Nothing
<1>3. CASE /\ nextProduct \in 1..MaxProducts /\ Made(run[r].data) \in Row
           /\ run[r].data.category \in Ids("category") /\ run[r].data.brand \in Ids("brand")
           /\ products' = [products EXCEPT ![nextProduct] = Made(run[r].data)]
           /\ nextProduct' = nextProduct + 1 /\ credit' = credit - 1
           /\ UNCHANGED <<groups, nextId>> /\ Become(r, Finish(Clear))
  <2>1. /\ OneStep(r) /\ run'[r] = Finish(Clear) /\ \A q \in Runs \ {r} : run'[q] = run[q]
        /\ overlaps' = overlaps
    BY <1>1, <1>3, OneStepIs DEF bounds
  <2>2. run'[r].h = "none"
    BY <2>1, SoundBasics, FinishIs
  <2>3. \A p : Uploads(p)' \subseteq Uploads(p)
    BY <2>1, <2>2 DEF Uploads
  <2>4. Uploads(nextProduct) = {}
    BY RunData DEF Uploads
  <2>5. products'[nextProduct].media <= MaxMedia /\ products \in [1..MaxProducts -> Row]
    BY <1>3, RunData, Numbers, SMTT(30) DEF Made, Base, TypeOK
  <2>. SUFFICES ASSUME NEW p \in Live' PROVE Photos(p)'
    BY DEF AllPhotos
  <2>6. CASE p = nextProduct
    <3>1. NewPhotos(p) /\ p \notin Live
      BY <2>3, <2>4, <2>5, <2>6, RowOf DEF NewPhotos
    <3>. QED
      BY <2>1, <3>1, PhotosStep DEF Base
  <2>7. CASE p # nextProduct
    <3>1. p \in Live /\ products'[p] = products[p]
      BY <1>3, <2>5, <2>7 DEF Live
    <3>2. NoMorePhotos(p)
      BY <2>3, <3>1, RowOf DEF NoMorePhotos
    <3>. QED
      BY <2>1, <3>1, <3>2, PhotosStep DEF AllPhotos, Base
  <2>. QED
    BY <2>6, <2>7
<1>. QED
  BY <1>2, <1>3, CommitProductIs

LEMMA AdminPhotos == ASSUME Base, Base', Alone, AllPhotos, AdminIs PROVE AllPhotos'
<1>1. /\ run' = run /\ overlaps' = overlaps
      /\ \A p \in Live' :
           \/ p \in Live /\ products'[p].media = products[p].media
           \/ p = nextProduct /\ products'[p].media <= 1
  BY DEF AdminIs
<1>2. \A p : Uploads(p)' = Uploads(p)
  BY <1>1 DEF Uploads
<1>. SUFFICES ASSUME NEW p \in Live' PROVE Photos(p)'
  BY DEF AllPhotos
<1>3. CASE p \in Live /\ products'[p].media = products[p].media
  <2>1. NoMorePhotos(p) /\ Photos(p)
    BY <1>2, <1>3, RowOf DEF NoMorePhotos, AllPhotos
  <2>. QED
    BY <1>1, <2>1, PhotosStep DEF Base
<1>4. CASE p = nextProduct /\ products'[p].media <= 1
  <2>1. Uploads(p) = {} /\ p \notin Live
    BY <1>4, RunData, RowOf DEF Uploads
  <2>2. products'[p].media <= MaxMedia
    <3>1. products'[p].media \in Nat
      BY DEF Base, TypeOK, Live, Row
    <3>. QED
      BY <1>4, <3>1, Numbers
  <2>3. NewPhotos(p)
    BY <1>2, <2>1, <2>2 DEF NewPhotos
  <2>. QED
    BY <1>1, <2>1, <2>3, PhotosStep DEF Base
<1>. QED
  BY <1>1, <1>3, <1>4

LEMMA CrashPhotos == ASSUME Base, Base', Alone, AllPhotos, Crash PROVE AllPhotos'
<1>1. /\ \A r \in Runs : run'[r] = NoRun
      /\ overlaps' = overlaps /\ UNCHANGED db
  BY DEF Crash
<1>2. TypeOK'
  BY DEF Base
<1>. QED
  BY <1>1, <1>2, SamePhotos, KeptPhotos, NoRunFields

-----------------------------------------------------------------------------
(***************************************************************************)
(* The dialogue that makes a product.                                      *)
(***************************************************************************)

LEMMA PlainAnswers ==
  ASSUME NEW L, NEW f, NEW t, NEW o, L.h \notin {"media", "quantity", "create"},
         Lawful(L.todo, L.h, f, t, o)
  PROVE  Answering(L, f, t, o)
BY DEF Answering, Creating

LEMMA NoRunAnswers == ASSUME NEW f, NEW t, NEW o PROVE Answering(NoRun, f, t, o)
BY NoRunFields, LawfulNothing, PlainAnswers

LEMMA ProductWrite ==
  ASSUME NEW p \in 0..MaxProducts
  PROVE  /\ Field("product", p) \in Writes /\ Field("product", p).of = {"product"}
         /\ Field("product", p).to.product = p
         /\ <<Field("product", p)>> \in Seq(Writes) /\ <<Field("product", p)>> # <<>>
<1>1. [NoFields EXCEPT !["product"] = p] \in FsmRecord /\ "product" \in Fields \ {"stage"}
  BY NoFieldsType, FieldsAre DEF FsmRecord
<1>2. /\ Field("product", p) \in Writes /\ Field("product", p).of = {"product"}
      /\ Field("product", p).to["product"] = p
  BY <1>1, FieldWritten
<1>. QED
  BY <1>2

\* An input of a handler run that answers lawfully, whatever it is.
LEMMA InputAnswers ==
  ASSUME Base, NEW r \in Runs, Input(r), overlaps' = 0
  PROVE  Answering(run'[r], fsm, typed', Debt)
<1>1. CASE Asking(run'[r], fsm)
  <2>1. Lawful(run'[r].todo, run'[r].h, fsm, typed', Debt)
    BY <1>1, LawfulNothing DEF Asking
  <2>. QED
    BY <1>1, <2>1 DEF Asking, Answering, Creating
<1>2. ASSUME NEW todo \in Seq(Writes), Lawful(todo, "none", fsm, typed', Debt),
             run'[r] = Finish(todo)
      PROVE  Answering(run'[r], fsm, typed', Debt)
  <2>1. run'[r].h = "none" /\ run'[r].todo = todo
    BY <1>2, FinishIs
  <2>. QED
    BY <1>2, <2>1, PlainAnswers
<1>3. ASSUME NEW todo \in Seq(Writes), Lawful(todo, "none", fsm, typed', Debt),
             NEW card \in Cards, NEW p \in Nat, run'[r] = Show(todo, card, p)
      PROVE  Answering(run'[r], fsm, typed', Debt)
  <2>1. run'[r].h = "none" /\ run'[r].todo = todo
    BY <1>3, ShowIs
  <2>. QED
    BY <1>3, <2>1, PlainAnswers
<1>4. ASSUME NEW p \in 1..nextProduct - 1
      PROVE  /\ <<Field("product", p)>> \in Seq(Writes) /\ p \in Nat
             /\ Lawful(<<Field("product", p)>>, "none", fsm, typed', Debt)
  <2>1. p \in 0..MaxProducts /\ p \in Nat
    BY BaseFacts, Numbers
  <2>2. Lawful(<<Field("product", p)>>, "none", fsm, typed', Debt)
    BY <2>1, ProductWrite DEF Lawful, StageWrite, MediaWrite, QuantityWrite
  <2>. QED
    BY <2>1, <2>2, ProductWrite
<1>5. <<>> \in Seq(Writes) /\ 0 \in Nat /\ Lawful(<<>>, "none", fsm, typed', Debt)
  BY LawfulNothing
<1>6. \A todo, n : GoodWrites(todo, n) => todo \in Seq(Writes)
  BY DEF GoodWrites
<1>. QED
  BY <1>1, <1>2, <1>3, <1>4, <1>5, <1>6 DEF Input, Writing

LEMMA InputDialogue ==
  ASSUME Base, Dialogue, NEW r \in Runs, Input(r) PROVE Dialogue'
<1>. SUFFICES ASSUME overlaps' = 0
              PROVE  /\ fsm'.stage \in MediaStages => fsm'.media = typed'.media
                     /\ fsm'.stage = "quantity" => AllButLast'
                     /\ credit' + crashes' >= 0
                     /\ fsm'.stage \in AddStages /\ ~Clearing' => credit' + crashes' >= 1
                     /\ \A q \in Runs : Answering(run'[q], fsm', typed', credit' + crashes')
  BY DEF Dialogue
<1>1. overlaps = 0 /\ \A q \in Runs : run[q] = NoRun
  BY AllIdle
<1>2. /\ fsm' = fsm /\ crashes' = crashes /\ \A q \in Runs \ {r} : run'[q] = run[q]
  BY BaseFacts DEF Input
<1>3. credit' \in {credit, credit + 1}
  BY DEF Input, history
<1>4. typed' = typed \/ fsm.stage = "ask" \/ (fsm.stage = "sizes" /\ typed'.media = typed.media)
  BY DEF Input, history
<1>5. ~Clearing
  BY <1>1, NoRunFields DEF Clearing
<1>6. /\ fsm.stage \in MediaStages => fsm.media = typed.media
      /\ fsm.stage = "quantity" => AllButLast
      /\ credit + crashes >= 0
      /\ fsm.stage \in AddStages => credit + crashes >= 1
  BY <1>1, <1>5 DEF Dialogue
<1>7. fsm'.stage \in MediaStages => fsm'.media = typed'.media
  BY <1>2, <1>4, <1>6 DEF MediaStages
<1>8. fsm'.stage = "quantity" => AllButLast'
  BY <1>2, <1>4, <1>6 DEF AllButLast
<1>9. /\ credit' + crashes' >= 0
      /\ fsm'.stage \in AddStages => credit' + crashes' >= 1
  BY <1>2, <1>3, <1>6, BaseFacts
<1>10. Answering(run'[r], fsm', typed', credit' + crashes')
  BY <1>2, InputAnswers DEF Debt
<1>11. ASSUME NEW q \in Runs PROVE Answering(run'[q], fsm', typed', credit' + crashes')
  BY <1>1, <1>2, <1>10, NoRunAnswers
<1>. QED
  BY <1>7, <1>8, <1>9, <1>11

\* A question, an answer or a commit of a run that is alone.
LEMMA DialogueStep ==
  ASSUME Base, Alone, Dialogue, NEW r \in Runs, NEW L, run[r].pc \in {"read", "commit"},
         Become(r, L), UNCHANGED <<fsm, bounds>>, credit' \in Int,
         overlaps = 0 =>
           /\ Answering(L, fsm, typed', credit' + crashes)
           /\ fsm.stage \in MediaStages => typed'.media = typed.media
           /\ fsm.stage = "quantity" => AllButLast'
           /\ credit' + crashes >= 0
           /\ credit' >= credit \/ (L.todo # <<>> /\ L.todo[1] = Stage("idle"))
  PROVE  Dialogue'
<1>1. /\ OneStep(r) /\ run'[r] = L /\ \A q \in Runs \ {r} : run'[q] = run[q]
      /\ overlaps' = overlaps /\ crashes' = crashes /\ fsm' = fsm
  BY OneStepIs DEF bounds
<1>. SUFFICES ASSUME overlaps = 0
              PROVE  /\ fsm.stage \in MediaStages => fsm.media = typed'.media
                     /\ fsm.stage = "quantity" => AllButLast'
                     /\ credit' + crashes >= 0
                     /\ fsm.stage \in AddStages /\ ~Clearing' => credit' + crashes >= 1
                     /\ \A q \in Runs : Answering(run'[q], fsm, typed', credit' + crashes)
  BY <1>1 DEF Dialogue
<1>2. \A q \in Runs \ {r} : run[q] = NoRun
  BY RestIdle DEF Busy
<1>3. run[r].todo = <<>>
  BY BaseFacts DEF Sound
<1>4. ~Clearing
  BY <1>2, <1>3, NoRunFields DEF Clearing
<1>5. /\ fsm.stage \in MediaStages => fsm.media = typed.media
      /\ fsm.stage \in AddStages => credit + crashes >= 1
  BY <1>4 DEF Dialogue
<1>6. fsm.stage \in AddStages /\ ~Clearing' => credit' + crashes >= 1
  <2>1. L.todo # <<>> /\ L.todo[1] = Stage("idle") => Clearing'
    BY <1>1 DEF Clearing
  <2>. QED
    BY <1>5, <2>1, BaseFacts
<1>7. ASSUME NEW q \in Runs PROVE Answering(run'[q], fsm, typed', credit' + crashes)
  BY <1>1, <1>2, NoRunAnswers
<1>. QED
  BY <1>5, <1>6, <1>7

\* A question that leaves what was typed alone.
LEMMA QuietDialogue ==
  ASSUME Base, Alone, Dialogue, NEW r \in Runs, NEW L, run[r].pc \in {"read", "commit"},
         Become(r, L), UNCHANGED <<fsm, bounds, typed, credit>>,
         overlaps = 0 => Answering(L, fsm, typed, credit + crashes)
  PROVE  Dialogue'
<1>1. fsm' = fsm /\ typed' = typed /\ credit' = credit
  OBVIOUS
<1>2. overlaps = 0 => /\ fsm.stage = "quantity" => AllButLast
                      /\ credit + crashes >= 0
  BY DEF Dialogue
<1>3. overlaps = 0 => (fsm.stage = "quantity" => AllButLast')
  BY <1>1, <1>2 DEF AllButLast
<1>4. UNCHANGED <<fsm, bounds>> /\ credit' \in Int /\ credit' >= credit
  BY <1>1, BaseFacts
<1>5. overlaps = 0 =>
           /\ Answering(L, fsm, typed', credit' + crashes)
           /\ fsm.stage \in MediaStages => typed'.media = typed.media
           /\ fsm.stage = "quantity" => AllButLast'
           /\ credit' + crashes >= 0
           /\ credit' >= credit \/ (L.todo # <<>> /\ L.todo[1] = Stage("idle"))
  BY <1>1, <1>2, <1>3, <1>4
<1>. QED
  BY <1>4, <1>5, DialogueStep

\* Runs that have nothing to do with a new product.
LEMMA OtherAnswers ==
  ASSUME Base, NEW f, NEW t, NEW o
  PROVE  /\ \A L \in Afterwards : Answering(L, f, t, o)
         /\ \A L : L.todo = <<>> /\ L.h \notin {"media", "quantity", "create"} => Answering(L, f, t, o)
         /\ \A s \in Stages \ AddStages : Answering(Finish(<<Stage(s)>>), f, t, o)
         /\ Answering(Finish(<<>>), f, t, o)
<1>1. ASSUME NEW L, L.todo = <<>>, L.h \notin {"media", "quantity", "create"}
      PROVE  Answering(L, f, t, o)
  BY <1>1, LawfulNothing, PlainAnswers
<1>2. ASSUME NEW s \in Stages \ AddStages
      PROVE  /\ Lawful(<<Stage(s)>>, "none", f, t, o) /\ <<Stage(s)>> \in Seq(Writes)
  <2>1. Mild(Stage(s), o) /\ Stage(s) \in Writes
    BY MildStage, StageWritten DEF MediaStages, AddStages
  <2>2. Lawful(<<Stage(s)>>, "none", f, t, o)
    BY <2>1 DEF Lawful, StageWrite, MediaWrite, QuantityWrite, Mild, MediaStages
  <2>3. <<Stage(s)>> \in Seq(Writes)
    BY <2>1
  <2>. QED
    BY <2>2, <2>3
<1>3. ASSUME NEW s \in Stages \ AddStages PROVE Answering(Finish(<<Stage(s)>>), f, t, o)
  <2>1. Finish(<<Stage(s)>>).h = "none" /\ Finish(<<Stage(s)>>).todo = <<Stage(s)>>
    BY <1>2, FinishIs
  <2>. QED
    BY <1>2, <2>1, PlainAnswers
<1>4. Answering(Finish(<<>>), f, t, o)
  <2>1. Finish(<<>>) = NoRun
    <3>1. <<>> \in Seq(Writes)
      OBVIOUS
    <3>. QED
      BY <3>1, FinishIs
  <2>. QED
    BY <2>1, NoRunAnswers
<1>5. ASSUME NEW L \in Afterwards PROVE Answering(L, f, t, o)
  <2>1. /\ L.h = "none"
        /\ \/ L = NoRun
           \/ L.todo = Clear
           \/ L.todo = <<>>
           \/ L.todo = <<Stage("idle")>>
    BY AfterwardsIs
  <2>2. "idle" \in Stages \ AddStages
    BY DEF Stages, AddStages
  <2>3. Lawful(L.todo, L.h, f, t, o)
    BY <1>2, <2>1, <2>2, NoRunFields, LawfulNothing, LawfulClears
  <2>. QED
    BY <2>1, <2>3, PlainAnswers
<1>. QED
  BY <1>1, <1>3, <1>4, <1>5

LEMMA ReadListDialogue ==
  ASSUME Base, Alone, Dialogue, NEW r \in Runs, ReadList(r) PROVE Dialogue'
<1>1. run[r].pc = "read" /\ UNCHANGED <<fsm, bounds, typed, credit>>
  BY DEF ReadList, Reads
<1>2. run[r].next \in Stages \ AddStages
  BY BaseFacts DEF RunRecord, Sound
<1>3. PICK L : Become(r, L) /\ (L = Finish(<<Stage(run[r].next)>>) \/ L = Finish(<<>>))
  BY DEF ReadList
<1>4. Answering(L, fsm, typed, credit + crashes)
  BY <1>2, <1>3, OtherAnswers
<1>. QED
  BY <1>1, <1>3, <1>4, QuietDialogue

LEMMA ReadUploadDialogue ==
  ASSUME Base, Alone, Dialogue, NEW r \in Runs, ReadUpload(r) PROVE Dialogue'
<1>1. run[r].pc = "read" /\ run[r].h = "media" /\ UNCHANGED <<fsm, bounds, typed, credit>>
  BY DEF ReadUpload, Reads
<1>2. CASE fsm.media >= MaxMedia
  <2>1. Become(r, NoRun)
    BY <1>2 DEF ReadUpload
  <2>. QED
    BY <1>1, <2>1, NoRunAnswers, QuietDialogue
<1>3. CASE ~(fsm.media >= MaxMedia)
  <2>. DEFINE L == Saved(fsm.media + 1)
  <2>1. Become(r, L)
    BY <1>3 DEF ReadUpload
  <2>2. fsm.media + 1 \in 0..MaxMedia
    <3>1. fsm.media \in 0..MaxMedia
      BY BaseFacts DEF FsmRecord
    <3>. QED
      BY <1>3, <3>1, Numbers
  <2>3. PICK w : /\ L.pc = "redis" /\ L.h = "media" /\ L.todo = <<w>> /\ w.of = {"media"}
                 /\ w.to.media = fsm.media + 1
    BY <2>2, SavedIs, BaseFacts
  <2>. HIDE DEF L
  <2>4. overlaps = 0 => Answering(L, fsm, typed, credit + crashes)
    <3>. SUFFICES ASSUME overlaps = 0 PROVE Answering(L, fsm, typed, credit + crashes)
      OBVIOUS
    <3>1. fsm.stage = "upload"
      BY <1>1 DEF Dialogue, Answering
    <3>2. fsm.media = typed.media
      BY <3>1 DEF Dialogue, MediaStages
    <3>3. Len(L.todo) = 1 /\ L.todo[1] = w
      BY <2>3
    <3>4. Lawful(L.todo, L.h, fsm, typed, credit + crashes)
      BY <2>3, <3>2, <3>3 DEF Lawful, StageWrite, MediaWrite, QuantityWrite
    <3>. QED
      BY <2>3, <3>3, <3>4 DEF Answering, Creating
  <2>. QED
    BY <1>1, <2>1, <2>4, QuietDialogue
<1>. QED
  BY <1>2, <1>3

LEMMA ReadQuantityDialogue ==
  ASSUME Base, Alone, Dialogue, NEW r \in Runs, ReadQuantity(r) PROVE Dialogue'
<1>1. /\ run[r].pc = "read" /\ run[r].h = "quantity" /\ UNCHANGED <<fsm, bounds, credit>>
  BY DEF ReadQuantity, Reads
<1>2. CASE Become(r, NoRun) /\ typed' = typed
  BY <1>1, <1>2, NoRunAnswers, QuietDialogue
<1>3. ASSUME NEW w \in Writes, NEW L \in RunRecord,
             fsm.idx \in 1..Len(fsm.sizes), fsm.sizes[fsm.idx] \in Sizes,
             w.of = {"quantities"} \/ w.of = {"quantities", "idx"},
             w.to.quantities = [fsm.quantities EXCEPT ![fsm.sizes[fsm.idx]] = run[r].qty],
             typed' = [typed EXCEPT !.quantities[fsm.sizes[fsm.idx]] = run[r].qty],
             Become(r, L), L.pc = "redis", L.todo = <<w>>, L.h \in {"none", "create"},
             L.h = "create" => w.of = {"quantities"}
      PROVE  Dialogue'
  <2>. DEFINE s == fsm.sizes[fsm.idx]
  <2>1. /\ typed'.media = typed.media
        /\ typed'.quantities = [typed.quantities EXCEPT ![s] = run[r].qty]
        /\ typed.quantities \in [Sizes -> Nat] /\ fsm.quantities \in [Sizes -> Nat] /\ s \in Sizes
    BY <1>3, BaseFacts DEF FsmRecord
  <2>2. ASSUME overlaps = 0
        PROVE  /\ fsm.stage = "quantity" /\ AllButLast' /\ w.to.quantities = typed'.quantities
               /\ credit + crashes >= 1
    <3>1. fsm.stage = "quantity"
      BY <1>1, <2>2 DEF Dialogue, Answering
    <3>2. \A x \in Sizes : x # s => fsm.quantities[x] = typed.quantities[x]
      BY <1>3, <2>2, <3>1 DEF Dialogue, AllButLast
    <3>3. fsm' = fsm
      BY <1>1
    <3>4. AllButLast'
      BY <2>1, <3>2, <3>3 DEF AllButLast
    <3>5. w.to.quantities = typed'.quantities
      <4>1. w.to.quantities = [fsm.quantities EXCEPT ![s] = run[r].qty]
        BY <1>3
      <4>. HIDE DEF s
      <4>2. [fsm.quantities EXCEPT ![s] = run[r].qty] = [typed.quantities EXCEPT ![s] = run[r].qty]
        BY <2>1, <3>2
      <4>. QED
        BY <2>1, <4>1, <4>2
    <3>6. ~Clearing
      <4>1. run[r].todo = <<>>
        BY <1>1, BaseFacts DEF Sound
      <4>2. \A q \in Runs \ {r} : run[q] = NoRun
        BY <1>1, <2>2, RestIdle DEF Busy
      <4>. QED
        BY <4>1, <4>2, NoRunFields DEF Clearing
    <3>7. credit + crashes >= 1
      BY <2>2, <3>1, <3>6 DEF Dialogue, AddStages
    <3>. QED
      BY <3>1, <3>4, <3>5, <3>7
  <2>3. overlaps = 0 => Answering(L, fsm, typed', credit + crashes)
    <3>. SUFFICES ASSUME overlaps = 0 PROVE Answering(L, fsm, typed', credit + crashes)
      OBVIOUS
    <3>1. Len(L.todo) = 1 /\ L.todo[1] = w
      BY <1>3
    <3>2. Lawful(L.todo, L.h, fsm, typed', credit + crashes)
      BY <1>3, <2>2, <3>1 DEF Lawful, StageWrite, MediaWrite, QuantityWrite
    <3>3. Creating(L, fsm, typed', credit + crashes)
      BY <1>3, <2>2, <3>1 DEF Creating
    <3>. QED
      BY <1>3, <3>2, <3>3 DEF Answering
  <2>4. credit' = credit /\ credit' \in Int /\ credit' >= credit
    BY <1>1, BaseFacts
  <2>5. overlaps = 0 =>
           /\ Answering(L, fsm, typed', credit' + crashes)
           /\ fsm.stage \in MediaStages => typed'.media = typed.media
           /\ fsm.stage = "quantity" => AllButLast'
           /\ credit' + crashes >= 0
           /\ credit' >= credit \/ (L.todo # <<>> /\ L.todo[1] = Stage("idle"))
    BY <2>1, <2>2, <2>3, <2>4, BaseFacts
  <2>. QED
    BY <1>1, <1>3, <2>4, <2>5, DialogueStep
<1>. QED
  BY <1>2, <1>3, ReadQuantityIs

LEMMA ReadCreateDialogue ==
  ASSUME Base, Alone, Dialogue, NEW r \in Runs, ReadCreate(r) PROVE Dialogue'
<1>1. /\ run[r].pc = "read" /\ run[r].h = "create" /\ UNCHANGED <<fsm, bounds, typed, credit>>
  BY DEF ReadCreate, Reads
<1>2. PICK L : Become(r, L) /\ (L = Commits(run[r]) \/ L \in Afterwards)
  BY DEF ReadCreate, Afterwards
<1>3. overlaps = 0 => Answering(L, fsm, typed, credit + crashes)
  <2>. SUFFICES ASSUME overlaps = 0 PROVE Answering(L, fsm, typed, credit + crashes)
    OBVIOUS
  <2>1. CASE L \in Afterwards
    BY <2>1, OtherAnswers
  <2>2. CASE L = Commits(run[r])
    <3>1. L.pc = "commit" /\ L.h = "create" /\ L.todo = <<>> /\ L.data = fsm
      BY <1>1, <2>2, CommitsSound
    <3>2. /\ fsm.stage = "quantity" /\ fsm.quantities = typed.quantities
          /\ credit + crashes >= 1
      BY <1>1 DEF Dialogue, Answering, Creating
    <3>3. fsm.media = typed.media
      BY <3>2 DEF Dialogue, MediaStages
    <3>4. Lawful(L.todo, L.h, fsm, typed, credit + crashes)
      BY <3>1, LawfulNothing
    <3>. QED
      BY <3>1, <3>2, <3>3, <3>4 DEF Answering, Creating
  <2>. QED
    BY <1>2, <2>1, <2>2
<1>. QED
  BY <1>1, <1>2, <1>3, QuietDialogue

\* The reads that end in a commit or in nothing.
EditReads(r) == ReadEdit(r) \/ ReadNewBrand(r) \/ ReadPhoto(r)

LEMMA EditReadsIs ==
  ASSUME Base, NEW r \in Runs, EditReads(r)
  PROVE  /\ run[r].pc = "read" /\ UNCHANGED <<db, fsm, screen, credit, bounds>> /\ typed' = typed
         /\ \E L : /\ Become(r, L)
                   /\ \/ L = NoRun
                      \/ /\ L.pc = "commit" /\ L.todo = <<>> /\ L.data = fsm
                         /\ L.h \in {"edit", "stock", "delete", "deleteGroup", "newBrand", "photo"}
<1>1. run[r].pc = "read" /\ UNCHANGED <<db, fsm, screen, credit, bounds>> /\ typed' = typed
  BY DEF EditReads, ReadEdit, ReadNewBrand, ReadPhoto, Reads
<1>2. Commits(run[r]).pc = "commit" /\ Commits(run[r]).todo = <<>> /\ Commits(run[r]).data = fsm
      /\ Commits(run[r]).h = run[r].h
  BY <1>1, CommitsSound
<1>3. CASE ReadEdit(r)
  BY <1>2, <1>3 DEF ReadEdit, Reads
<1>4. CASE ReadPhoto(r)
  BY <1>2, <1>4 DEF ReadPhoto, Reads
<1>5. ASSUME ReadNewBrand(r)
      PROVE  \E L : /\ Become(r, L)
                    /\ \/ L = NoRun
                       \/ /\ L.pc = "commit" /\ L.todo = <<>> /\ L.data = fsm
                          /\ L.h = "newBrand"
  <2>1. CASE Become(r, NoRun)
    BY <2>1
  <2>2. CASE \E L \in RunRecord : /\ Become(r, L) /\ Sound(L, nextProduct) /\ L.pc = "commit"
                                 /\ L.data = fsm /\ L.h = "newBrand" /\ L.todo = <<>>
    BY <2>2
  <2>. QED
    BY <1>5, <2>1, <2>2, ReadNewBrandIs
<1>6. \E L : /\ Become(r, L)
             /\ \/ L = NoRun
                \/ /\ L.pc = "commit" /\ L.todo = <<>> /\ L.data = fsm
                   /\ L.h \in {"edit", "stock", "delete", "deleteGroup", "newBrand", "photo"}
  BY <1>3, <1>4, <1>5 DEF EditReads
<1>. QED
  BY <1>1, <1>6

LEMMA EditReadsDialogue ==
  ASSUME Base, Alone, Dialogue, NEW r \in Runs, EditReads(r) PROVE Dialogue'
<1>1. run[r].pc = "read" /\ UNCHANGED <<fsm, bounds, typed, credit>>
  BY EditReadsIs
<1>2. PICK L : /\ Become(r, L)
               /\ \/ L = NoRun
                  \/ /\ L.pc = "commit" /\ L.todo = <<>> /\ L.data = fsm
                     /\ L.h \in {"edit", "stock", "delete", "deleteGroup", "newBrand", "photo"}
  BY EditReadsIs
<1>3. Answering(L, fsm, typed, credit + crashes)
  BY <1>2, OtherAnswers, NoRunAnswers
<1>. QED
  BY <1>1, <1>2, <1>3, QuietDialogue

\* Commits but that of a new product, as the dialogue sees them.
PlainCommit(r) ==
  /\ run[r].pc = "commit" /\ UNCHANGED <<fsm, screen, typed, bounds, credit>>
  /\ \E L \in Afterwards : Become(r, L)
  /\ Live' \subseteq Live

LEMMA OneChangePlain == ASSUME Base, NEW r \in Runs, OneChange(r) PROVE PlainCommit(r)
<1>1. Live' \subseteq Live
  <2>1. CASE Nothing
    BY <2>1, SamePhotos DEF Nothing
  <2>2. ASSUME NEW p, NEW row, Changed(r, p, row) PROVE Live' \subseteq Live
    BY <2>2 DEF Changed, Live, Base, TypeOK
  <2>. QED
    BY <2>1, <2>2 DEF OneChange
<1>. QED
  BY <1>1 DEF OneChange, PlainCommit

LEMMA CommitNewBrandPlain ==
  ASSUME Base, NEW r \in Runs, CommitNewBrand(r) PROVE PlainCommit(r) /\ FewerPhotos
<1>1. run[r].pc = "commit" /\ UNCHANGED <<fsm, screen, typed, bounds>>
  BY DEF CommitNewBrand, CommitsOf
<1>2. CASE Nothing /\ Become(r, NoRun)
  BY <1>1, <1>2, SamePhotos DEF PlainCommit, Afterwards, Nothing
<1>3. ASSUME NEW row, row.media = products[run[r].data.product].media, run[r].data.product \in Live,
             products' = [products EXCEPT ![run[r].data.product] = row], UNCHANGED credit,
             Become(r, Show(<<Stage("idle")>>, "warehouse", 0))
      PROVE  PlainCommit(r) /\ FewerPhotos
  <2>. DEFINE p == run[r].data.product
  <2>1. products \in [1..MaxProducts -> Row]
    BY DEF Base, TypeOK
  <2>2. Live' \subseteq Live
    BY <1>3, <2>1 DEF Live
  <2>3. ASSUME NEW q \in Live' PROVE products'[q].media <= products[q].media
    <3>1. products'[q].media = products[q].media
      BY <1>3, <2>1, <2>2, RowOf
    <3>. QED
      BY <2>2, <3>1, RowOf
  <2>. QED
    BY <1>1, <1>3, <2>2, <2>3 DEF PlainCommit, FewerPhotos, Afterwards
<1>4. ASSUME run[r].data.product \in Live
      PROVE  [products[run[r].data.product] EXCEPT !.brand = Id("brand", run[r].id)].media
               = products[run[r].data.product].media
  BY <1>4, RowOf DEF Row
<1>. QED
  BY <1>2, <1>3, <1>4, CommitNewBrandIs

LEMMA CommitGroupPlain ==
  ASSUME Base, NEW r \in Runs, CommitGroup(r) PROVE PlainCommit(r) /\ FewerPhotos
<1>1. /\ run[r].pc = "commit" /\ UNCHANGED <<fsm, screen, typed, bounds>>
      /\ \E L \in Afterwards : Become(r, L)
      /\ products' = products /\ credit' = credit
  BY DEF CommitGroup, CommitsOf, Afterwards, Nothing, db
<1>2. Live' = Live
  BY <1>1 DEF Live
<1>. QED
  BY <1>1, <1>2, RowOf DEF PlainCommit, FewerPhotos

LEMMA CommitDeleteGroupPlain ==
  ASSUME Base, NEW r \in Runs, CommitDeleteGroup(r) PROVE PlainCommit(r) /\ FewerPhotos
<1>1. run[r].pc = "commit" /\ UNCHANGED <<fsm, screen, typed, bounds>>
  BY DEF CommitDeleteGroup, CommitsOf
<1>2. ASSUME NEW p \in Live' PROVE p \in Live /\ products'[p].media <= products[p].media
  <2>1. p \in Live /\ products'[p] = products[p]
    BY CommitDeleteGroupIs
  <2>. QED
    BY <2>1, RowOf
<1>3. UNCHANGED credit /\ Become(r, Finish(Clear)) /\ Live' \subseteq Live
  BY CommitDeleteGroupIs
<1>. QED
  BY <1>1, <1>2, <1>3 DEF PlainCommit, Afterwards, FewerPhotos

LEMMA PlainCommitDialogue ==
  ASSUME Base, Alone, Dialogue, NEW r \in Runs, PlainCommit(r) PROVE Dialogue'
<1>1. PICK L \in Afterwards : Become(r, L)
  BY DEF PlainCommit
<1>2. Answering(L, fsm, typed, credit + crashes)
  BY OtherAnswers
<1>3. run[r].pc = "commit" /\ UNCHANGED <<fsm, bounds, typed, credit>>
  BY DEF PlainCommit
<1>. QED
  BY <1>1, <1>2, <1>3, QuietDialogue

LEMMA ClearIs == Clear # <<>> /\ Clear[1] = Stage("idle") /\ Clear[2] = NoData /\ Len(Clear) = 2
BY DEF Clear

LEMMA CommitProductDialogue ==
  ASSUME Base, Alone, Dialogue, NEW r \in Runs, CommitProduct(r) PROVE Dialogue'
<1>1. run[r].pc = "commit" /\ run[r].h = "create" /\ UNCHANGED <<fsm, screen, typed, bounds>>
  BY DEF CommitProduct, CommitsOf
<1>2. CASE Nothing /\ Become(r, NoRun)
  BY <1>1, <1>2, NoRunAnswers, QuietDialogue DEF Nothing
<1>3. CASE credit' = credit - 1 /\ Become(r, Finish(Clear))
  <2>1. Finish(Clear).todo = Clear /\ Finish(Clear) \in Afterwards
    BY SoundBasics, FinishIs DEF Afterwards
  <2>2. overlaps = 0 => credit + crashes >= 1
    BY <1>1 DEF Dialogue, Answering, Creating
  <2>3. overlaps = 0 => (fsm.stage = "quantity" => AllButLast')
    <3>1. fsm' = fsm /\ typed' = typed
      BY <1>1
    <3>. QED
      BY <3>1 DEF Dialogue, AllButLast
  <2>4. credit' \in Int /\ (overlaps = 0 => credit' + crashes >= 0)
    BY <1>3, <2>2, BaseFacts
  <2>5. overlaps = 0 =>
           /\ Answering(Finish(Clear), fsm, typed', credit' + crashes)
           /\ fsm.stage \in MediaStages => typed'.media = typed.media
           /\ fsm.stage = "quantity" => AllButLast'
           /\ credit' + crashes >= 0
           /\ credit' >= credit \/ (Finish(Clear).todo # <<>> /\ Finish(Clear).todo[1] = Stage("idle"))
    BY <1>1, <2>1, <2>3, <2>4, OtherAnswers, ClearIs
  <2>. QED
    BY <1>1, <1>3, <2>4, <2>5, DialogueStep
<1>. QED
  BY <1>2, <1>3, CommitProductIs

LEMMA ShowCardDialogue ==
  ASSUME Base, Alone, Dialogue, NEW r \in Runs, ShowCard(r) PROVE Dialogue'
<1>1. run[r].pc = "card" /\ Become(r, NoRun) /\ UNCHANGED <<db, typed, credit, bounds>>
  BY ShowCardIs
<1>2. /\ run'[r] = NoRun /\ \A q \in Runs \ {r} : run'[q] = run[q]
      /\ overlaps' = overlaps /\ crashes' = crashes /\ typed' = typed /\ credit' = credit
  BY <1>1, OneStepIs DEF bounds
<1>3. \/ fsm' = fsm
      \/ fsm'.stage = "view" /\ fsm'.media = fsm.media
  BY ShowCardIs, Viewed
<1>. SUFFICES ASSUME overlaps = 0
              PROVE  /\ fsm'.stage \in MediaStages => fsm'.media = typed.media
                     /\ fsm'.stage = "quantity" => AllButLast'
                     /\ credit + crashes >= 0
                     /\ fsm'.stage \in AddStages /\ ~Clearing' => credit + crashes >= 1
                     /\ \A q \in Runs : Answering(run'[q], fsm', typed, credit + crashes)
  BY <1>2 DEF Dialogue
<1>4. \A q \in Runs \ {r} : run[q] = NoRun
  BY <1>1, RestIdle DEF Busy
<1>5. ~Clearing
  <2>1. run[r].todo = <<>>
    BY <1>1, BaseFacts DEF Sound
  <2>. QED
    BY <1>4, <2>1, NoRunFields DEF Clearing
<1>6. /\ fsm.stage \in MediaStages => fsm.media = typed.media
      /\ fsm.stage = "quantity" => AllButLast
      /\ credit + crashes >= 0
      /\ fsm.stage \in AddStages => credit + crashes >= 1
  BY <1>5 DEF Dialogue
<1>7. \A q \in Runs : Answering(run'[q], fsm', typed, credit + crashes)
  BY <1>2, <1>4, NoRunAnswers
<1>8. fsm'.stage = "quantity" => AllButLast'
  BY <1>2, <1>3, <1>6 DEF AllButLast
<1>. QED
  BY <1>3, <1>6, <1>7, <1>8 DEF MediaStages, AddStages

LEMMA AdminDialogue == ASSUME Base, Dialogue, AdminIs PROVE Dialogue'
<1>1. UNCHANGED <<fsm, run, typed, credit, overlaps, crashes>>
  BY DEF AdminIs, history
<1>2. AllButLast' <=> AllButLast
  BY <1>1 DEF AllButLast
<1>3. Clearing' <=> Clearing
  BY <1>1 DEF Clearing
<1>4. overlaps = 0 =>
        /\ fsm.stage \in MediaStages => fsm.media = typed.media
        /\ fsm.stage = "quantity" => AllButLast
        /\ credit + crashes >= 0
        /\ fsm.stage \in AddStages /\ ~Clearing => credit + crashes >= 1
        /\ \A r \in Runs : Answering(run[r], fsm, typed, credit + crashes)
  BY DEF Dialogue
<1>5. overlaps' = 0 =>
        /\ fsm'.stage \in MediaStages => fsm'.media = typed'.media
        /\ fsm'.stage = "quantity" => AllButLast'
        /\ credit' + crashes' >= 0
        /\ fsm'.stage \in AddStages /\ ~Clearing' => credit' + crashes' >= 1
        /\ \A r \in Runs : Answering(run'[r], fsm', typed', credit' + crashes')
  BY <1>1, <1>2, <1>3, <1>4
<1>. QED
  BY <1>5 DEF Dialogue

LEMMA CrashDialogue == ASSUME Base, Dialogue, Crash PROVE Dialogue'
<1>1. /\ \A r \in Runs : run'[r] = NoRun
      /\ UNCHANGED <<fsm, typed, credit, overlaps>> /\ crashes' = crashes + 1
  BY DEF Crash, history
<1>2. AllButLast' <=> AllButLast
  BY <1>1 DEF AllButLast
<1>3. overlaps = 0 =>
        /\ fsm.stage \in MediaStages => fsm.media = typed.media
        /\ fsm.stage = "quantity" => AllButLast
        /\ credit + crashes >= 0
  BY DEF Dialogue
<1>4. overlaps = 0 => credit' + crashes' >= 1
  BY <1>1, <1>3, BaseFacts
<1>5. overlaps = 0 => credit' + crashes' >= 0
  BY <1>1, <1>3, BaseFacts
<1>6. \A r \in Runs : Answering(run'[r], fsm', typed', credit' + crashes')
  BY <1>1, NoRunAnswers
<1>. QED
  BY <1>1, <1>2, <1>3, <1>4, <1>5, <1>6 DEF Dialogue

\* The first of the writes, as far as the dialogue is concerned.
LEMMA FirstWrite ==
  ASSUME Base, Dialogue, overlaps = 0, NEW r \in Runs, WriteRedis(r)
  PROVE  LET w == run[r].todo[1]
             o == credit + crashes
         IN /\ "stage" \in w.of => w.of = {"stage"} /\ fsm'.stage = w.to.stage
            /\ "stage" \notin w.of => fsm'.stage = fsm.stage
            /\ StageWrite(run[r].todo, 1, fsm, typed, o)
            /\ MediaWrite(run[r].todo, run[r].h, 1, fsm, typed)
            /\ QuantityWrite(run[r].todo, 1, fsm, typed)
            /\ run[r].h = "media" => Len(run[r].todo) = 1 /\ w.of = {"media"}
            /\ run[r].h # "media" => typed' = typed
            /\ run[r].h = "create" => /\ Len(run[r].todo) = 1 /\ w.of = {"quantities"}
                                      /\ w.to.quantities = typed.quantities
                                      /\ fsm.stage = "quantity" /\ o >= 1
<1>1. run[r].pc = "redis" /\ 1 \in 1..Len(run[r].todo) /\ GoodWrite(run[r].todo[1], nextProduct)
  BY Heads DEF WriteRedis
<1>2. fsm' = Written(run[r].todo[1]) /\ run[r].todo[1] \in Writes
  BY <1>1, WriteRedisIs DEF GoodWrite
<1>3. /\ "stage" \in run[r].todo[1].of => fsm'.stage = run[r].todo[1].to.stage
      /\ "stage" \notin run[r].todo[1].of => fsm'.stage = fsm.stage
  BY <1>2, WrittenRecord, BaseFacts
<1>4. Answering(run[r], fsm, typed, credit + crashes)
  BY DEF Dialogue
<1>5. /\ StageWrite(run[r].todo, 1, fsm, typed, credit + crashes)
      /\ MediaWrite(run[r].todo, run[r].h, 1, fsm, typed)
      /\ QuantityWrite(run[r].todo, 1, fsm, typed)
  BY <1>1, <1>4 DEF Answering, Lawful
<1>6. /\ run[r].h = "media" => Len(run[r].todo) = 1 /\ run[r].todo[1].of = {"media"}
      /\ run[r].h = "create" => /\ Len(run[r].todo) = 1 /\ run[r].todo[1].of = {"quantities"}
                                /\ run[r].todo[1].to.quantities = typed.quantities
                                /\ fsm.stage = "quantity" /\ credit + crashes >= 1
  BY <1>1, <1>4 DEF Answering, Creating
<1>7. run[r].h # "media" => typed' = typed
  BY DEF WriteRedis
<1>8. "stage" \in run[r].todo[1].of => run[r].todo[1].of = {"stage"}
  BY <1>1 DEF GoodWrite
<1>. QED
  BY <1>3, <1>5, <1>6, <1>7, <1>8

\* The record after it is as the dialogue wants it.
LEMMA FirstWriteDialogue ==
  ASSUME Base, Dialogue, overlaps = 0, NEW r \in Runs, WriteRedis(r)
  PROVE  /\ fsm'.stage \in MediaStages => fsm'.media = typed'.media
         /\ fsm'.stage = "quantity" => AllButLast'
         /\ run[r].todo[1] = Stage("idle") => fsm'.stage = "idle"
         /\ fsm'.stage \in AddStages /\ run[r].todo[1].of = {"stage"} => credit + crashes >= 1
<1>. DEFINE w == run[r].todo[1]
            o == credit + crashes
<1>1. /\ "stage" \in w.of => w.of = {"stage"} /\ fsm'.stage = w.to.stage
      /\ "stage" \notin w.of => fsm'.stage = fsm.stage
      /\ StageWrite(run[r].todo, 1, fsm, typed, o)
      /\ MediaWrite(run[r].todo, run[r].h, 1, fsm, typed)
      /\ QuantityWrite(run[r].todo, 1, fsm, typed)
      /\ run[r].h = "media" => w.of = {"media"}
      /\ run[r].h # "media" => typed' = typed
  BY FirstWrite
<1>2. fsm' = Written(w) /\ GoodWrite(w, nextProduct) /\ w \in Writes
  BY WriteRedisIs, Heads DEF GoodWrite
<1>3. /\ typed'.media = IF run[r].h = "media" THEN typed.media + 1 ELSE typed.media
      /\ typed'.quantities = typed.quantities
  BY WriteRedisIs
<1>4. /\ fsm'.media = IF "media" \in w.of THEN w.to.media ELSE fsm.media
      /\ fsm'.sizes = IF "sizes" \in w.of THEN w.to.sizes ELSE fsm.sizes
      /\ fsm'.quantities = IF "quantities" \in w.of THEN w.to.quantities ELSE fsm.quantities
      /\ fsm'.idx = IF "idx" \in w.of THEN w.to.idx ELSE fsm.idx
  BY <1>2, WrittenRecord, BaseFacts
<1>5. /\ fsm.stage \in MediaStages => fsm.media = typed.media
      /\ fsm.stage = "quantity" => AllButLast
  BY DEF Dialogue
<1>. HIDE DEF o
<1>6. ASSUME fsm'.stage \in MediaStages PROVE fsm'.media = typed'.media
  <2>1. CASE "stage" \in w.of
    <3>1. w.to.stage \in MediaStages /\ "media" \notin w.of /\ run[r].h # "media"
      BY <1>1, <1>6, <2>1
    <3>2. fsm.media = typed.media
      BY <1>1, <2>1, <3>1 DEF StageWrite
    <3>. QED
      BY <1>3, <1>4, <3>1, <3>2
  <2>2. CASE "stage" \notin w.of /\ "media" \in w.of
    <3>1. fsm.stage \in MediaStages
      BY <1>1, <1>6, <2>2
    <3>2. run[r].h = "media" /\ w.to.media = typed.media + 1
      BY <1>1, <2>2, <3>1 DEF MediaWrite, IdleBefore, MediaStages
    <3>. QED
      BY <1>3, <1>4, <2>2, <3>2
  <2>3. CASE "stage" \notin w.of /\ "media" \notin w.of
    <3>1. run[r].h # "media" /\ fsm.media = typed.media
      BY <1>1, <1>5, <1>6, <2>3
    <3>. QED
      BY <1>3, <1>4, <2>3, <3>1
  <2>. QED
    BY <2>1, <2>2, <2>3
<1>7. ASSUME fsm'.stage = "quantity" PROVE AllButLast'
  <2>1. CASE "stage" \in w.of
    <3>1. w.to.stage = "quantity" /\ "quantities" \notin w.of
      BY <1>1, <1>7, <2>1
    <3>2. fsm.quantities = typed.quantities
      BY <1>1, <2>1, <3>1 DEF StageWrite
    <3>. QED
      BY <1>3, <1>4, <3>1, <3>2 DEF AllButLast
  <2>2. CASE "stage" \notin w.of /\ "quantities" \in w.of
    <3>1. fsm.stage = "quantity"
      BY <1>1, <1>7, <2>2
    <3>2. w.to.quantities = typed.quantities
      BY <1>1, <2>2, <3>1 DEF QuantityWrite, IdleBefore
    <3>. QED
      BY <1>3, <1>4, <2>2, <3>2 DEF AllButLast
  <2>3. CASE "stage" \notin w.of /\ "quantities" \notin w.of
    <3>1. "sizes" \notin w.of /\ "idx" \notin w.of
      BY <1>2, <2>3 DEF GoodWrite
    <3>2. fsm.stage = "quantity"
      BY <1>1, <1>7, <2>3
    <3>. QED
      BY <1>3, <1>4, <1>5, <2>3, <3>1, <3>2 DEF AllButLast
  <2>. QED
    BY <2>1, <2>2, <2>3
<1>8. run[r].todo[1] = Stage("idle") => fsm'.stage = "idle"
  <2>1. "idle" \in Stages
    BY DEF Stages
  <2>2. w = Stage("idle") => "stage" \in w.of /\ w.to.stage = "idle"
    BY <2>1, StageWritten
  <2>. QED
    BY <1>1, <2>2
<1>9. fsm'.stage \in AddStages /\ w.of = {"stage"} => o >= 1
  BY <1>1 DEF StageWrite
<1>. QED
  BY <1>6, <1>7, <1>8, <1>9 DEF o

\* The writes that are left are lawful for the record as it is then.
LEMMA LaterWrites ==
  ASSUME Base, Dialogue, overlaps = 0, NEW r \in Runs, WriteRedis(r)
  PROVE  Lawful(Tail(run[r].todo), run[r].h, fsm', typed', credit + crashes)
<1>. DEFINE todo == run[r].todo
            tail == Tail(todo)
            h == run[r].h
            o == credit + crashes
            t == typed
<1>1. /\ Len(tail) = Len(todo) - 1 /\ Len(todo) \in Nat \ {0}
      /\ \A i \in 1..Len(tail) : i + 1 \in 1..Len(todo) /\ tail[i] = todo[i + 1]
      /\ todo[1] \in Writes
  BY Heads DEF WriteRedis, GoodWrite
<1>2. Lawful(todo, h, fsm, t, o)
  BY DEF Dialogue, Answering
<1>3. /\ h = "media" => Len(todo) = 1
      /\ h # "media" => typed' = t
      /\ todo[1] = Stage("idle") => fsm'.stage = "idle"
  BY FirstWrite, FirstWriteDialogue
<1>4. /\ fsm'.media = IF "media" \in todo[1].of THEN todo[1].to.media ELSE fsm.media
      /\ fsm'.quantities = IF "quantities" \in todo[1].of THEN todo[1].to.quantities ELSE fsm.quantities
  BY <1>1, WriteRedisIs, WrittenRecord, BaseFacts
<1>. HIDE DEF tail, todo, h, o, t
<1>. SUFFICES ASSUME NEW j \in 1..Len(tail)
              PROVE  /\ StageWrite(tail, j, fsm', typed', o)
                     /\ MediaWrite(tail, h, j, fsm', typed')
                     /\ QuantityWrite(tail, j, fsm', typed')
  BY DEF Lawful, tail, todo, h, o
<1>5. /\ j + 1 \in 1..Len(todo) /\ tail[j] = todo[j + 1] /\ j \in Nat \ {0} /\ h # "media"
      /\ typed' = t /\ j + 1 # 1 /\ j + 1 - 1 = j
  BY <1>1, <1>3
<1>6. /\ StageWrite(todo, j + 1, fsm, t, o) /\ MediaWrite(todo, h, j + 1, fsm, t)
      /\ QuantityWrite(todo, j + 1, fsm, t)
  BY <1>2, <1>5 DEF Lawful
<1>7. StageWrite(tail, j, fsm', t, o)
  <2>. SUFFICES ASSUME "stage" \in tail[j].of
                PROVE  /\ tail[j].to.stage \in AddStages => o >= 1
                       /\ tail[j].to.stage \in MediaStages => j = 1 /\ fsm'.media = t.media
                       /\ tail[j].to.stage = "quantity" => j = 1 /\ fsm'.quantities = t.quantities
    BY DEF StageWrite
  <2>1. tail[j].to.stage \in AddStages => o >= 1
    BY <1>5, <1>6 DEF StageWrite
  <2>2. tail[j].to.stage \in MediaStages => j = 1 /\ fsm'.media = t.media
    BY <1>4, <1>5, <1>6 DEF StageWrite
  <2>3. tail[j].to.stage = "quantity" => j = 1
    BY <2>2 DEF MediaStages
  <2>4. tail[j].to.stage = "quantity" => fsm'.quantities = t.quantities
    BY <1>4, <1>5, <1>6, <2>3 DEF StageWrite
  <2>. QED
    BY <2>1, <2>2, <2>3, <2>4
<1>8. ASSUME todo[j] = Stage("idle") PROVE IdleBefore(tail, j, fsm')
  <2>1. CASE j = 1
    BY <1>3, <1>8, <2>1 DEF IdleBefore
  <2>2. CASE j # 1
    <3>1. j - 1 \in 1..Len(tail) /\ j - 1 + 1 = j
      BY <1>1, <1>5, <2>2
    <3>2. tail[j - 1] = todo[j]
      BY <1>1, <3>1
    <3>. QED
      BY <1>8, <2>2, <3>2 DEF IdleBefore
  <2>. QED
    BY <2>1, <2>2
<1>9. IdleBefore(todo, j + 1, fsm) <=> todo[j] = Stage("idle")
  BY <1>5 DEF IdleBefore
<1>10. MediaWrite(tail, h, j, fsm', t)
  BY <1>5, <1>6, <1>8, <1>9 DEF MediaWrite
<1>11. QuantityWrite(tail, j, fsm', t)
  BY <1>5, <1>6, <1>8, <1>9 DEF QuantityWrite
<1>. QED
  BY <1>5, <1>7, <1>10, <1>11

LEMMA WriteRedisDialogue ==
  ASSUME Base, Alone, Dialogue, NEW r \in Runs, WriteRedis(r) PROVE Dialogue'
<1>. DEFINE K == [run[r] EXCEPT !.todo = Tail(run[r].todo)]
            L == Goes(K)
            o == credit + crashes
<1>1. /\ run[r].pc = "redis" /\ K \in RunRecord /\ K.todo = Tail(run[r].todo) /\ K.h = run[r].h
      /\ Become(r, L) /\ UNCHANGED <<db, screen, credit, bounds>> /\ fsm' = Written(run[r].todo[1])
      /\ typed'.quantities = typed.quantities
  BY WriteRedisIs
<1>. HIDE DEF K
<1>2. /\ run'[r] = L /\ \A q \in Runs \ {r} : run'[q] = run[q]
      /\ overlaps' = overlaps /\ crashes' = crashes /\ credit' = credit
  BY <1>1, OneStepIs DEF bounds
<1>. SUFFICES ASSUME overlaps = 0
              PROVE  /\ fsm'.stage \in MediaStages => fsm'.media = typed'.media
                     /\ fsm'.stage = "quantity" => AllButLast'
                     /\ o >= 0
                     /\ fsm'.stage \in AddStages /\ ~Clearing' => o >= 1
                     /\ \A q \in Runs : Answering(run'[q], fsm', typed', o)
  BY <1>2 DEF Dialogue
<1>3. \A q \in Runs \ {r} : run[q] = NoRun
  BY <1>1, RestIdle DEF Busy
<1>4. fsm'.stage \in AddStages => o >= 1
  <2>1. CASE run[r].todo[1].of = {"stage"}
    BY <2>1, FirstWriteDialogue
  <2>2. CASE run[r].todo[1].of # {"stage"}
    <3>1. fsm'.stage = fsm.stage
      BY <2>2, FirstWrite
    <3>2. run[r].todo[1] # Stage("idle")
      <4>1. "idle" \in Stages
        BY DEF Stages
      <4>. QED
        BY <2>2, <4>1, StageWritten
    <3>3. ~Clearing
      BY <1>3, <3>2, NoRunFields DEF Clearing
    <3>. QED
      BY <3>1, <3>3 DEF Dialogue
  <2>. QED
    BY <2>1, <2>2
<1>5. Lawful(K.todo, K.h, fsm', typed', o)
  BY <1>1, LaterWrites
<1>6. Answering(L, fsm', typed', o)
  <2>1. CASE K.h = "media"
    <3>1. K.todo = <<>>
      <4>1. Len(K.todo) = 0 /\ K.todo \in Seq(Writes)
        <5>1. Len(run[r].todo) = 1
          BY <1>1, <2>1, FirstWrite
        <5>2. /\ Len(Tail(run[r].todo)) = Len(run[r].todo) - 1
              /\ Tail(run[r].todo) \in Seq(Writes)
          BY <1>1, Heads
        <5>. QED
          BY <1>1, <5>1, <5>2
      <4>. QED
        BY <4>1
    <3>2. \/ L = NoRun
          \/ L.pc = "card" /\ L.todo = <<>> /\ L.h = "media"
      BY <1>1, <2>1, <3>1, GoesIs
    <3>3. CASE L = NoRun
      BY <3>3, NoRunAnswers
    <3>4. CASE L.pc = "card" /\ L.todo = <<>> /\ L.h = "media"
      BY <3>4, LawfulNothing DEF Answering, Creating
    <3>. QED
      BY <3>2, <3>3, <3>4
  <2>2. CASE K.h = "create"
    <3>1. /\ K.todo = <<>> /\ fsm.stage = "quantity" /\ o >= 1
          /\ run[r].todo[1].of = {"quantities"}
          /\ run[r].todo[1].to.quantities = typed.quantities
      <4>1. Len(K.todo) = 0 /\ K.todo \in Seq(Writes)
        <5>1. Len(run[r].todo) = 1
          BY <1>1, <2>2, FirstWrite
        <5>2. /\ Len(Tail(run[r].todo)) = Len(run[r].todo) - 1
              /\ Tail(run[r].todo) \in Seq(Writes)
          BY <1>1, Heads
        <5>. QED
          BY <1>1, <5>1, <5>2
      <4>2. K.todo = <<>>
        BY <4>1
      <4>. QED
        BY <1>1, <2>2, <4>2, FirstWrite
    <3>2. L.pc = "read" /\ L.h = "create" /\ L.todo = <<>>
      BY <1>1, <2>2, <3>1, GoesIs
    <3>3. run[r].todo[1] \in Writes
      BY <1>1, Heads DEF GoodWrite
    <3>4. fsm'.stage = fsm.stage /\ fsm'.quantities = typed.quantities
      BY <1>1, <3>1, <3>3, WrittenRecord, BaseFacts
    <3>5. Creating(L, fsm', typed', o)
      BY <1>1, <3>1, <3>2, <3>4 DEF Creating
    <3>. QED
      BY <3>2, <3>5, LawfulNothing DEF Answering
  <2>3. CASE K.h \notin {"media", "create"} /\ K.todo # <<>>
    <3>1. L.pc = "redis" /\ L.h = K.h /\ L.todo = K.todo
      BY <1>1, <2>3, GoesIs
    <3>. QED
      BY <1>5, <2>3, <3>1 DEF Answering, Creating
  <2>4. CASE K.h \notin {"media", "create"} /\ K.todo = <<>>
    <3>1. L = NoRun \/ (L.pc = "card" /\ L.h = K.h /\ L.todo = <<>>)
      BY <1>1, <2>4, GoesIs
    <3>2. CASE L = NoRun
      BY <3>2, NoRunAnswers
    <3>3. CASE L.pc = "card" /\ L.h = K.h /\ L.todo = <<>>
      BY <2>4, <3>3, LawfulNothing DEF Answering, Creating
    <3>. QED
      BY <3>1, <3>2, <3>3
  <2>. QED
    BY <2>1, <2>2, <2>3, <2>4
<1>7. \A q \in Runs : Answering(run'[q], fsm', typed', o)
  BY <1>2, <1>3, <1>6, NoRunAnswers
<1>8. o >= 0
  BY DEF Dialogue
<1>. QED
  BY <1>4, <1>7, <1>8, FirstWriteDialogue

-----------------------------------------------------------------------------
(***************************************************************************)
(* The product on the screen.                                              *)
(***************************************************************************)

\* A run that has nothing to write and opens no card of its own.
LEMMA QuietPoints ==
  ASSUME NEW L, NEW f, NEW others, NEW shown, L.todo = <<>>, L.pc # "redis",
         L.pc = "card" => L.id = 0,
         L.pc = "commit" =>
           /\ L.h \in {"edit", "stock", "newBrand", "photo", "delete"} => L.data.product \notin others
           /\ L.h = "photoDelete" => L.id \in shown
  PROVE  Pointing(L, f, others, shown)
BY DEF Pointing

LEMMA NoRunPoints == ASSUME NEW f, NEW others, NEW shown PROVE Pointing(NoRun, f, others, shown)
BY NoRunFields, QuietPoints

\* One that writes, and names no product of the others.
LEMMA WritingPoints ==
  ASSUME NEW L, NEW f, NEW others, NEW shown, L.pc = "redis", L.card = "none" \/ L.id = 0,
         \A i \in 1..Len(L.todo) : "product" \in L.todo[i].of => L.todo[i].to.product \notin others
  PROVE  Pointing(L, f, others, shown)
BY DEF Pointing

LEMMA OneWritePoints ==
  ASSUME NEW L, NEW f, NEW others, NEW shown, NEW w, L.pc = "redis", L.card = "none" \/ L.id = 0,
         L.todo = <<w>>, "product" \notin w.of
  PROVE  Pointing(L, f, others, shown)
<1>1. Len(L.todo) = 1 /\ L.todo[1] = w
  OBVIOUS
<1>. QED
  BY <1>1, WritingPoints

LEMMA AfterwardsPoints ==
  ASSUME Base, NEW L \in Afterwards, NEW f, NEW others, NEW shown, 0 \notin others
  PROVE  Pointing(L, f, others, shown)
<1>1. \/ L = NoRun
      \/ L.pc = "redis" /\ L.todo = Clear /\ L.card = "none" /\ L.id = 0
      \/ L.pc = "card" /\ L.todo = <<>> /\ L.card # "none" /\ L.id = 0
      \/ L.pc = "redis" /\ L.todo = <<Stage("idle")>> /\ L.card # "none" /\ L.id = 0
  BY AfterwardsIs
<1>2. Stage("idle").of = {"stage"} /\ NoData.to.product = 0
  BY StageWritten, NoDataIs, NoFieldsType DEF Stages
<1>3. CASE L.pc = "redis" /\ L.todo = Clear /\ L.card = "none"
  BY <1>2, <1>3, ClearIs, WritingPoints
<1>4. CASE L.pc = "card" /\ L.todo = <<>> /\ L.id = 0
  BY <1>4, QuietPoints
<1>5. CASE L.pc = "redis" /\ L.todo = <<Stage("idle")>> /\ L.id = 0
  BY <1>2, <1>5, OneWritePoints
<1>. QED
  BY <1>1, <1>3, <1>4, <1>5, NoRunPoints

\* An input points at the product on the screen, or at none, or opens a card.
LEMMA InputPoints ==
  ASSUME Base, NEW r \in Runs, Input(r), overlaps' = 0
  PROVE  Pointing(run'[r], fsm, Others', Picked')
<1>1. CASE Asking(run'[r], fsm) /\ (run'[r].pc = "commit" /\ run'[r].h = "photoDelete" => run'[r].id \in Picked')
  BY <1>1, QuietPoints DEF Asking
<1>2. ASSUME NEW todo \in Seq(Writes), NEW card \in Cards \ {"none"}, NEW p \in Nat,
             run'[r] = Show(todo, card, p)
      PROVE  /\ run'[r].todo = todo /\ run'[r].card = card /\ run'[r].id = p
             /\ todo = <<>> => run'[r].pc = "card"
             /\ todo # <<>> => run'[r].pc = "redis"
  BY <1>2, ShowRun
<1>3. ASSUME NEW p \in 1..nextProduct - 1, NEW card \in Cards \ {"none"},
             run'[r] = Show(<<Field("product", p)>>, card, p)
      PROVE  Pointing(run'[r], fsm, Others', Picked')
  <2>1. p \in 0..MaxProducts /\ p \in Nat /\ p # 0
    BY BaseFacts, Numbers
  <2>. DEFINE w == Field("product", p)
  <2>2. w.of = {"product"} /\ w.to.product = p /\ <<w>> \in Seq(Writes)
    BY <2>1, ProductWrite
  <2>. HIDE DEF w
  <2>3. <<w>> # <<>> /\ Len(<<w>>) = 1 /\ <<w>>[1] = w
    OBVIOUS
  <2>4. run'[r] = Show(<<w>>, card, p)
    BY <1>3 DEF w
  <2>5. /\ run'[r].pc = "redis" /\ run'[r].card = card /\ run'[r].id = p
        /\ run'[r].todo = <<w>>
    <3>. DEFINE todo == <<w>>
    <3>1. todo \in Seq(Writes) /\ todo # <<>> /\ run'[r] = Show(todo, card, p) /\ p \in Nat
      BY <2>1, <2>2, <2>3, <2>4
    <3>. HIDE DEF todo
    <3>2. /\ run'[r].pc = "redis" /\ run'[r].card = card /\ run'[r].id = p
          /\ run'[r].todo = todo
      BY <1>2, <3>1
    <3>. QED
      BY <3>2 DEF todo
  <2>. QED
    BY <2>1, <2>2, <2>3, <2>5 DEF Pointing
<1>4. ASSUME NEW card \in Cards \ {"none"}, run'[r] = Show(<<>>, card, 0)
      PROVE  Pointing(run'[r], fsm, Others', Picked')
  <2>1. <<>> \in Seq(Writes) /\ 0 \in Nat
    OBVIOUS
  <2>2. run'[r].pc = "card" /\ run'[r].id = 0
    BY <1>4, <1>2, <2>1
  <2>3. run'[r].todo = <<>>
    BY <1>4, <1>2, <2>1
  <2>. QED
    BY <2>2, <2>3, QuietPoints
<1>5. CASE \E todo : run'[r] = Finish(todo) /\ Writing(todo, fsm, typed', Debt, nextProduct, Others')
  <2>1. PICK todo : run'[r] = Finish(todo) /\ Writing(todo, fsm, typed', Debt, nextProduct, Others')
    BY <1>5
  <2>2. /\ todo \in Seq(Writes) /\ todo # <<>>
        /\ \A i \in 1..Len(todo) : "product" \in todo[i].of => todo[i].to.product \notin Others'
    BY <2>1 DEF Writing, GoodWrites
  <2>3. run'[r].pc = "redis" /\ run'[r].todo = todo /\ run'[r].card = "none"
    BY <2>1, <2>2, FinishIs
  <2>. QED
    BY <2>2, <2>3, WritingPoints
<1>. QED
  BY <1>1, <1>3, <1>4, <1>5 DEF Input

LEMMA InputPointers ==
  ASSUME Base, Pointers, NEW r \in Runs, Input(r) PROVE Pointers'
<1>. SUFFICES ASSUME overlaps' = 0, crashes' = 0
              PROVE  /\ ~Turning' => fsm'.product \notin Others'
                     /\ \A q \in Runs : Pointing(run'[q], fsm', Others', Picked')
  BY DEF Pointers
<1>1. overlaps = 0 /\ \A q \in Runs : run[q] = NoRun
  BY AllIdle
<1>2. /\ fsm' = fsm /\ crashes = 0 /\ \A q \in Runs \ {r} : run'[q] = run[q]
      /\ UNCHANGED db
  BY BaseFacts DEF Input
<1>3. \A q \in Runs : Pointing(run'[q], fsm', Others', Picked')
  BY <1>1, <1>2, InputPoints, NoRunPoints
<1>4. ~Turning
  BY <1>1, NoRunFields DEF Turning, Turns
<1>5. fsm.product \notin Others
  BY <1>1, <1>2, <1>4 DEF Pointers
<1>6. Live' = Live
  BY <1>2, SamePhotos
<1>7. ASSUME screen'.product \in {screen.product, fsm.product} PROVE fsm'.product \notin Others'
  BY <1>2, <1>5, <1>6, <1>7 DEF Others
<1>8. ASSUME NEW todo, run'[r] = Finish(todo), todo \in Seq(Writes), todo # <<>>,
             "product" \in todo[1].of
      PROVE  Turning'
  <2>1. run'[r].pc = "redis" /\ run'[r].todo = todo
    BY <1>8, FinishIs
  <2>. QED
    BY <1>8, <2>1 DEF Turning, Turns
<1>9. fsm'.product \notin Others' \/ Turning'
  <2>1. CASE UNCHANGED history
    BY <1>7, <2>1 DEF history
  <2>2. CASE \E todo : /\ run'[r] = Finish(todo)
                       /\ Writing(todo, fsm, typed', Debt, nextProduct, Others')
                       /\ screen'.product \in {screen.product, fsm.product}
                            \/ "product" \in todo[1].of
    BY <1>7, <1>8, <2>2 DEF Writing, GoodWrites
  <2>. QED
    BY <2>1, <2>2 DEF Input
<1>. QED
  BY <1>3, <1>9

\* A question, an answer or a commit of a run that is alone.
LEMMA PointersStep ==
  ASSUME Base, Alone, Pointers, NEW r \in Runs, NEW L, run[r].pc \in {"read", "commit"},
         Become(r, L), UNCHANGED <<fsm, screen, bounds>>, Live' \subseteq Live \cup {nextProduct},
         fsm.product \notin Others => Pointing(L, fsm, Others', Picked)
  PROVE  Pointers'
<1>1. /\ run'[r] = L /\ \A q \in Runs \ {r} : run'[q] = run[q]
      /\ overlaps' = overlaps /\ crashes' = crashes /\ strayed' = strayed
  BY OneStepIs DEF bounds
<1>. SUFFICES ASSUME overlaps = 0, crashes = 0
              PROVE  /\ fsm.product \notin Others'
                     /\ \A q \in Runs : Pointing(run'[q], fsm, Others', Picked)
  BY <1>1 DEF Pointers, Picked
<1>2. \A q \in Runs \ {r} : run[q] = NoRun
  BY RestIdle DEF Busy
<1>3. ~Turning
  BY <1>2, NoRunFields DEF Turning, Turns
<1>4. fsm.product \notin Others
  BY <1>3 DEF Pointers
<1>5. fsm.product \notin Others'
  <2>1. fsm.product # nextProduct
    BY BaseFacts
  <2>. QED
    BY <1>4, <2>1 DEF Others
<1>. QED
  BY <1>1, <1>2, <1>4, <1>5, NoRunPoints

LEMMA QuietPointers ==
  ASSUME Base, Alone, Pointers, NEW r \in Runs, NEW L, run[r].pc = "read",
         Become(r, L), UNCHANGED <<db, fsm, screen, bounds>>,
         fsm.product \notin Others => Pointing(L, fsm, Others, Picked)
  PROVE  Pointers'
<1>1. Live' = Live
  BY SamePhotos
<1>2. Others' = Others
  BY <1>1 DEF Others
<1>. QED
  BY <1>1, <1>2, PointersStep

LEMMA ReadListPointers ==
  ASSUME Base, Alone, Pointers, NEW r \in Runs, ReadList(r) PROVE Pointers'
<1>1. run[r].pc = "read" /\ UNCHANGED <<db, fsm, screen, bounds>>
  BY DEF ReadList, Reads
<1>2. PICK L : Become(r, L) /\ (L = Finish(<<Stage(run[r].next)>>) \/ L = Finish(<<>>))
  BY DEF ReadList
<1>3. Pointing(L, fsm, Others, Picked)
  <2>1. CASE L = Finish(<<>>)
    <3>1. <<>> \in Seq(Writes)
      OBVIOUS
    <3>2. L = NoRun
      BY <2>1, <3>1, FinishIs
    <3>. QED
      BY <3>2, NoRunPoints
  <2>2. CASE L = Finish(<<Stage(run[r].next)>>)
    <3>. DEFINE w == Stage(run[r].next)
    <3>1. w \in Writes /\ w.of = {"stage"}
      BY StageWritten, BaseFacts DEF RunRecord
    <3>. HIDE DEF w
    <3>2. <<w>> \in Seq(Writes) /\ <<w>> # <<>>
      BY <3>1
    <3>3. L = Finish(<<w>>)
      BY <2>2 DEF w
    <3>4. L.pc = "redis" /\ L.todo = <<w>> /\ L.card = "none"
      BY <3>2, <3>3, FinishIs
    <3>. QED
      BY <3>1, <3>4, OneWritePoints
  <2>. QED
    BY <1>2, <2>1, <2>2
<1>. QED
  BY <1>1, <1>2, <1>3, QuietPointers

LEMMA ReadUploadPointers ==
  ASSUME Base, Alone, Pointers, NEW r \in Runs, ReadUpload(r) PROVE Pointers'
<1>1. run[r].pc = "read" /\ UNCHANGED <<db, fsm, screen, bounds>>
  BY DEF ReadUpload, Reads
<1>2. CASE fsm.media >= MaxMedia
  <2>1. Become(r, NoRun)
    BY <1>2 DEF ReadUpload
  <2>. QED
    BY <1>1, <2>1, NoRunPoints, QuietPointers
<1>3. CASE ~(fsm.media >= MaxMedia)
  <2>. DEFINE L == Saved(fsm.media + 1)
  <2>1. Become(r, L)
    BY <1>3 DEF ReadUpload
  <2>2. fsm.media + 1 \in 0..MaxMedia
    <3>1. fsm.media \in 0..MaxMedia
      BY BaseFacts DEF FsmRecord
    <3>. QED
      BY <1>3, <3>1, Numbers
  <2>3. PICK w : L.pc = "redis" /\ L.todo = <<w>> /\ w.of = {"media"} /\ L.card = "none"
    BY <2>2, SavedIs, BaseFacts
  <2>. HIDE DEF L
  <2>4. Pointing(L, fsm, Others, Picked)
    BY <2>3, OneWritePoints
  <2>. QED
    BY <1>1, <2>1, <2>4, QuietPointers
<1>. QED
  BY <1>2, <1>3

LEMMA ReadQuantityPointers ==
  ASSUME Base, Alone, Pointers, NEW r \in Runs, ReadQuantity(r) PROVE Pointers'
<1>1. run[r].pc = "read" /\ UNCHANGED <<db, fsm, screen, bounds>>
  BY DEF ReadQuantity, Reads
<1>2. CASE Become(r, NoRun)
  BY <1>1, <1>2, NoRunPoints, QuietPointers
<1>3. ASSUME NEW w \in Writes, NEW L \in RunRecord,
             w.of = {"quantities"} \/ w.of = {"quantities", "idx"},
             Become(r, L), L.pc = "redis", L.todo = <<w>>, L.card = "none"
      PROVE  Pointers'
  <2>1. Pointing(L, fsm, Others, Picked)
    BY <1>3, OneWritePoints
  <2>. QED
    BY <1>1, <1>3, <2>1, QuietPointers
<1>. QED
  BY <1>2, <1>3, ReadQuantityIs

LEMMA ReadCreatePointers ==
  ASSUME Base, Alone, Pointers, NEW r \in Runs, ReadCreate(r) PROVE Pointers'
<1>1. run[r].pc = "read" /\ run[r].h = "create" /\ UNCHANGED <<db, fsm, screen, bounds>>
  BY DEF ReadCreate, Reads
<1>2. PICK L : Become(r, L) /\ (L = Commits(run[r]) \/ L \in Afterwards)
  BY DEF ReadCreate, Afterwards
<1>3. Pointing(L, fsm, Others, Picked)
  <2>1. CASE L \in Afterwards
    BY <2>1, AfterwardsPoints, NoOthers
  <2>2. CASE L = Commits(run[r])
    <3>1. L.pc = "commit" /\ L.h = "create" /\ L.todo = <<>>
      BY <1>1, <2>2, CommitsSound
    <3>. QED
      BY <3>1, QuietPoints
  <2>. QED
    BY <1>2, <2>1, <2>2
<1>. QED
  BY <1>1, <1>2, <1>3, QuietPointers

LEMMA EditReadsPointers ==
  ASSUME Base, Alone, Pointers, NEW r \in Runs, EditReads(r) PROVE Pointers'
<1>1. run[r].pc = "read" /\ UNCHANGED <<db, fsm, screen, bounds>>
  BY EditReadsIs
<1>2. PICK L : /\ Become(r, L)
               /\ \/ L = NoRun
                  \/ /\ L.pc = "commit" /\ L.todo = <<>> /\ L.data = fsm
                     /\ L.h \in {"edit", "stock", "delete", "deleteGroup", "newBrand", "photo"}
  BY EditReadsIs
<1>3. fsm.product \notin Others => Pointing(L, fsm, Others, Picked)
  <2>1. CASE L = NoRun
    BY <2>1, NoRunPoints
  <2>2. CASE /\ L.pc = "commit" /\ L.todo = <<>> /\ L.data = fsm
             /\ L.h \in {"edit", "stock", "delete", "deleteGroup", "newBrand", "photo"}
    BY <2>2, QuietPoints
  <2>. QED
    BY <1>2, <2>1, <2>2
<1>. QED
  BY <1>1, <1>2, <1>3, QuietPointers

LEMMA PlainCommitPointers ==
  ASSUME Base, Alone, Pointers, NEW r \in Runs, PlainCommit(r) PROVE Pointers'
<1>1. PICK L \in Afterwards : Become(r, L)
  BY DEF PlainCommit
<1>2. run[r].pc = "commit" /\ UNCHANGED <<fsm, screen, bounds>> /\ Live' \subseteq Live
  BY DEF PlainCommit
<1>3. Pointing(L, fsm, Others', Picked)
  BY AfterwardsPoints, NoOthers
<1>. QED
  BY <1>1, <1>2, <1>3, PointersStep

LEMMA CommitProductPointers ==
  ASSUME Base, Alone, Pointers, NEW r \in Runs, CommitProduct(r) PROVE Pointers'
<1>1. run[r].pc = "commit" /\ UNCHANGED <<fsm, screen, typed, bounds>>
  BY DEF CommitProduct, CommitsOf
<1>2. PICK L \in Afterwards : Become(r, L)
  BY CommitProductIs DEF Afterwards
<1>3. Live' \subseteq Live \cup {nextProduct}
  <2>1. CASE Nothing
    BY <2>1, SamePhotos DEF Nothing
  <2>2. CASE products' = [products EXCEPT ![nextProduct] = Made(run[r].data)]
    BY <2>2 DEF Live, Base, TypeOK
  <2>. QED
    BY <2>1, <2>2, CommitProductIs
<1>4. Pointing(L, fsm, Others', Picked)
  BY AfterwardsPoints, NoOthers
<1>. QED
  BY <1>1, <1>2, <1>3, <1>4, PointersStep

\* What a run has left after a write points where it should.
LEMMA LaterPoints ==
  ASSUME Base, Dialogue, Pointers, overlaps = 0, crashes = 0, NEW r \in Runs, WriteRedis(r),
         NEW K \in RunRecord, K.todo = Tail(run[r].todo), K.h = run[r].h, K.card = run[r].card,
         K.id = run[r].id
  PROVE  /\ Pointing(Goes(K), fsm', Others, Picked)
         /\ \/ Turns(Goes(K))
            \/ "product" \in run[r].todo[1].of /\ fsm'.product \notin Others
            \/ "product" \notin run[r].todo[1].of /\ fsm'.product = fsm.product
<1>. DEFINE L == Goes(K)
            todo == run[r].todo
<1>1. /\ run[r].pc = "redis" /\ Pointing(run[r], fsm, Others, Picked)
  BY WriteRedisIs DEF Pointers
<1>2. /\ todo[1] \in Writes /\ Len(todo) \in Nat \ {0} /\ Len(K.todo) = Len(todo) - 1
      /\ K.todo \in Seq(Writes)
      /\ \A i \in 1..Len(K.todo) : i + 1 \in 1..Len(todo) /\ K.todo[i] = todo[i + 1]
  BY <1>1, Heads DEF GoodWrite
<1>3. fsm'.product = IF "product" \in todo[1].of THEN todo[1].to.product ELSE fsm.product
  BY <1>2, WriteRedisIs, WrittenRecord, BaseFacts
<1>. HIDE DEF todo
<1>4. CASE K.card # "none" /\ K.id # 0
  <2>1. Len(todo) = 1 /\ "product" \in todo[1].of /\ todo[1].to.product = K.id
    BY <1>1, <1>4 DEF Pointing, todo
  <2>2. K.h # "create"
    <3>1. K.h = "create" => todo[1].of = {"quantities"}
      BY FirstWrite DEF todo
    <3>. QED
      BY <2>1, <3>1
  <2>3. K.todo \in Seq(Writes) /\ Len(K.todo) = 0
    BY <1>2, <2>1
  <2>4. K.todo = <<>>
    <3>. DEFINE rest == K.todo
    <3>1. rest \in Seq(Writes) /\ Len(rest) = 0
      BY <2>3
    <3>. HIDE DEF rest
    <3>2. rest = <<>>
      BY <3>1
    <3>. QED
      BY <3>2 DEF rest
  <2>5. L.pc = "card" /\ L.todo = <<>> /\ L.id = K.id /\ L.card = K.card
    BY <1>4, <2>2, <2>4, GoesIs
  <2>6. fsm'.product = L.id
    BY <1>3, <2>1, <2>5
  <2>7. Pointing(L, fsm', Others, Picked)
    BY <1>4, <2>5, <2>6 DEF Pointing
  <2>8. Turns(L)
    BY <1>4, <2>5 DEF Turns
  <2>. QED
    BY <2>7, <2>8
<1>5. CASE K.card = "none" \/ K.id = 0
  <2>1. \A i \in 1..Len(todo) : "product" \in todo[i].of => todo[i].to.product \notin Others
    BY <1>1, <1>5 DEF Pointing, todo
  <2>2. \/ "product" \in todo[1].of /\ fsm'.product \notin Others
        \/ "product" \notin todo[1].of /\ fsm'.product = fsm.product
    BY <1>2, <1>3, <2>1
  <2>3. \A i \in 1..Len(K.todo) : "product" \in K.todo[i].of => K.todo[i].to.product \notin Others
    BY <1>2, <2>1
  <2>4. Pointing(L, fsm', Others, Picked)
    <3>1. CASE K.todo # <<>>
      <4>1. L.pc = "redis" /\ L.todo = K.todo /\ L.card = K.card /\ L.id = K.id
        BY <3>1, GoesIs
      <4>. QED
        BY <1>5, <2>3, <4>1, WritingPoints
    <3>2. CASE K.todo = <<>>
      <4>1. /\ L.todo = <<>> /\ L.pc # "redis" /\ L.pc # "commit"
            /\ L.pc = "card" => L.id = 0
        BY <1>5, <3>2, GoesIs, NoRunFields
      <4>. QED
        BY <4>1, QuietPoints
    <3>. QED
      BY <3>1, <3>2
  <2>. QED
    BY <2>2, <2>4 DEF todo
<1>. QED
  BY <1>4, <1>5

LEMMA WriteRedisPointers ==
  ASSUME Base, Alone, Dialogue, Pointers, NEW r \in Runs, WriteRedis(r) PROVE Pointers'
<1>. DEFINE K == [run[r] EXCEPT !.todo = Tail(run[r].todo)]
<1>1. /\ run[r].pc = "redis" /\ K \in RunRecord /\ K.todo = Tail(run[r].todo) /\ K.h = run[r].h
      /\ K.card = run[r].card /\ K.id = run[r].id
      /\ Become(r, Goes(K)) /\ UNCHANGED <<db, screen, credit, bounds>>
  BY WriteRedisIs
<1>. HIDE DEF K
<1>2. /\ run'[r] = Goes(K) /\ \A q \in Runs \ {r} : run'[q] = run[q]
      /\ overlaps' = overlaps /\ crashes' = crashes /\ strayed' = strayed
  BY <1>1, OneStepIs DEF bounds
<1>3. Others' = Others
  BY <1>1, SamePhotos DEF Others
<1>. SUFFICES ASSUME overlaps = 0, crashes = 0
              PROVE  /\ ~Turning' => fsm'.product \notin Others
                     /\ \A q \in Runs : Pointing(run'[q], fsm', Others, Picked)
  BY <1>1, <1>2, <1>3 DEF Pointers, Picked
<1>4. \A q \in Runs \ {r} : run[q] = NoRun
  BY <1>1, RestIdle DEF Busy
<1>5. /\ Pointing(Goes(K), fsm', Others, Picked)
      /\ \/ Turns(Goes(K))
         \/ "product" \in run[r].todo[1].of /\ fsm'.product \notin Others
         \/ "product" \notin run[r].todo[1].of /\ fsm'.product = fsm.product
  BY <1>1, LaterPoints
<1>6. Turns(Goes(K)) => Turning'
  BY <1>2 DEF Turning, Turns
<1>7. "product" \notin run[r].todo[1].of => fsm.product \notin Others
  <2>1. "product" \notin run[r].todo[1].of => ~Turning
    BY <1>1, <1>4, NoRunFields DEF Turning, Turns
  <2>. QED
    BY <2>1 DEF Pointers
<1>. QED
  BY <1>2, <1>4, <1>5, <1>6, <1>7, NoRunPoints

LEMMA ShowCardPointers ==
  ASSUME Base, Alone, Pointers, NEW r \in Runs, ShowCard(r) PROVE Pointers'
<1>1. run[r].pc = "card" /\ Become(r, NoRun) /\ UNCHANGED <<db, typed, credit, bounds>>
  BY ShowCardIs
<1>2. /\ run'[r] = NoRun /\ \A q \in Runs \ {r} : run'[q] = run[q]
      /\ overlaps' = overlaps /\ crashes' = crashes
  BY <1>1, OneStepIs DEF bounds
<1>3. Live' = Live
  BY <1>1, SamePhotos
<1>. SUFFICES ASSUME overlaps = 0, crashes = 0
              PROVE  /\ fsm'.product \notin Others'
                     /\ \A q \in Runs : Pointing(run'[q], fsm', Others', Picked')
  BY <1>2 DEF Pointers
<1>4. \A q \in Runs \ {r} : run[q] = NoRun
  BY <1>1, RestIdle DEF Busy
<1>5. \A q \in Runs : Pointing(run'[q], fsm', Others', Picked')
  BY <1>2, <1>4, NoRunPoints
<1>. DEFINE p == IF run[r].id # 0 THEN run[r].id ELSE fsm.product
<1>6. run[r].id # 0 => p = fsm.product
  BY <1>1 DEF Pointers, Pointing
<1>7. \/ p \notin Live /\ UNCHANGED <<fsm, screen>>
      \/ p \in Live /\ screen'.product = p /\ fsm'.product = fsm.product
  BY ShowCardIs, Viewed
<1>8. fsm'.product \notin Others'
  <2>1. p = fsm.product
    BY <1>6
  <2>. HIDE DEF p
  <2>2. CASE p \notin Live /\ UNCHANGED <<fsm, screen>>
    BY <1>3, <2>1, <2>2 DEF Others
  <2>3. CASE p \in Live /\ screen'.product = p /\ fsm'.product = fsm.product
    BY <1>3, <2>1, <2>3 DEF Others
  <2>. QED
    BY <1>7, <2>2, <2>3
<1>. QED
  BY <1>5, <1>8

LEMMA AdminPointers == ASSUME Base, Pointers, AdminIs PROVE Pointers'
<1>1. /\ UNCHANGED <<fsm, run, screen, overlaps, strayed, crashes>>
      /\ \A r \in Runs : run[r].pc # "redis"
      /\ Live' \subseteq Live \cup {nextProduct}
  BY DEF AdminIs, history
<1>2. Others' \subseteq Others \cup {nextProduct}
  BY <1>1 DEF Others
<1>3. fsm.product # nextProduct /\ \A r \in Runs : run[r].data.product # nextProduct
  BY BaseFacts, RunData
<1>4. (Turning' <=> Turning) /\ Picked' = Picked
  BY <1>1 DEF Turning, Picked
<1>. SUFFICES ASSUME overlaps = 0, crashes = 0
              PROVE  /\ ~Turning => fsm.product \notin Others'
                     /\ \A q \in Runs : Pointing(run[q], fsm, Others', Picked)
  BY <1>1, <1>4 DEF Pointers
<1>5. ~Turning => fsm.product \notin Others'
  BY <1>2, <1>3 DEF Pointers
<1>6. ASSUME NEW q \in Runs PROVE Pointing(run[q], fsm, Others', Picked)
  <2>1. Pointing(run[q], fsm, Others, Picked) /\ run[q].todo = <<>> /\ run[q].pc # "redis"
    BY <1>1, BaseFacts DEF Pointers, Sound
  <2>. QED
    BY <1>2, <1>3, <2>1 DEF Pointing
<1>. QED
  BY <1>5, <1>6

LEMMA CrashPointers == ASSUME Base, Crash PROVE Pointers'
<1>1. crashes' = crashes + 1
  BY DEF Crash
<1>2. crashes' # 0
  BY <1>1, BaseFacts
<1>. QED
  BY <1>2 DEF Pointers

-----------------------------------------------------------------------------
(***************************************************************************)
(* The invariant.                                                          *)
(***************************************************************************)

LEMMA InitTypes == ASSUME Init PROVE TypeOK /\ nextProduct = Len(InitProducts) + 1
<1>. DEFINE n == Len(InitProducts)
<1>1. /\ groups = InitGroups /\ fsm \in InitFsm
      /\ nextId = [k \in Kinds |-> 1 + Cardinality(InitNames(k))]
      /\ products = [p \in 1..MaxProducts |-> IF p <= n THEN InitProducts[p] ELSE NoProduct]
      /\ nextProduct = n + 1 /\ run = [r \in Runs |-> NoRun]
  BY DEF Init
<1>2. n \in 0..MaxProducts /\ InitProducts \in Seq(Row)
  BY ProductsAssumption, Numbers
<1>3. nextProduct \in 1..MaxProducts + 1
  BY <1>1, <1>2, Numbers
<1>4. groups \in [Kinds -> [Names -> 0..MaxIds]]
  BY <1>1, GroupsAssumption
<1>5. nextId \in [Kinds -> 1..MaxIds + 1] /\ \A k \in Kinds, x \in Names : groups[k][x] < nextId[k]
  <2>. SUFFICES ASSUME NEW k \in Kinds
                PROVE  /\ 1 + Cardinality(InitNames(k)) \in 1..MaxIds + 1
                       /\ \A x \in Names : InitGroups[k][x] < 1 + Cardinality(InitNames(k))
    BY <1>1
  <2>. DEFINE c == Cardinality(InitNames(k))
  <2>1. /\ c \in 0..MaxIds /\ \A x \in Names : InitGroups[k][x] <= c
        /\ \A x \in Names : InitGroups[k][x] \in 0..MaxIds
    BY GroupsAssumption
  <2>. HIDE DEF c
  <2>2. 1 + c \in 1..MaxIds + 1 /\ \A x \in Names : InitGroups[k][x] < 1 + c
    BY <2>1, Numbers
  <2>. QED
    BY <2>2 DEF c
<1>6. ASSUME NEW p \in 1..MaxProducts, p <= n
      PROVE  p \in 1..n /\ products[p] = InitProducts[p] /\ InitProducts[p] \in Row
  BY <1>1, <1>2, <1>6
<1>7. products \in [1..MaxProducts -> Row]
  <2>1. NoProduct \in Row
    BY Numbers DEF NoProduct, Row
  <2>2. \A p \in 1..MaxProducts : (IF p <= n THEN InitProducts[p] ELSE NoProduct) \in Row
    BY <1>2, <2>1
  <2>. QED
    BY <1>1, <2>2
<1>8. ASSUME NEW p \in Live
      PROVE  /\ p < nextProduct
             /\ products[p].category \in Ids("category") /\ products[p].brand \in Ids("brand")
  <2>1. p \in 1..MaxProducts /\ p <= n
    BY <1>1 DEF Live
  <2>2. p \in 1..n /\ products[p] = InitProducts[p]
    BY <1>6, <2>1
  <2>3. /\ \E x \in Names : InitProducts[p].category = InitGroups["category"][x] /\ InitGroups["category"][x] # 0
        /\ \E x \in Names : InitProducts[p].brand = InitGroups["brand"][x] /\ InitGroups["brand"][x] # 0
    BY <2>2, ProductsAssumption
  <2>4. products[p].category \in Ids("category")
    BY <1>1, <2>2, <2>3 DEF Ids
  <2>5. products[p].brand \in Ids("brand")
    BY <1>1, <2>2, <2>3 DEF Ids
  <2>6. p < nextProduct
    BY <1>1, <1>2, <2>1, Numbers
  <2>. QED
    BY <2>4, <2>5, <2>6
<1>9. fsm \in FsmRecord /\ run \in [Runs -> RunRecord]
  BY <1>1, DialoguesAssumption, NoRunType
<1>10. screen \in [kind : {"none", "card", "warehouse", "confirm"}, product : 0..MaxProducts]
  <2>1. fsm.product \in 0..MaxProducts
    BY <1>9 DEF FsmRecord
  <2>2. PICK kind \in {"none", "card", "warehouse", "confirm"} :
          screen = [kind |-> kind, product |-> fsm.product]
    <3>1. CASE fsm.stage = "view"
      BY <3>1 DEF Init
    <3>2. CASE fsm.stage = "confirm"
      BY <3>2 DEF Init
    <3>3. CASE fsm.stage \notin {"view", "confirm"}
      BY <3>3 DEF Init
    <3>. QED
      BY <3>1, <3>2, <3>3
  <2>. QED
    BY <2>1, <2>2
<1>11. typed \in [media : Nat, quantities : [Sizes -> Nat]]
  <2>1. fsm.media \in Nat /\ fsm.quantities \in [Sizes -> Nat]
    BY <1>9, Numbers DEF FsmRecord
  <2>. QED
    BY <2>1 DEF Init
<1>12. credit \in Int /\ overlaps \in Nat /\ strayed \in BOOLEAN
       /\ updates \in Nat /\ outside \in Nat /\ crashes \in Nat
  <2>1. credit = IF fsm.stage \in AddStages THEN 1 ELSE 0
    BY DEF Init
  <2>2. overlaps = 0 /\ strayed = FALSE /\ updates = 0 /\ outside = 0 /\ crashes = 0
    BY DEF Init
  <2>3. credit \in Int
    BY <2>1
  <2>. QED
    BY <2>2, <2>3
<1>. QED
  BY <1>1, <1>3, <1>4, <1>5, <1>7, <1>8, <1>9, <1>10, <1>11, <1>12 DEF TypeOK

LEMMA InitInv == Init => Inv
<1>. SUFFICES ASSUME Init PROVE Inv
  OBVIOUS
<1>1. \A r \in Runs : run[r] = NoRun
  BY DEF Init
<1>2. TypeOK /\ nextProduct = Len(InitProducts) + 1
  BY InitTypes
<1>3. nextProduct \in Nat \ {0}
  BY <1>2, Numbers DEF TypeOK
<1>4. fsm.product < nextProduct
  <2>1. fsm.product <= Len(InitProducts) /\ fsm.product \in 0..MaxProducts
    BY DialoguesAssumption DEF Init, FsmRecord
  <2>2. Len(InitProducts) \in Nat
    BY ProductsAssumption
  <2>. QED
    BY <1>2, <2>1, <2>2, Numbers
<1>5. Base
  BY <1>1, <1>2, <1>3, <1>4, NoRunSound DEF Base, Past
<1>6. ASSUME NEW p \in Live PROVE Photos(p)
  <2>1. Uploads(p) = {}
    BY <1>1, NoRunFields DEF Uploads
  <2>2. Cardinality(Uploads(p)) = 0
    BY <2>1, FS_EmptySet
  <2>3. products[p].media <= MaxMedia
    <3>1. p \in 1..Len(InitProducts) /\ products[p] = InitProducts[p]
      <4>1. p \in 1..MaxProducts /\ p <= Len(InitProducts) /\ Len(InitProducts) \in Nat
        BY ProductsAssumption DEF Init, Live
      <4>. QED
        BY <4>1 DEF Init
    <3>. QED
      BY <3>1, ProductsAssumption
  <2>4. products[p].media \in Nat
    BY <1>5, RowOf
  <2>. QED
    BY <2>1, <2>2, <2>3, <2>4, UploadsFinite, Numbers DEF Photos
<1>7. Alone
  BY <1>1, NoRunFields DEF Alone, Busy
<1>8. Dialogue
  <2>1. typed.media = fsm.media /\ typed.quantities = fsm.quantities
    BY DEF Init
  <2>2. AllButLast
    BY <2>1 DEF AllButLast
  <2>3. /\ credit + crashes >= 0
        /\ fsm.stage \in AddStages => credit + crashes >= 1
    <3>1. crashes = 0 /\ credit = IF fsm.stage \in AddStages THEN 1 ELSE 0
      BY DEF Init
    <3>. QED
      BY <3>1
  <2>4. \A r \in Runs : Answering(run[r], fsm, typed, credit + crashes)
    BY <1>1, NoRunAnswers
  <2>. QED
    BY <2>1, <2>2, <2>3, <2>4 DEF Dialogue
<1>9. Pointers
  <2>1. screen.product = fsm.product
    BY DEF Init
  <2>2. fsm.product \notin Others
    BY <2>1 DEF Others
  <2>3. \A r \in Runs : Pointing(run[r], fsm, Others, Picked)
    BY <1>1, NoRunPoints
  <2>. QED
    BY <2>2, <2>3 DEF Pointers
<1>. QED
  BY <1>5, <1>6, <1>7, <1>8, <1>9 DEF Inv

-----------------------------------------------------------------------------
(***************************************************************************)
(* The invariant holds.                                                    *)
(***************************************************************************)

LEMMA QuietPhotos ==
  ASSUME Base, Base', Alone, AllPhotos, NEW r \in Runs, NEW L, Busy(r), Become(r, L),
         UNCHANGED <<db, bounds>>, L.pc # "commit" \/ L.h # "photo"
  PROVE  AllPhotos' /\ Alone'
<1>1. OneStep(r) /\ run'[r] = L
  BY OneStepIs DEF Busy
<1>2. FewerPhotos
  BY SamePhotos
<1>. QED
  BY <1>1, <1>2, OneStepPhotos, AloneStep

LEMMA InputInv == ASSUME Inv, NEW r \in Runs, Input(r) PROVE Inv'
BY InputBase, AloneInput, InputPhotos, InputDialogue, InputPointers DEF Inv, AllPhotos

LEMMA ReadListInv == ASSUME Inv, NEW r \in Runs, ReadList(r) PROVE Inv'
<1>1. Base'
  BY ReadListBase DEF Inv
<1>2. Busy(r) /\ UNCHANGED <<db, bounds>>
  BY DEF ReadList, Reads, Busy
<1>3. PICK s \in Stages : Become(r, Finish(<<Stage(s)>>)) \/ Become(r, Finish(<<>>))
  <2>1. run[r].next \in Stages
    BY BaseFacts DEF Inv, RunRecord
  <2>. QED
    BY <2>1 DEF ReadList
<1>4. <<Stage(s)>> \in Seq(Writes) /\ <<>> \in Seq(Writes)
  BY StageWritten
<1>5. Finish(<<Stage(s)>>).h = "none" /\ Finish(<<>>).h = "none"
  BY <1>4, FinishIs
<1>. QED
  BY <1>1, <1>2, <1>3, <1>5, QuietPhotos, ReadListDialogue, ReadListPointers DEF Inv, AllPhotos

LEMMA ReadUploadInv == ASSUME Inv, NEW r \in Runs, ReadUpload(r) PROVE Inv'
<1>1. Base'
  BY ReadUploadBase DEF Inv
<1>2. Busy(r) /\ UNCHANGED <<db, bounds>>
  BY DEF ReadUpload, Reads, Busy
<1>3. AllPhotos' /\ Alone'
  <2>1. CASE fsm.media >= MaxMedia
    <3>1. Become(r, NoRun)
      BY <2>1 DEF ReadUpload
    <3>. QED
      BY <1>1, <1>2, <3>1, NoRunFields, QuietPhotos DEF Inv, AllPhotos
  <2>2. CASE ~(fsm.media >= MaxMedia)
    <3>1. Become(r, Saved(fsm.media + 1))
      BY <2>2 DEF ReadUpload
    <3>2. fsm.media + 1 \in 0..MaxMedia
      <4>1. fsm.media \in 0..MaxMedia
        BY BaseFacts DEF Inv, FsmRecord
      <4>. QED
        BY <2>2, <4>1, Numbers
    <3>3. Saved(fsm.media + 1).h = "media"
      BY <3>2, SavedIs, Numbers
    <3>. QED
      BY <1>1, <1>2, <3>1, <3>3, QuietPhotos DEF Inv, AllPhotos
  <2>. QED
    BY <2>1, <2>2
<1>. QED
  BY <1>1, <1>3, ReadUploadDialogue, ReadUploadPointers DEF Inv, AllPhotos

LEMMA ReadQuantityInv == ASSUME Inv, NEW r \in Runs, ReadQuantity(r) PROVE Inv'
<1>1. Base'
  BY ReadQuantityBase DEF Inv
<1>2. Busy(r) /\ UNCHANGED <<db, bounds>>
  BY DEF ReadQuantity, Reads, Busy
<1>3. PICK L : Become(r, L) /\ (L.h \in {"none", "create"})
  BY ReadQuantityIs, NoRunFields DEF Inv
<1>. QED
  BY <1>1, <1>2, <1>3, QuietPhotos, ReadQuantityDialogue, ReadQuantityPointers DEF Inv, AllPhotos

LEMMA ReadCreateInv == ASSUME Inv, NEW r \in Runs, ReadCreate(r) PROVE Inv'
<1>1. Base'
  BY ReadCreateBase DEF Inv
<1>2. Busy(r) /\ UNCHANGED <<db, bounds>> /\ run[r].pc = "read" /\ run[r].h = "create"
  BY DEF ReadCreate, Reads, Busy
<1>3. \/ Become(r, NoRun) \/ Become(r, Finish(Clear)) \/ Become(r, Commits(run[r]))
  BY DEF ReadCreate
<1>4. NoRun.h = "none" /\ Finish(Clear).h = "none" /\ Commits(run[r]).h = "create"
  BY <1>2, NoRunFields, SoundBasics, FinishIs, CommitsSound DEF Inv
<1>. QED
  BY <1>1, <1>2, <1>3, <1>4, QuietPhotos, ReadCreateDialogue, ReadCreatePointers DEF Inv, AllPhotos

LEMMA EditReadsInv == ASSUME Inv, NEW r \in Runs, EditReads(r) PROVE Inv'
<1>1. Base'
  BY ReadEditBase, ReadNewBrandBase, ReadPhotoBase DEF Inv, EditReads
<1>2. AllPhotos' /\ Alone'
  <2>1. Busy(r) /\ UNCHANGED <<db, bounds>>
    BY EditReadsIs DEF Inv, Busy
  <2>2. CASE ReadEdit(r)
    <3>1. Become(r, Commits(run[r])) /\ run[r].h # "photo" /\ run[r].pc = "read"
      BY <2>2 DEF ReadEdit, Reads
    <3>2. Commits(run[r]).h # "photo"
      BY <3>1, CommitsSound DEF Inv
    <3>. QED
      BY <1>1, <2>1, <3>1, <3>2, QuietPhotos DEF Inv, AllPhotos
  <2>3. CASE ReadNewBrand(r)
    <3>1. PICK L : Become(r, L) /\ L.h # "photo"
      BY <2>3, ReadNewBrandIs, NoRunFields DEF Inv
    <3>. QED
      BY <1>1, <2>1, <3>1, QuietPhotos DEF Inv, AllPhotos
  <2>4. CASE ReadPhoto(r)
    <3>1. AllPhotos'
      BY <1>1, <2>4, ReadPhotoPhotos DEF Inv, AllPhotos
    <3>2. PICK L : Become(r, L)
      BY EditReadsIs DEF Inv
    <3>3. OneStep(r)
      BY <2>1, <3>2, OneStepIs DEF Inv, Busy
    <3>. QED
      BY <3>1, <3>3, AloneStep DEF Inv
  <2>. QED
    BY <2>2, <2>3, <2>4 DEF EditReads
<1>. QED
  BY <1>1, <1>2, EditReadsDialogue, EditReadsPointers DEF Inv, AllPhotos

LEMMA PlainCommitInv ==
  ASSUME Inv, Base', AllPhotos', NEW r \in Runs, PlainCommit(r) PROVE Inv'
<1>1. PICK L \in Afterwards : Become(r, L)
  BY DEF PlainCommit
<1>2. OneStep(r)
  BY <1>1, OneStepIs DEF Inv, PlainCommit
<1>3. Alone'
  BY <1>2, AloneStep DEF Inv
<1>. QED
  BY <1>3, PlainCommitDialogue, PlainCommitPointers DEF Inv, AllPhotos

LEMMA FewerCommitInv ==
  ASSUME Inv, Base', FewerPhotos, NEW r \in Runs, PlainCommit(r) PROVE Inv'
<1>1. PICK L \in Afterwards : Become(r, L)
  BY DEF PlainCommit
<1>2. OneStep(r) /\ run'[r] = L
  BY <1>1, OneStepIs DEF Inv, PlainCommit
<1>3. L.pc # "commit"
  BY <1>1, AfterwardsIs DEF Inv
<1>4. AllPhotos'
  BY <1>2, <1>3, OneStepPhotos DEF Inv, AllPhotos
<1>. QED
  BY <1>4, PlainCommitInv

LEMMA OneChangeInv == ASSUME Inv, NEW r \in Runs, OneCommits(r) PROVE Inv'
<1>1. OneChange(r)
  BY OneCommitsIs DEF Inv
<1>2. Base' /\ PlainCommit(r)
  BY <1>1, OneChangeBase, OneChangePlain DEF Inv
<1>3. AllPhotos'
  BY <1>1, <1>2, OneChangePhotos DEF Inv, AllPhotos
<1>. QED
  BY <1>2, <1>3, PlainCommitInv

LEMMA GroupCommitInv ==
  ASSUME Inv, NEW r \in Runs, CommitNewBrand(r) \/ CommitGroup(r) \/ CommitDeleteGroup(r) PROVE Inv'
<1>1. Base'
  BY CommitNewBrandBase, CommitGroupBase, CommitDeleteGroupBase DEF Inv
<1>2. PlainCommit(r) /\ FewerPhotos
  BY CommitNewBrandPlain, CommitGroupPlain, CommitDeleteGroupPlain DEF Inv
<1>. QED
  BY <1>1, <1>2, FewerCommitInv

LEMMA CommitProductInv == ASSUME Inv, NEW r \in Runs, CommitProduct(r) PROVE Inv'
<1>1. Base'
  BY CommitProductBase DEF Inv
<1>2. AllPhotos'
  BY <1>1, CommitProductPhotos DEF Inv, AllPhotos
<1>3. PICK L : Become(r, L)
  BY CommitProductIs DEF Inv
<1>4. run[r].pc # "idle" /\ UNCHANGED bounds
  BY DEF CommitProduct, CommitsOf
<1>5. OneStep(r)
  BY <1>3, <1>4, OneStepIs DEF Inv
<1>6. Alone'
  BY <1>5, AloneStep DEF Inv
<1>. QED
  BY <1>1, <1>2, <1>6, CommitProductDialogue, CommitProductPointers DEF Inv, AllPhotos

LEMMA WriteRedisInv == ASSUME Inv, NEW r \in Runs, WriteRedis(r) PROVE Inv'
<1>1. Base'
  BY WriteRedisBase DEF Inv
<1>2. PICK K \in RunRecord : K.h = run[r].h /\ Become(r, Goes(K))
  BY WriteRedisIs DEF Inv
<1>3. Goes(K).pc # "commit"
  <2>1. CASE K.todo # <<>>
    BY <2>1, GoesIs
  <2>2. CASE K.todo = <<>> /\ K.h = "create"
    BY <2>2, GoesIs
  <2>3. CASE K.todo = <<>> /\ K.h # "create" /\ K.card # "none"
    BY <2>3, GoesIs
  <2>. QED
    BY <2>1, <2>2, <2>3, GoesIs, NoRunFields
<1>4. Busy(r) /\ UNCHANGED <<db, bounds>>
  BY DEF WriteRedis, Busy
<1>. QED
  BY <1>1, <1>2, <1>3, <1>4, QuietPhotos, WriteRedisDialogue, WriteRedisPointers DEF Inv, AllPhotos

LEMMA ShowCardInv == ASSUME Inv, NEW r \in Runs, ShowCard(r) PROVE Inv'
<1>1. Base'
  BY ShowCardBase DEF Inv
<1>2. Busy(r) /\ UNCHANGED <<db, bounds>> /\ Become(r, NoRun)
  BY DEF ShowCard, Busy
<1>. QED
  BY <1>1, <1>2, NoRunFields, QuietPhotos, ShowCardDialogue, ShowCardPointers DEF Inv, AllPhotos

LEMMA AdminInv == ASSUME Inv, AdminIs PROVE Inv'
<1>1. Base'
  BY AdminBase DEF Inv
<1>2. Alone'
  BY DEF Inv, AdminIs, Alone, Busy
<1>. QED
  BY <1>1, <1>2, AdminPhotos, AdminDialogue, AdminPointers DEF Inv, AllPhotos

LEMMA CrashInv == ASSUME Inv, Crash PROVE Inv'
<1>1. Base'
  BY CrashBase DEF Inv
<1>2. Alone'
  BY NoRunFields DEF Crash, Alone, Busy
<1>. QED
  BY <1>1, <1>2, CrashPhotos, CrashDialogue, CrashPointers DEF Inv, AllPhotos

LEMMA StutterInv == ASSUME Inv, UNCHANGED vars PROVE Inv'
<1>1. Base'
  BY StutterBase DEF Inv
<1>2. (\A p \in Live : Photos(p))' /\ Alone'
  BY DEF Inv, vars, db, bounds, Live, Photos, Uploads, Alone, Busy
<1>3. Dialogue'
  BY DEF Inv, vars, bounds, history, Dialogue, AllButLast, Clearing
<1>4. Pointers'
  BY DEF Inv, vars, db, bounds, history, Pointers, Turning, Others, Live, Picked
<1>. QED
  BY <1>1, <1>2, <1>3, <1>4 DEF Inv

\* The invariant is inductive.
LEMMA InvStep == Inv /\ [Next]_vars => Inv'
<1>. SUFFICES ASSUME Inv, [Next]_vars PROVE Inv'
  OBVIOUS
<1>1. ASSUME NEW r \in Runs, Adding(r) \/ Editing(r) \/ Deleting(r) PROVE Inv'
  BY <1>1, AddingInput, EditingInput, DeletingInput, InputInv DEF Inv
<1>2. ASSUME NEW r \in Runs, Handling(r) PROVE Inv'
  <2>1. \/ ReadList(r) \/ ReadUpload(r) \/ ReadQuantity(r) \/ ReadCreate(r) \/ EditReads(r)
        \/ OneCommits(r) \/ CommitNewBrand(r) \/ CommitGroup(r) \/ CommitDeleteGroup(r)
        \/ CommitProduct(r) \/ WriteRedis(r) \/ ShowCard(r)
    BY <1>2 DEF Handling, EditReads, OneCommits
  <2>. QED
    BY <2>1, ReadListInv, ReadUploadInv, ReadQuantityInv, ReadCreateInv, EditReadsInv,
       OneChangeInv, GroupCommitInv, CommitProductInv, WriteRedisInv, ShowCardInv
<1>3. CASE AdminCreate \/ AdminUpdate \/ AdminDelete
  BY <1>3, AdminCreateIs, AdminUpdateIs, AdminDeleteIs, AdminInv DEF Inv
<1>4. CASE Crash
  BY <1>4, CrashInv
<1>5. CASE UNCHANGED vars
  BY <1>5, StutterInv
<1>. QED
  BY <1>1, <1>2, <1>3, <1>4, <1>5 DEF Next

\* Each update of the owner runs alone as long as no two were handled at once;
\* the FSM record then agrees with what was typed and with the newest message,
\* and what a handler is about to write keeps it so.
THEOREM Invariance == Spec => []Inv
<1>1. Init => Inv
  BY InitInv
<1>2. Inv /\ [Next]_vars => Inv'
  BY InvStep
<1>. QED
  BY <1>1, <1>2, PTL DEF Spec

\* The tables, the FSM record and the handlers' local data keep their types, and
\* every product its category and brand (Product, Category, Brand).
THEOREM TypeCorrect == Spec => []TypeOK
<1>1. Inv => TypeOK
  BY DEF Inv, Base
<1>. QED
  BY <1>1, Invariance, PTL

\* A product has no more photos than allowed, but for one more per upload that is
\* under way at once with another (add_photo).
THEOREM PhotosLimited == Spec => []PhotoLimit
<1>1. Inv => PhotoLimit
  <2>. SUFFICES ASSUME Inv, NEW p \in Live
                PROVE  /\ overlaps = 0 => products[p].media <= MaxMedia
                       /\ products[p].media < MaxMedia + Cardinality(Runs)
    BY DEF PhotoLimit
  <2>1. Photos(p)
    BY DEF Inv
  <2>2. products[p].media \in Nat /\ Cardinality(Uploads(p)) \in Nat /\ Cardinality(Runs) \in Nat
    BY RowOf, UploadsFinite DEF Inv
  <2>3. products[p].media <= products[p].media + Cardinality(Uploads(p))
    BY <2>2
  <2>. QED
    BY <2>1, <2>2, <2>3, Numbers DEF Photos
<1>. QED
  BY <1>1, Invariance, PTL

\* Who changes the tables and the debt: the run that commits, or the web API.
LEMMA WhoActs ==
  ASSUME Inv, [Next]_vars, overlaps = 0
  PROVE  \/ UNCHANGED products /\ ~(credit' < credit)
         \/ \E q \in Runs :
              /\ run[q].pc = "commit"
              /\ OneCommits(q) \/ CommitNewBrand(q) \/ CommitGroup(q) \/ CommitDeleteGroup(q) \/ CommitProduct(q)
         \/ outside' = outside + 1 /\ ~(credit' < credit)
<1>1. credit \in Int
  BY BaseFacts DEF Inv
<1>2. ASSUME NEW r \in Runs, Adding(r) \/ Editing(r) \/ Deleting(r)
      PROVE  UNCHANGED products /\ ~(credit' < credit)
  <2>1. Input(r)
    BY <1>2, AddingInput, EditingInput, DeletingInput DEF Inv
  <2>2. credit' \in {credit, credit + 1} /\ UNCHANGED products
    BY <2>1 DEF Input, db, history
  <2>. QED
    BY <1>1, <2>2
<1>3. ASSUME NEW r \in Runs, Handling(r)
      PROVE  \/ UNCHANGED products /\ ~(credit' < credit)
             \/ /\ run[r].pc = "commit"
                /\ OneCommits(r) \/ CommitNewBrand(r) \/ CommitGroup(r) \/ CommitDeleteGroup(r) \/ CommitProduct(r)
  <2>1. CASE ReadList(r) \/ ReadUpload(r) \/ ReadQuantity(r) \/ ReadCreate(r) \/ EditReads(r)
    <3>1. UNCHANGED <<db, credit>>
      BY <2>1 DEF ReadList, ReadUpload, ReadQuantity, ReadCreate, EditReads, ReadEdit, ReadNewBrand,
                  ReadPhoto, Reads
    <3>. QED
      BY <1>1, <3>1 DEF db
  <2>2. CASE OneCommits(r) \/ CommitNewBrand(r) \/ CommitGroup(r) \/ CommitDeleteGroup(r) \/ CommitProduct(r)
    <3>1. run[r].pc = "commit"
      BY <2>2 DEF OneCommits, CommitEdit, CommitStock, Edits, CommitPhoto, CommitPhotoDelete,
                  CommitDelete, CommitNewBrand, CommitGroup, CommitDeleteGroup, CommitProduct, CommitsOf
    <3>. QED
      BY <2>2, <3>1
  <2>3. CASE WriteRedis(r) \/ ShowCard(r)
    <3>1. UNCHANGED <<db, credit>>
      BY <2>3 DEF WriteRedis, ShowCard
    <3>. QED
      BY <1>1, <3>1 DEF db
  <2>. QED
    BY <1>3, <2>1, <2>2, <2>3 DEF Handling, EditReads, OneCommits
<1>4. CASE AdminCreate \/ AdminUpdate \/ AdminDelete
  <2>1. AdminIs
    BY <1>4, AdminCreateIs, AdminUpdateIs, AdminDeleteIs DEF Inv
  <2>. QED
    BY <1>1, <2>1 DEF AdminIs, history
<1>5. CASE Crash
  BY <1>1, <1>5 DEF Crash, db, history
<1>6. CASE UNCHANGED vars
  BY <1>1, <1>6 DEF vars, db, history
<1>. QED
  BY <1>2, <1>3, <1>4, <1>5, <1>6 DEF Next

LEMMA NewProductStep ==
  ASSUME Inv, [Next]_vars, NEW r \in Runs, run[r].h = "create", run[r].pc = "commit",
         credit' < credit, overlaps = 0
  PROVE  /\ products'[nextProduct].media = typed.media
         /\ products'[nextProduct].stock = typed.quantities
         /\ credit' + crashes >= 0
<1>1. credit \in Int /\ crashes \in Nat /\ nextProduct \in Nat \ {0} /\ products \in [1..MaxProducts -> Row]
  BY BaseFacts DEF Inv, Base, TypeOK
<1>2. CASE ~(credit' < credit)
  BY <1>2
<1>3. ASSUME NEW q \in Runs, run[q].pc = "commit",
             OneCommits(q) \/ CommitNewBrand(q) \/ CommitGroup(q) \/ CommitDeleteGroup(q) \/ CommitProduct(q)
      PROVE  /\ products'[nextProduct].media = typed.media
             /\ products'[nextProduct].stock = typed.quantities
             /\ credit' + crashes >= 0
  <2>1. q = r
    BY <1>3 DEF Inv, Alone, Busy
  <2>2. CommitProduct(r)
    BY <1>3, <2>1 DEF OneCommits, CommitEdit, CommitStock, Edits, CommitPhoto, CommitPhotoDelete,
         CommitDelete, CommitNewBrand, CommitGroup, CommitDeleteGroup, CommitsOf
  <2>3. /\ nextProduct \in 1..MaxProducts /\ credit' = credit - 1
        /\ products' = [products EXCEPT ![nextProduct] = Made(run[r].data)]
    BY <1>1, <2>2, CommitProductIs DEF Inv, Nothing
  <2>4. products'[nextProduct] = Made(run[r].data)
    BY <1>1, <2>3
  <2>5. /\ credit + crashes >= 1
        /\ run[r].data.media = typed.media /\ run[r].data.quantities = typed.quantities
    BY DEF Inv, Dialogue, Answering, Creating
  <2>. QED
    BY <1>1, <2>3, <2>4, <2>5 DEF Made
<1>. QED
  BY <1>2, <1>3, WhoActs

\* The product a dialogue creates has the photos and the quantities of that
\* dialogue, and a dialogue makes one product, but for a death of the bot between
\* the commit and state.clear (create_product_in_db), for an owner who waits.
THEOREM NewProductsComplete == Spec => NewProducts
<1>1. Inv /\ [Next]_vars =>
        [\A r \in Runs :
           run[r].h = "create" /\ run[r].pc = "commit" /\ credit' < credit /\ overlaps = 0 =>
             /\ products'[nextProduct].media = typed.media
             /\ products'[nextProduct].stock = typed.quantities
             /\ credit' + crashes >= 0]_vars
  BY NewProductStep
<1>. QED
  BY <1>1, Invariance, PTL DEF Spec, NewProducts

\* The handlers that change one product.
ProductHandlers == {"edit", "stock", "newBrand", "photo", "photoDelete", "delete"}

LEMMA HitStep ==
  ASSUME Inv, [Next]_vars, NEW r \in Runs, run[r].pc = "commit", run[r].h \in ProductHandlers,
         overlaps = 0, ~strayed, crashes = 0, outside' = outside,
         NEW p \in Live, products'[p] # products[p]
  PROVE  p = screen.product
<1>1. outside \in Nat /\ products \in [1..MaxProducts -> Row]
  BY DEF Inv, Base, TypeOK
<1>2. outside' # outside + 1
  BY <1>1
<1>3. Pointing(run[r], fsm, Others, Picked) /\ Picked = {screen.product}
  BY DEF Inv, Pointers, Picked
<1>4. p = Target(r) => p = screen.product
  BY <1>3 DEF Pointing, Target, Others, ProductHandlers
<1>5. ASSUME NEW q \in Runs, run[q].pc = "commit",
             OneCommits(q) \/ CommitNewBrand(q) \/ CommitGroup(q) \/ CommitDeleteGroup(q) \/ CommitProduct(q)
      PROVE  p = Target(r)
  <2>1. q = r
    BY <1>5 DEF Inv, Alone, Busy
  <2>2. OneCommits(r) \/ CommitNewBrand(r)
    BY <1>5, <2>1 DEF CommitGroup, CommitDeleteGroup, CommitProduct, CommitsOf, ProductHandlers
  <2>3. CASE OneCommits(r)
    <3>1. OneChange(r)
      BY <2>3, OneCommitsIs DEF Inv
    <3>2. PICK s, row : Changed(r, s, row)
      BY <3>1 DEF OneChange, Nothing, db
    <3>. QED
      BY <1>1, <3>2 DEF Changed
  <2>4. CASE CommitNewBrand(r)
    <3>1. run[r].h = "newBrand"
      BY <2>4 DEF CommitNewBrand, CommitsOf
    <3>2. products' = products \/
          \E row : products' = [products EXCEPT ![run[r].data.product] = row]
      BY <2>4, CommitNewBrandIs DEF Inv, Nothing, db
    <3>3. p # run[r].data.product => products'[p] = products[p]
      BY <1>1, <3>2 DEF Live
    <3>. QED
      BY <3>1, <3>3 DEF Target
  <2>. QED
    BY <2>2, <2>3, <2>4
<1>. QED
  BY <1>2, <1>4, <1>5, WhoActs

\* For an owner who presses the newest message's buttons and waits, what a card
\* or a confirmation changes is the product it shows (owner_show_edit_card,
\* process_stock_update, owner_delete_execute).
THEOREM EditsHitTheShown == Spec => HitsShownProduct
<1>1. Inv /\ [Next]_vars =>
        [\A r \in Runs :
           /\ run[r].pc = "commit"
           /\ run[r].h \in {"edit", "stock", "newBrand", "photo", "photoDelete", "delete"}
           /\ overlaps = 0 /\ ~strayed /\ crashes = 0 /\ outside' = outside
           => \A p \in Live : products'[p] # products[p] => p = screen.product]_vars
  BY HitStep DEF ProductHandlers
<1>. QED
  BY <1>1, Invariance, PTL DEF Spec, HitsShownProduct

=============================================================================
