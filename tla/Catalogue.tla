------------------------------ MODULE Catalogue ------------------------------
(***************************************************************************)
(* The owner's dialogues on the catalogue: categories and brands, adding a *)
(* product step by step, editing and deleting it (owner_products.py,       *)
(* catalog_delete.py, product_card.py), against the web API's admin calls. *)
(*                                                                         *)
(* All dialogues share one FSM record: a stage and one field per kind of   *)
(* answer. Most buttons work in every stage and act on the product the     *)
(* record names, not on the one whose card they belong to. Two updates of  *)
(* the owner may be handled at once, and the bot may die between a commit  *)
(* and the writes to Redis that follow it.                                 *)
(***************************************************************************)
EXTENDS Integers, Sequences, FiniteSets

CONSTANTS
  Names, Sizes, NoSize,
  Runs,          \* handler runs of the owner that may be under way
  MaxMedia,      \* photos of a product (10 in the code)
  SizeLists,     \* the lists of sizes the owner may type
  AdminSizes,    \* the sizes the web API's calls name
  InitGroups,    \* categories and brands at the start: kind -> name -> id or 0
  InitProducts,  \* products at the start, in the order of their ids
  InitFsm,       \* dialogues the owner may be in at the start
  MaxProducts, MaxIds,               \* bounds: rows that can be inserted
  MaxUpdates, MaxOutside, MaxCrashes, \* bounds: inputs, admin calls among them, deaths
  MaxOverlaps    \* bound: inputs while another one is being handled

Kinds == {"category", "brand"}
Facts == {"name", "purchase", "sale"}
Quantities == 0..1

\* No dialogue.
NoFields ==
  [stage |-> "idle", category |-> 0, brand |-> 0, facts |-> {}, media |-> 0,
   sizes |-> <<>>, quantities |-> [s \in Sizes |-> 0], idx |-> 1,
   product |-> 0, size |-> NoSize]
NoProduct ==
  [category |-> 0, brand |-> 0, media |-> 0, stock |-> [s \in Sizes |-> 0], edits |-> 0]

\* What the owner's answers leave in the FSM record.
Fields == DOMAIN NoFields

VARIABLES
  groups,    \* categories and brands by name; 0: none of that name
  nextId,    \* the id the next category or brand gets
  products,  \* products by id; NoProduct before the insert and after a deletion
  nextProduct,
  fsm,       \* stage and data of the owner's FSM record in Redis
  run,       \* the handler runs
  screen,    \* history: the newest message with buttons on a product
  typed,     \* history: media answered as saved, quantities typed, by dialogue
  credit,    \* history: product dialogues begun less products they made
  overlaps, strayed,         \* history: inputs while another was handled; an older button used
  updates, outside, crashes  \* counters of the bounds

db == <<groups, nextId, products, nextProduct>>
history == <<screen, typed, credit>>
bounds == <<overlaps, strayed, updates, outside, crashes>>
vars == <<db, fsm, run, history, bounds>>

-----------------------------------------------------------------------------
(***************************************************************************)
(* Types.                                                                  *)
(***************************************************************************)

AddStages ==
  {"category", "brand", "name", "purchase", "sale", "ask", "upload", "sizes", "quantity"}
EditStages ==
  {"editCategory", "editBrand", "editList", "view", "price", "description", "newBrand",
   "sizeList", "stock", "photo", "photoList"}
DeleteStages ==
  {"delCategory", "delBrand", "delList", "confirm",
   "delcat", "confirmCategory", "delbrand", "confirmBrand"}
Stages == {"idle", "addCategory", "addBrand"} \cup AddStages \cup EditStages \cup DeleteStages

Live == {p \in 1..MaxProducts : products[p] # NoProduct}
Ids(kind) == {groups[kind][n] : n \in Names} \ {0}

Handlers ==
  {"none", "group", "media", "quantity", "create", "list", "edit", "stock", "newBrand",
   "photo", "photoDelete", "delete", "deleteGroup"}
Cards == {"none", "edit", "warehouse"}

NoRun ==
  [pc |-> "idle", h |-> "none", kind |-> "category", name |-> CHOOSE n \in Names : TRUE,
   id |-> 0, qty |-> 0, size |-> NoSize, next |-> "idle", data |-> NoFields, todo |-> <<>>,
   card |-> "none"]

FsmRecord ==
  [stage : Stages, category : 0..MaxIds, brand : 0..MaxIds, facts : SUBSET Facts,
   media : 0..MaxMedia, sizes : Seq(Sizes), quantities : [Sizes -> Nat], idx : Nat \ {0},
   product : 0..MaxProducts, size : Sizes \cup {NoSize}]

\* A write to the record: the fields in of get the values they have in to.
Writes == [of : SUBSET Fields, to : FsmRecord]

RunRecord ==
  [pc : {"idle", "read", "commit", "redis", "card"}, h : Handlers, kind : Kinds,
   name : Names, id : Nat, qty : Quantities, size : Sizes \cup {NoSize}, next : Stages,
   data : FsmRecord, todo : Seq(Writes), card : Cards]

Row == [category : 0..MaxIds, brand : 0..MaxIds, media : Nat, stock : [Sizes -> Nat], edits : Nat]

\* A product has a category and a brand that exist, and no name has an id that
\* is still to be given out.
TypeOK ==
  /\ groups \in [Kinds -> [Names -> 0..MaxIds]]
  /\ nextId \in [Kinds -> 1..MaxIds + 1] /\ nextProduct \in 1..MaxProducts + 1
  /\ \A k \in Kinds, n \in Names : groups[k][n] < nextId[k]
  /\ products \in [1..MaxProducts -> Row]
  /\ \A p \in Live : /\ p < nextProduct
                      /\ products[p].category \in Ids("category")
                      /\ products[p].brand \in Ids("brand")
  /\ fsm \in FsmRecord
  /\ run \in [Runs -> RunRecord]
  /\ screen \in [kind : {"none", "card", "warehouse", "confirm"}, product : 0..MaxProducts]
  /\ typed \in [media : Nat, quantities : [Sizes -> Nat]] /\ credit \in Int
  /\ overlaps \in Nat /\ strayed \in BOOLEAN
  /\ updates \in Nat /\ outside \in Nat /\ crashes \in Nat

ASSUME OwnerAssumption ==
  /\ IsFiniteSet(Runs) /\ Runs # {} /\ MaxMedia \in Nat \ {0}
  /\ Names # {} /\ SizeLists \subseteq Seq(Sizes) /\ AdminSizes \subseteq Sizes
ASSUME BoundsAssumption == MaxProducts \in Nat /\ MaxIds \in Nat

\* The names known at the start have got the first ids.
InitNames(k) == {n \in Names : InitGroups[k][n] # 0}
ASSUME GroupsAssumption ==
  /\ InitGroups \in [Kinds -> [Names -> 0..MaxIds]]
  /\ \A k \in Kinds :
       /\ Cardinality(InitNames(k)) \in 0..MaxIds
       /\ \A n \in Names : InitGroups[k][n] <= Cardinality(InitNames(k))
ASSUME ProductsAssumption ==
  /\ InitProducts \in Seq(Row) /\ Len(InitProducts) <= MaxProducts
  /\ \A i \in 1..Len(InitProducts) :
       /\ InitProducts[i].media <= MaxMedia
       /\ \E n \in Names : InitProducts[i].category = InitGroups["category"][n] /\ InitGroups["category"][n] # 0
       /\ \E n \in Names : InitProducts[i].brand = InitGroups["brand"][n] /\ InitGroups["brand"][n] # 0
ASSUME DialoguesAssumption ==
  InitFsm \subseteq {f \in FsmRecord : f.product <= Len(InitProducts)}

Init ==
  /\ groups = InitGroups
  /\ nextId = [k \in Kinds |-> 1 + Cardinality(InitNames(k))]
  /\ products = [p \in 1..MaxProducts |->
                   IF p <= Len(InitProducts) THEN InitProducts[p] ELSE NoProduct]
  /\ nextProduct = Len(InitProducts) + 1
  /\ fsm \in InitFsm
  /\ run = [r \in Runs |-> NoRun]
  /\ screen = [kind |-> CASE fsm.stage = "view" -> "card" [] fsm.stage = "confirm" -> "confirm"
                          [] OTHER -> "none",
               product |-> fsm.product]
  /\ typed = [media |-> fsm.media, quantities |-> fsm.quantities]
  /\ credit = IF fsm.stage \in AddStages THEN 1 ELSE 0
  /\ overlaps = 0 /\ strayed = FALSE /\ updates = 0 /\ outside = 0 /\ crashes = 0

-----------------------------------------------------------------------------
(***************************************************************************)
(* Handler runs.                                                           *)
(***************************************************************************)

Set(fields, values) == [of |-> fields, to |-> values]
Field(f, value) == Set({f}, [NoFields EXCEPT ![f] = value])
Stage(s) == Field("stage", s)
\* state.clear(): set_state(None), then set_data({}); and then another set_state.
NoData == Set(Fields \ {"stage"}, NoFields)
Clear == <<Stage("idle"), NoData>>
Restart(s) == <<Stage("idle"), NoData, Stage(s)>>

\* The record after a write.
Written(w) == [f \in Fields |-> IF f \in w.of THEN w.to[f] ELSE fsm[f]]

\* What a handler has left to do: writes to Redis, the rest of create, a card.
Goes(L) ==
  IF L.todo # <<>> THEN [L EXCEPT !.pc = "redis"]
  ELSE IF L.h = "create" THEN [NoRun EXCEPT !.pc = "read", !.h = "create"]
  ELSE IF L.card # "none" THEN [L EXCEPT !.pc = "card"]
  ELSE NoRun
Finish(writes) == Goes([NoRun EXCEPT !.todo = writes])
Show(writes, card, p) == Goes([NoRun EXCEPT !.todo = writes, !.card = card, !.id = p])

Become(r, L) == run' = [run EXCEPT ![r] = L]

\* An update of the owner arrives and a handler starts. Photos sent do not count
\* against the bound on inputs; after the last overlap there are no inputs.
Arrive(r, L, counts) ==
  /\ run[r].pc = "idle" /\ updates + counts <= MaxUpdates /\ overlaps < MaxOverlaps
  /\ updates' = updates + counts
  /\ overlaps' = IF \E q \in Runs : run[q].pc # "idle" THEN overlaps + 1 ELSE overlaps
  /\ Become(r, L)
  /\ UNCHANGED <<db, fsm, outside, crashes>>

Begin(r, L) == Arrive(r, L, 1)

Calm == UNCHANGED <<history, strayed>>
Write(r, writes) == Begin(r, Finish(writes)) /\ Calm
At(stage) == fsm.stage = stage
Ask(r, stage, L) == At(stage) /\ Begin(r, [L EXCEPT !.pc = "read"]) /\ Calm

\* A button of a message about a product strays if a newer message is another's.
Stray(kinds) == strayed' = (strayed \/ screen.kind \notin kinds)
Button(r, kinds, writes) ==
  Begin(r, Finish(writes)) /\ Stray(kinds) /\ UNCHANGED history

-----------------------------------------------------------------------------
(***************************************************************************)
(* Categories, brands and new products.                                    *)
(***************************************************************************)

StartCategory(r) ==
  Write(r, IF At("addBrand") THEN Restart("addCategory") ELSE <<Stage("addCategory")>>)
StartBrand(r) ==
  Write(r, IF At("addCategory") THEN Restart("addBrand") ELSE <<Stage("addBrand")>>)

\* get_or_create: the SELECT. The INSERT is in CommitGroup.
TypeGroup(r, kind, stage) ==
  \E n \in Names :
    /\ At(stage)
    /\ Begin(r, [NoRun EXCEPT !.pc = "commit", !.h = "group", !.kind = kind, !.name = n,
                           !.id = groups[kind][n]])
    /\ Calm
TypeCategory(r) == TypeGroup(r, "category", "addCategory")
TypeBrand(r) == TypeGroup(r, "brand", "addBrand")

StartProduct(r) ==
  /\ ~At("addCategory") /\ ~At("addBrand")
  /\ Ids("category") # {}
  /\ Begin(r, Finish(Restart("category")))
  /\ credit' = credit + 1
  /\ UNCHANGED <<screen, typed, strayed>>

ChooseCategory(r) ==
  \E c \in 1..nextId["category"] - 1 :
    /\ At("category")
    /\ Write(r, IF Ids("brand") = {} THEN <<Field("category", c), Stage("idle"), NoData>>
                ELSE <<Field("category", c), Stage("brand")>>)

ChooseBrand(r) ==
  \E b \in 1..nextId["brand"] - 1 : At("brand") /\ Write(r, <<Field("brand", b), Stage("name")>>)

\* The name and the two prices; update_data adds a field to what is there.
EnterFact(r, fact, next) ==
  At(fact) /\ Write(r, <<Field("facts", fsm.facts \cup {fact}), Stage(next)>>)
EnterName(r) == EnterFact(r, "name", "purchase")
EnterPurchase(r) == EnterFact(r, "purchase", "sale")
EnterSale(r) == EnterFact(r, "sale", "ask")

NewMedia(r, stage) ==
  /\ At("ask")
  /\ Begin(r, Finish(<<Field("media", 0), Stage(stage)>>))
  /\ typed' = [typed EXCEPT !.media = 0]
  /\ UNCHANGED <<screen, credit, strayed>>
PhotosYes(r) == NewMedia(r, "upload")
PhotosSkip(r) == NewMedia(r, "sizes")
Upload(r) ==
  At("upload") /\ Arrive(r, [NoRun EXCEPT !.pc = "read", !.h = "media"], 0) /\ Calm
PhotosDone(r) == At("upload") /\ Arrive(r, Finish(<<Stage("sizes")>>), 0) /\ Calm

\* The list may name a size twice.
EnterSizes(r) ==
  \E l \in SizeLists :
    /\ At("sizes")
    /\ Begin(r, Finish(<<Set({"sizes", "quantities", "idx"}, [NoFields EXCEPT !.sizes = l]),
                         Stage("quantity")>>))
    /\ typed' = [typed EXCEPT !.quantities = NoFields.quantities]
    /\ UNCHANGED <<screen, credit, strayed>>

EnterQuantity(r) ==
  \E q \in Quantities : Ask(r, "quantity", [NoRun EXCEPT !.h = "quantity", !.qty = q])

\* "Back" and "Cancel", as a text or as a button, in every stage.
Cancel(r) == Write(r, Clear)

-----------------------------------------------------------------------------
(***************************************************************************)
(* Editing.                                                                *)
(***************************************************************************)

StartEdit(r) == Ids("category") # {} /\ Write(r, Restart("editCategory"))
EditCategory(r) ==
  \E c \in 1..nextId["category"] - 1 :
    At("editCategory") /\ Write(r, <<Field("category", c), Stage("editBrand")>>)
ListProducts(r, stage, next) ==
  \E b \in 1..nextId["brand"] - 1 :
    Ask(r, stage, [NoRun EXCEPT !.h = "list", !.id = b, !.next = next])
EditBrand(r) == ListProducts(r, "editBrand", "editList")

\* Mutant: the product of a card that was opened before stays in the record.
OpenCard_KeepsProduct(r) ==
  \E p \in 1..nextProduct - 1 :
    Begin(r, Show(IF fsm.product = 0 THEN <<Field("product", p)>> ELSE <<>>, "edit", p)) /\ Calm

\* The card of a product, from any list on the screen; the FSM record names the
\* product before the handler looks whether it exists.
OpenCard(r) ==
  \E p \in 1..nextProduct - 1 : Begin(r, Show(<<Field("product", p)>>, "edit", p)) /\ Calm

OpenWarehouseCard(r) ==
  \E p \in 1..nextProduct - 1 : Begin(r, Show(<<Field("product", p)>>, "warehouse", p)) /\ Calm

\* "Back" to the card of the product the FSM record names, and its refresh.
BackToCard(r) == Begin(r, Show(<<>>, "edit", 0)) /\ Calm
RefreshCard(r) == Begin(r, Show(<<>>, "warehouse", 0)) /\ Calm

\* The buttons of a card set the stage; they do not say which product they mean.
AnyCard == {"card", "warehouse"}
PressPrice(r) == Button(r, AnyCard, <<Stage("price")>>)
PressDescription(r) == Button(r, AnyCard, <<Stage("description")>>)
PressNewBrand(r) == Button(r, {"warehouse"}, <<Stage("newBrand")>>)
PressPhoto(r) == Button(r, {"card"}, <<Stage("photo")>>)
PressSize(r) == \E s \in Sizes : Button(r, AnyCard, <<Field("size", s), Stage("stock")>>)
PressNewSize(r) == Button(r, AnyCard, <<Field("size", NoSize), Stage("stock")>>)

\* The lists of sizes and of photos are those of the product in the FSM record.
List(r, stage) ==
  /\ fsm.product \in Live
  /\ Begin(r, Finish(<<Stage(stage)>>))
  /\ Stray({"card"})
  /\ screen' = [kind |-> "card", product |-> fsm.product]
  /\ UNCHANGED <<typed, credit>>
PressStock(r) == List(r, "sizeList")
PressPhotoList(r) ==
  fsm.product \in Live /\ products[fsm.product].media > 0 /\ List(r, "photoList")

\* The button that deletes a photo names the photo, hence its product.
PressPhotoDelete(r) ==
  \E p \in Live :
    /\ products[p].media > 0
    /\ Begin(r, [NoRun EXCEPT !.pc = "commit", !.h = "photoDelete", !.id = p])
    /\ strayed' = (strayed \/ screen # [kind |-> "card", product |-> p])
    /\ UNCHANGED history

TypePrice(r) == Ask(r, "price", [NoRun EXCEPT !.h = "edit"])
TypeDescription(r) == Ask(r, "description", [NoRun EXCEPT !.h = "edit"])
SendPhoto(r) == Ask(r, "photo", [NoRun EXCEPT !.h = "photo"])
TypeNewBrand(r) ==
  \E n \in Names : Ask(r, "newBrand", [NoRun EXCEPT !.h = "newBrand", !.name = n])
TypeStock(r) ==
  \E s \in Sizes, q \in Quantities :
    Ask(r, "stock", [NoRun EXCEPT !.h = "stock", !.size = s, !.qty = q])

-----------------------------------------------------------------------------
(***************************************************************************)
(* Deleting.                                                               *)
(***************************************************************************)

StartDelete(r) == Ids("category") # {} /\ Write(r, Restart("delCategory"))
DeleteChooseCategory(r) ==
  \E c \in 1..nextId["category"] - 1 :
    /\ At("delCategory")
    /\ Write(r, IF Ids("brand") = {} THEN <<Field("category", c)>>
                ELSE <<Field("category", c), Stage("delBrand")>>)
DeleteChooseBrand(r) == ListProducts(r, "delBrand", "delList")

\* The question "delete this product?", if the product exists.
DeleteChoose(r) ==
  \E p \in 1..nextProduct - 1 :
    /\ At("delList")
    /\ Begin(r, Finish(IF p \in Live THEN <<Field("product", p), Stage("confirm")>>
                       ELSE <<Field("product", p)>>))
    /\ screen' = IF p \in Live THEN [kind |-> "confirm", product |-> p] ELSE screen
    /\ UNCHANGED <<typed, credit, strayed>>

Confirm(r) ==
  /\ At("confirm")
  /\ Begin(r, [NoRun EXCEPT !.pc = "read", !.h = "delete"])
  /\ Stray({"confirm"}) /\ UNCHANGED history

StartDeleteGroup(r, kind, stage) == Ids(kind) # {} /\ Write(r, Restart(stage))
StartDeleteCategory(r) == StartDeleteGroup(r, "category", "delcat")
StartDeleteBrand(r) == StartDeleteGroup(r, "brand", "delbrand")
ChooseDeleteCategory(r) ==
  \E c \in 1..nextId["category"] - 1 :
    At("delcat") /\ Write(r, <<Field("category", c), Stage("confirmCategory")>>)
ChooseDeleteBrand(r) ==
  \E b \in 1..nextId["brand"] - 1 :
    At("delbrand") /\ Write(r, <<Field("brand", b), Stage("confirmBrand")>>)
ConfirmCategory(r) == Ask(r, "confirmCategory", [NoRun EXCEPT !.h = "deleteGroup"])
ConfirmBrand(r) ==
  Ask(r, "confirmBrand", [NoRun EXCEPT !.h = "deleteGroup", !.kind = "brand"])

-----------------------------------------------------------------------------
(***************************************************************************)
(* What the handlers read after their filter.                              *)
(***************************************************************************)

Reads(r, h) ==
  /\ run[r].pc = "read" /\ run[r].h = h
  /\ UNCHANGED <<db, fsm, screen, credit, bounds>>
Commits(L) == [L EXCEPT !.pc = "commit", !.data = fsm]

ReadList(r) ==
  /\ Reads(r, "list") /\ UNCHANGED typed
  /\ LET found == \E p \in Live : /\ products[p].category = fsm.category
                                  /\ products[p].brand = run[r].id
     IN Become(r, Finish(IF found THEN <<Stage(run[r].next)>> ELSE <<>>))

Saved(n) == Goes([NoRun EXCEPT !.h = "media", !.todo = <<Field("media", n)>>])

\* The list of media is read, appended to and written back as a whole.
ReadUpload(r) ==
  /\ Reads(r, "media") /\ UNCHANGED typed
  /\ Become(r, IF fsm.media >= MaxMedia THEN NoRun ELSE Saved(fsm.media + 1))

\* Mutant: the product is created before the last quantity is written.
ReadQuantity_TooSoon(r) ==
  /\ Reads(r, "quantity")
  /\ IF fsm.idx > Len(fsm.sizes)
     THEN Become(r, NoRun) /\ UNCHANGED typed
     ELSE LET s == fsm.sizes[fsm.idx]
              new == [NoFields EXCEPT !.quantities = [fsm.quantities EXCEPT ![s] = run[r].qty],
                                      !.idx = fsm.idx + 1]
          IN /\ typed' = [typed EXCEPT !.quantities[s] = run[r].qty]
             /\ Become(r, IF fsm.idx < Len(fsm.sizes)
                          THEN Finish(<<Set({"quantities", "idx"}, new)>>)
                          ELSE Goes([NoRun EXCEPT !.h = "create"]))

\* The quantity of the current size; after the last one the product is created
\* with the data as they are then.
ReadQuantity(r) ==
  /\ Reads(r, "quantity")
  /\ IF fsm.idx > Len(fsm.sizes)
     THEN Become(r, NoRun) /\ UNCHANGED typed
     ELSE LET s == fsm.sizes[fsm.idx]
              new == [NoFields EXCEPT !.quantities = [fsm.quantities EXCEPT ![s] = run[r].qty],
                                      !.idx = fsm.idx + 1]
          IN /\ typed' = [typed EXCEPT !.quantities[s] = run[r].qty]
             /\ Become(r, IF fsm.idx < Len(fsm.sizes)
                          THEN Finish(<<Set({"quantities", "idx"}, new)>>)
                          ELSE Goes([NoRun EXCEPT !.h = "create", !.todo = <<Set({"quantities"}, new)>>]))

\* create_product_in_db: the data once more, the category and the brand.
ReadCreate(r) ==
  /\ Reads(r, "create") /\ UNCHANGED typed
  /\ Become(r, IF 0 \in {fsm.category, fsm.brand} THEN NoRun
               ELSE IF fsm.category \notin Ids("category") \/ fsm.brand \notin Ids("brand")
                 THEN Finish(Clear)
               ELSE IF Facts \subseteq fsm.facts THEN Commits(run[r])
               ELSE NoRun)

\* The product that an edit or a deletion is about.
ReadEdit(r) ==
  \E h \in {"edit", "stock", "delete", "deleteGroup"} :
    Reads(r, h) /\ UNCHANGED typed /\ Become(r, Commits(run[r]))

ReadNewBrand(r) ==
  /\ Reads(r, "newBrand") /\ UNCHANGED typed
  /\ Become(r, IF fsm.product \in Live
                  THEN [Commits(run[r]) EXCEPT !.id = groups["brand"][run[r].name]]
                  ELSE NoRun)

\* Mutant: the limit of photos is off by one.
ReadPhoto_OffByOne(r) ==
  /\ Reads(r, "photo") /\ UNCHANGED typed
  /\ LET p == fsm.product
     IN Become(r, IF p \in Live /\ products[p].media <= MaxMedia THEN Commits(run[r]) ELSE NoRun)

\* add_photo: the count. Above the limit it raises.
ReadPhoto(r) ==
  /\ Reads(r, "photo") /\ UNCHANGED typed
  /\ LET p == fsm.product
     IN Become(r, IF p \in Live /\ products[p].media < MaxMedia THEN Commits(run[r]) ELSE NoRun)

-----------------------------------------------------------------------------
(***************************************************************************)
(* What they commit.                                                       *)
(***************************************************************************)

CommitsOf(r, h) ==
  /\ run[r].pc = "commit" /\ run[r].h = h
  /\ UNCHANGED <<fsm, screen, typed, bounds>>
OnlyProduct(p, row) ==
  products' = [products EXCEPT ![p] = row] /\ UNCHANGED <<groups, nextId, nextProduct, credit>>
Nothing == UNCHANGED <<db, credit>>

\* get_or_create: what the SELECT found, or a new row. The unique constraint
\* refuses a name that was inserted meanwhile.
Insertable(kind, n, found) == found = 0 => groups[kind][n] = 0 /\ nextId[kind] <= MaxIds
Id(kind, found) == IF found # 0 THEN found ELSE nextId[kind]
Insert(kind, n, found) ==
  IF found # 0 THEN UNCHANGED <<groups, nextId>>
  ELSE /\ groups' = [groups EXCEPT ![kind][n] = nextId[kind]]
       /\ nextId' = [nextId EXCEPT ![kind] = @ + 1]

CommitGroup(r) ==
  LET L == run[r]
  IN /\ CommitsOf(r, "group")
     /\ IF Insertable(L.kind, L.name, L.id)
        THEN /\ Insert(L.kind, L.name, L.id) /\ UNCHANGED <<products, nextProduct, credit>>
             /\ Become(r, Finish(Clear))
        ELSE Nothing /\ Become(r, NoRun)

\* The unique constraint on (product, size) refuses a size listed twice, unless
\* its quantity is 0.
Storable(d) ==
  \A i, j \in 1..Len(d.sizes) :
    d.sizes[i] = d.sizes[j] /\ d.quantities[d.sizes[i]] > 0 => i = j

\* The product, its photos and its stock in one transaction; the foreign keys
\* refuse a category or a brand that was deleted meanwhile.
CommitProduct(r) ==
  LET d == run[r].data
  IN /\ CommitsOf(r, "create")
     /\ IF Storable(d) /\ d.category \in Ids("category") /\ d.brand \in Ids("brand")
        THEN /\ nextProduct <= MaxProducts
             /\ products' = [products EXCEPT ![nextProduct] =
                               [category |-> d.category, brand |-> d.brand, media |-> d.media,
                                stock |-> d.quantities, edits |-> 0]]
             /\ nextProduct' = nextProduct + 1 /\ credit' = credit - 1
             /\ UNCHANGED <<groups, nextId>>
             /\ Become(r, Finish(Clear))
        ELSE Nothing /\ Become(r, NoRun)

\* A product that is gone is not updated; the answer and the card are the same.
Edits(r, h, row) ==
  /\ CommitsOf(r, h)
  /\ LET p == run[r].data.product IN IF p \in Live THEN OnlyProduct(p, row) ELSE Nothing
  /\ Become(r, Show(<<>>, "edit", 0))

Edited(r) == products[run[r].data.product]
CommitEdit(r) == Edits(r, "edit", [Edited(r) EXCEPT !.edits = @ + 1])
CommitStock(r) ==
  LET s == IF run[r].data.size # NoSize THEN run[r].data.size ELSE run[r].size
  IN Edits(r, "stock", [Edited(r) EXCEPT !.stock[s] = run[r].qty])

CommitNewBrand(r) ==
  LET L == run[r]
      p == L.data.product
      new == Id("brand", L.id)
  IN /\ CommitsOf(r, "newBrand")
     /\ IF /\ p \in Live /\ Insertable("brand", L.name, L.id)
           /\ L.id # 0 => L.id \in Ids("brand")
        THEN /\ Insert("brand", L.name, L.id)
             /\ products' = [products EXCEPT ![p].brand = new]
             /\ UNCHANGED <<nextProduct, credit>>
             /\ Become(r, Show(<<Stage("idle")>>, "warehouse", 0))
        ELSE Nothing /\ Become(r, NoRun)

CommitPhoto(r) ==
  LET p == run[r].data.product
  IN /\ CommitsOf(r, "photo")
     /\ IF p \in Live
        THEN OnlyProduct(p, [Edited(r) EXCEPT !.media = @ + 1]) /\ Become(r, Show(<<>>, "edit", 0))
        ELSE Nothing /\ Become(r, NoRun)

CommitPhotoDelete(r) ==
  LET p == run[r].id
  IN /\ CommitsOf(r, "photoDelete")
     /\ IF p \in Live /\ products[p].media > 0
        THEN /\ OnlyProduct(p, [products[p] EXCEPT !.media = @ - 1])
             /\ Become(r, Show(<<>>, "edit", 0))
        ELSE Nothing /\ Become(r, NoRun)

CommitDelete(r) ==
  LET p == run[r].data.product
  IN /\ CommitsOf(r, "delete")
     /\ IF p \in Live THEN OnlyProduct(p, NoProduct) ELSE Nothing
     /\ Become(r, Finish(Clear))

Without(kind, id) ==
  groups' = [groups EXCEPT ![kind] = [n \in Names |-> IF @[n] = id THEN 0 ELSE @[n]]]

\* Mutant: the products of a deleted category stay.
CommitDeleteGroup_KeepsProducts(r) ==
  LET kind == run[r].kind
  IN /\ CommitsOf(r, "deleteGroup")
     /\ Without(kind, run[r].data[kind])
     /\ UNCHANGED <<nextId, products, nextProduct, credit>>
     /\ Become(r, Finish(Clear))

\* A category or a brand goes with all its products (ORM and foreign keys).
CommitDeleteGroup(r) ==
  LET kind == run[r].kind
      id == run[r].data[kind]
  IN /\ CommitsOf(r, "deleteGroup")
     /\ Without(kind, id)
     /\ products' = [p \in 1..MaxProducts |->
                       IF products[p][kind] = id THEN NoProduct ELSE products[p]]
     /\ UNCHANGED <<nextId, nextProduct, credit>>
     /\ Become(r, Finish(Clear))

-----------------------------------------------------------------------------
(***************************************************************************)
(* What they write to Redis and show.                                      *)
(***************************************************************************)

WriteRedis(r) ==
  /\ run[r].pc = "redis"
  /\ fsm' = Written(Head(run[r].todo))
  /\ Become(r, Goes([run[r] EXCEPT !.todo = Tail(@)]))
  /\ typed' = IF run[r].h = "media" THEN [typed EXCEPT !.media = @ + 1] ELSE typed
  /\ UNCHANGED <<db, screen, credit, bounds>>

\* The card of the product the button named, or else the FSM record names. The
\* editor's card sets the stage, the warehouse's does not.
ShowCard(r) ==
  LET p == IF run[r].id # 0 THEN run[r].id ELSE fsm.product
  IN /\ run[r].pc = "card"
     /\ IF p \notin Live THEN UNCHANGED <<fsm, screen>>
        ELSE IF run[r].card = "edit"
        THEN /\ fsm' = Written(Stage("view"))
             /\ screen' = [kind |-> "card", product |-> p]
        ELSE /\ UNCHANGED fsm
             /\ screen' = [kind |-> "warehouse", product |-> p]
     /\ Become(r, NoRun)
     /\ UNCHANGED <<db, typed, credit, bounds>>

-----------------------------------------------------------------------------
(***************************************************************************)
(* The web API's admin calls, each one transaction, and the bot's death.   *)
(***************************************************************************)

\* Not between a handler's writes to Redis, which have nothing to do with the rows.
Admin ==
  /\ \A r \in Runs : run[r].pc # "redis"
  /\ outside < MaxOutside /\ updates < MaxUpdates /\ overlaps < MaxOverlaps
  /\ outside' = outside + 1 /\ updates' = updates + 1
  /\ UNCHANGED <<fsm, run, history, overlaps, strayed, crashes>>

\* With a size in stock and a photo, or without both.
AdminCreate ==
  /\ Admin /\ nextProduct <= MaxProducts
  /\ \E c, b \in Names, s \in AdminSizes \cup {NoSize} :
       LET found == [k \in Kinds |-> groups[k][IF k = "category" THEN c ELSE b]]
       IN /\ \A k \in Kinds : found[k] = 0 => nextId[k] <= MaxIds
          /\ groups' = [groups EXCEPT !["category"][c] = Id("category", found["category"]),
                                      !["brand"][b] = Id("brand", found["brand"])]
          /\ nextId' = [k \in Kinds |-> IF found[k] = 0 THEN nextId[k] + 1 ELSE nextId[k]]
          /\ products' = [products EXCEPT ![nextProduct] =
                            [category |-> Id("category", found["category"]),
                             brand |-> Id("brand", found["brand"]),
                             media |-> IF s = NoSize THEN 0 ELSE 1,
                             stock |-> [i \in Sizes |-> IF i = s THEN 1 ELSE 0], edits |-> 0]]
  /\ nextProduct' = nextProduct + 1

\* A new category or brand, and the quantity of a size.
AdminUpdate ==
  /\ Admin /\ UNCHANGED nextProduct
  /\ \E p \in Live, kind \in Kinds, n \in Names, s \in AdminSizes :
       LET found == groups[kind][n]
       IN /\ Insertable(kind, n, found) /\ Insert(kind, n, found)
          /\ products' = [products EXCEPT ![p][kind] = Id(kind, found),
                                          ![p].stock[s] = 1, ![p].edits = @ + 1]

AdminDelete ==
  /\ Admin
  /\ \E p \in Live : products' = [products EXCEPT ![p] = NoProduct]
  /\ UNCHANGED <<groups, nextId, nextProduct>>

Crash ==
  /\ crashes < MaxCrashes /\ crashes' = crashes + 1 /\ overlaps < MaxOverlaps
  /\ \E r \in Runs : run[r].pc # "idle"
  /\ run' = [r \in Runs |-> NoRun]
  /\ UNCHANGED <<db, fsm, history, overlaps, strayed, updates, outside>>

Adding(r) ==
  \/ StartCategory(r) \/ StartBrand(r) \/ TypeCategory(r) \/ TypeBrand(r)
  \/ StartProduct(r) \/ ChooseCategory(r) \/ ChooseBrand(r)
  \/ EnterName(r) \/ EnterPurchase(r) \/ EnterSale(r)
  \/ PhotosYes(r) \/ PhotosSkip(r) \/ Upload(r) \/ PhotosDone(r)
  \/ EnterSizes(r) \/ EnterQuantity(r) \/ Cancel(r)

Editing(r) ==
  \/ StartEdit(r) \/ EditCategory(r) \/ EditBrand(r) \/ OpenCard(r) \/ OpenWarehouseCard(r)
  \/ BackToCard(r) \/ RefreshCard(r) \/ PressPrice(r) \/ PressDescription(r)
  \/ PressNewBrand(r) \/ PressPhoto(r) \/ PressSize(r) \/ PressNewSize(r)
  \/ PressStock(r) \/ PressPhotoList(r) \/ PressPhotoDelete(r)
  \/ TypePrice(r) \/ TypeDescription(r) \/ SendPhoto(r) \/ TypeNewBrand(r) \/ TypeStock(r)

Deleting(r) ==
  \/ StartDelete(r) \/ DeleteChooseCategory(r) \/ DeleteChooseBrand(r) \/ DeleteChoose(r)
  \/ Confirm(r) \/ StartDeleteCategory(r) \/ StartDeleteBrand(r)
  \/ ChooseDeleteCategory(r) \/ ChooseDeleteBrand(r) \/ ConfirmCategory(r) \/ ConfirmBrand(r)

Handling(r) ==
  \/ ReadList(r) \/ ReadUpload(r) \/ ReadQuantity(r) \/ ReadCreate(r) \/ ReadEdit(r)
  \/ ReadNewBrand(r) \/ ReadPhoto(r) \/ CommitGroup(r) \/ CommitProduct(r) \/ CommitEdit(r)
  \/ CommitStock(r) \/ CommitNewBrand(r) \/ CommitPhoto(r) \/ CommitPhotoDelete(r)
  \/ CommitDelete(r) \/ CommitDeleteGroup(r) \/ WriteRedis(r) \/ ShowCard(r)

Next ==
  \/ \E r \in Runs : Adding(r) \/ Editing(r) \/ Deleting(r) \/ Handling(r)
  \/ AdminCreate \/ AdminUpdate \/ AdminDelete \/ Crash

Spec == Init /\ [][Next]_vars

(***************************************************************************)
(* Properties.                                                             *)
(***************************************************************************)

\* A product that the dialogue creates has every photo whose upload was answered
\* and every quantity that was typed, and no dialogue creates more than one
\* product, but for one more per death of the bot between the commit and
\* state.clear (owner_upload_photo ... create_product_in_db): for an owner who
\* waits for each answer, however dialogues are left half-way.
NewProducts ==
  [][\A r \in Runs :
       run[r].h = "create" /\ run[r].pc = "commit" /\ credit' < credit /\ overlaps = 0 =>
         /\ products'[nextProduct].media = typed.media
         /\ products'[nextProduct].stock = typed.quantities
         /\ credit' + crashes >= 0]_vars

\* An owner who uses the newest message only, and waits for each answer, edits
\* and deletes no other product than the one that message is about, although no
\* button of a card or of a confirmation carries its product's id
\* (owner_show_edit_card, process_stock_update, owner_delete_execute).
HitsShownProduct ==
  [][\A r \in Runs :
       /\ run[r].pc = "commit"
       /\ run[r].h \in {"edit", "stock", "newBrand", "photo", "photoDelete", "delete"}
       /\ overlaps = 0 /\ ~strayed /\ crashes = 0 /\ outside' = outside
       => \A p \in Live : products'[p] # products[p] => p = screen.product]_vars

\* The limit of photos holds for an owner who waits for each answer; each further
\* upload under way at once can pass the count and exceed it by one (add_photo).
PhotoLimit ==
  \A p \in Live :
    /\ overlaps = 0 => products[p].media <= MaxMedia
    /\ products[p].media < MaxMedia + Cardinality(Runs)

=============================================================================
