------------------------------- MODULE Shelves -------------------------------
(***************************************************************************)
(* Browsing: the shop's categories, brands and products (client.py), the   *)
(* warehouse's (warehouse/product_card.py) and its purchases by period     *)
(* (warehouse/procurement.py), for an owner who has a message of each open *)
(* and presses its buttons. A handler is a plan of stages, one per         *)
(* statement, call or update of the FSM data, and two may run at once. The *)
(* buttons of the shop carry all they need; the purchases' period,         *)
(* category and brand are in the one FSM record of the chat.               *)
(***************************************************************************)
EXTENDS Pages, FiniteSets, SequencesExt

CONSTANTS
  Visitors,                 \* handler runs that may be under way
  Cats,                     \* categories
  Products, Goods,          \* of each product: category, brand, title, day and pieces bought
  Size,                     \* rows of a page
  Openings,                 \* screens ("closed": bound, that place is not visited), FSM data
  MaxVisits,                \* bound
  Together,                 \* bound: only the first visits may overlap others
  Doomed                    \* bound: the products that may be deleted

VARIABLES
  alive,                    \* the products that have a row
  fsm,                      \* the owner's FSM data
  screen,                   \* what the message of each place shows
  visit, visits,
  strayed                   \* history: a card of the shop has set product_id

shelves == <<alive, fsm, screen, visit, visits, strayed>>

Places == {"shop", "store"}
Days == {Goods[p].day : p \in Products}
Listings == {"categories", "brands", "products", "shelf", "cats", "pbrands", "page"}

\* Ids are above zero; a purchase has a day and pieces; a page has room.
ASSUME GoodsAssumption ==
  /\ Size \in Nat \ {0}
  /\ IsFiniteSet(Cats) /\ Cats \subseteq Nat \ {0}
  /\ IsFiniteSet(Products) /\ Products \subseteq Nat \ {0}
  /\ \A p \in Products :
       Goods[p] \in [cat : Cats, brand : Nat \ {0}, title : Nat, day : Nat \ {0}, qty : Nat \ {0}]

\* 0 stands for None; cat, brand and page are those of the purchases.
NoFsm == [day |-> 0, cat |-> 0, brand |-> 0, page |-> 1, shelf |-> <<0, 0>>, product |-> 0,
          back |-> "brand", qty |-> 0]

\* A button: what it asks for; promise: the number of products its text gives.
Button == [kind |-> "dash", cat |-> 0, brand |-> 0, page |-> 1, item |-> 0, qty |-> 0, promise |-> 0]

\* calm: neither a commit nor another handler came between its readings; fresh:
\* nor since; sure: and its button's screen was fresh when the handler began.
\* For the properties: the button it answers and the screen that had it.
Blank == [kind |-> "dash", day |-> 0, cat |-> 0, brand |-> 0, page |-> 1, total |-> 0,
          rows |-> <<>>, counts |-> <<>>, qty |-> 0, fresh |-> TRUE, calm |-> TRUE,
          sure |-> FALSE, by |-> Button, before |-> <<>>]

NoVisit == [at |-> "idle", place |-> "shop", want |-> Button, asked |-> Blank, fresh |-> FALSE,
            calm |-> TRUE, step |-> 1, scope |-> NoFsm, page |-> 1, total |-> 0, rows |-> <<>>,
            counts |-> <<>>, mem |-> NoFsm]

Fsms ==
  {f \in [day : Days \cup {0}, cat : Cats \cup {0}, brand : Nat, page : Nat \ {0}, shelf : Nat \X Nat,
          product : Products \cup {0}, back : {"brand", "proc"}, qty : Nat] :
     f.back = "proc" <=> f.qty > 0}

Buttons ==
  [kind : Listings \cup {"category", "product", "sorts", "sort", "unsort", "days", "pick", "cat",
                         "pbrand", "return", "card", "refresh", "dash"},
   cat : Nat, brand : Nat, page : Nat \ {0}, item : Nat, qty : Nat, promise : Nat]

RowsOf(kind) ==
  CASE kind \in {"categories", "cats"} -> Cats
    [] kind \in {"brands", "pbrands"} -> Nat \ {0}
    [] kind \in {"products", "shelf", "page", "product", "card"} -> Products
    [] OTHER -> {}

\* A row is shown once; a page that has been clamped exists.
Screens ==
  {s \in [kind : Listings \cup {"product", "card", "sorts", "days", "dash", "empty", "closed"},
          day : Nat, cat : Nat, brand : Nat, page : Nat \ {0}, total : Nat, rows : Seq(Nat),
          counts : Seq(Nat), qty : Nat, fresh : BOOLEAN, calm : BOOLEAN, sure : BOOLEAN,
          by : Buttons, before : Seq(Nat)] :
     /\ ToSet(s.rows) \subseteq RowsOf(s.kind) /\ IsInjective(s.rows)
     /\ s.kind \in Listings => Len(s.counts) = Len(s.rows)
     /\ s.kind \in {"categories", "page"} => s.page \in 1..TotalPages(s.total, Size)}

\* A screen to begin with has been shown before.
ASSUME OpeningsAssumption ==
  \A o \in Openings :
    /\ o.fsm \in Fsms /\ o.screen \in [Places -> Screens]
    /\ \A pl \in Places : ~o.screen[pl].sure

\* The screen a button leads to.
View(kind) ==
  CASE kind \in {"pick", "cats"} -> "cats"
    [] kind \in {"cat", "pbrands"} -> "pbrands"
    [] kind \in {"pbrand", "page", "return"} -> "page"
    [] kind \in {"shelf", "sort", "unsort"} -> "shelf"
    [] kind \in {"category", "brands"} -> "brands"
    [] kind \in {"card", "refresh"} -> "card"
    [] OTHER -> kind

\* What its handler does. "set": update_data with the fields of that name.
Plan(place, kind) ==
  CASE kind = "category" /\ place = "shop" -> <<"ask", "count", "list", "show">>
    [] kind \in {"categories", "brands"} \/ (kind = "category" /\ place # "shop") ->
         <<"count", "list", "show">>
    [] kind = "products" -> <<"list", "count", "show">>
    [] kind = "product" -> <<"find", "set_product", "show">>
    [] kind = "shelf" -> <<"set_shelf", "list", "show">>
    [] kind = "sort" -> <<"shelf", "set_sort", "list", "show">>
    [] kind = "unsort" -> <<"shelf", "list", "show">>
    [] kind = "pick" -> <<"set_pick", "scope", "list", "set_cats", "show">>
    [] kind = "cats" -> <<"scope", "list", "set_cats", "show">>
    [] kind = "cat" -> <<"set_cat", "scope", "list", "set_pbrands", "show">>
    [] kind = "pbrands" -> <<"scope", "list", "set_pbrands", "show">>
    [] kind = "pbrand" -> <<"set_pbrand", "scope", "count", "list", "set_page", "show">>
    [] kind \in {"page", "return"} -> <<"scope", "count", "list", "set_page", "show">>
    [] kind = "card" -> <<"set_product", "set_back", "find", "show">>
    [] kind = "refresh" -> <<"find", "show">>
    [] OTHER -> <<"show">>

Stage(v) == Plan(v.place, v.want.kind)[v.step]

-----------------------------------------------------------------------------
(***************************************************************************)
(* The queries of a screen about a day, a category and a brand.            *)
(***************************************************************************)

InShop(cat, brand) ==
  {p \in alive : Goods[p].cat = cat /\ (brand = 0 \/ Goods[p].brand = brand)}

\* Mutant: the filter by category is dropped once a brand is chosen.
Bought_ByBrand(day, cat, brand) ==
  {p \in alive : /\ Goods[p].day = day
                 /\ IF brand # 0 THEN Goods[p].brand = brand ELSE cat \in {0, Goods[p].cat}}

\* The products bought in the period; a deleted one has left no movement.
Bought(day, cat, brand) ==
  {p \in alive : Goods[p].day = day /\ cat \in {0, Goods[p].cat} /\ brand \in {0, Goods[p].brand}}

CategoryOf(p) == Goods[p].cat
BrandOf(p) == Goods[p].brand

Found(view, x) ==
  CASE view = "categories" -> Cats
    [] view = "brands" -> {BrandOf(p) : p \in InShop(x.cat, 0)}
    [] view \in {"products", "shelf"} -> InShop(x.cat, x.brand)
    [] view = "cats" -> {CategoryOf(p) : p \in Bought(x.day, 0, 0)}
    [] view = "pbrands" -> {BrandOf(p) : p \in Bought(x.day, x.cat, 0)}
    [] view = "page" -> Bought(x.day, x.cat, x.brand)

\* Names of categories and brands differ, titles of products need not: ORDER BY
\* title leaves their order open. Purchases come by the last one, then by id.
Orderings(view, x) ==
  CASE view \in {"products", "shelf"} ->
         {s \in SetToSeqs(Found(view, x)) :
            \A i, j \in DOMAIN s : i < j => Goods[s[i]].title <= Goods[s[j]].title}
    [] view = "page" -> {Descending(Found(view, x))}
    [] OTHER -> {Ascending(Found(view, x))}

\* The number of products in the text of each row's button, where it is given.
Promised(view, x, row) ==
  CASE view = "brands" -> Cardinality(InShop(x.cat, row))
    [] view = "cats" -> Cardinality(Bought(x.day, row, 0))
    [] view = "pbrands" -> Cardinality(Bought(x.day, x.cat, row))
    [] OTHER -> 0

\* Of a page of purchases the pieces.
Pieces(view, x, row) == IF view = "page" THEN Goods[row].qty ELSE Promised(view, x, row)

Paged(view) == view \in {"categories", "brands", "products", "page"}
Clamped(view) == view \in {"categories", "page"}
Cut(view, order, page) == IF Paged(view) THEN Slice(order, page, Size) ELSE order

\* The period, category and brand that a screen of purchases takes from FSM data.
Narrowed(view, f) ==
  [day |-> f.day, cat |-> IF view = "cats" THEN 0 ELSE f.cat,
   brand |-> IF view = "page" THEN f.brand ELSE 0]

\* What a run's screen is about: its button says it or the FSM data it has read.
Subject(v) ==
  LET view == View(v.want.kind) IN
  CASE view \in {"cats", "pbrands", "page"} -> Narrowed(view, v.scope)
    [] view = "shelf" -> [day |-> 0, cat |-> v.scope.shelf[1], brand |-> v.scope.shelf[2]]
    [] OTHER -> [day |-> 0, cat |-> v.want.cat, brand |-> v.want.brand]

\* A screen shows what the queries give, and the FSM data are those it is about,
\* or of purchases that do not exist.
Current(s) ==
  s.kind \in Listings =>
    \E order \in Orderings(s.kind, s) :
      /\ s.rows = Cut(s.kind, order, s.page)
      /\ s.counts = [i \in DOMAIN s.rows |-> Pieces(s.kind, s, s.rows[i])]
      /\ Paged(s.kind) => s.total = Len(order)

Agrees(s) ==
  /\ s.kind \in {"cats", "pbrands", "page"} =>
       LET x == Narrowed(s.kind, fsm) IN
       x = [day |-> s.day, cat |-> s.cat, brand |-> s.brand] \/ Bought(x.day, x.cat, x.brand) = {}
  /\ s.kind = "card" => strayed \/ s.rows = <<fsm.product>> \/ fsm.product \notin alive

-----------------------------------------------------------------------------
(***************************************************************************)
(* The buttons of a screen.                                                *)
(***************************************************************************)

Goto(kind) == [Button EXCEPT !.kind = kind]
Arrows(s, kind) ==
  {[Button EXCEPT !.kind = kind, !.cat = s.cat, !.brand = s.brand, !.page = p] :
     p \in {q \in {s.page - 1, s.page + 1} :
              q >= 1 /\ (q > s.page => q <= (s.total + Size - 1) \div Size)}}
In(cat, kind) == [Button EXCEPT !.kind = kind, !.cat = cat]
Row(s, i, kind) ==
  [Button EXCEPT !.kind = kind, !.item = s.rows[i], !.promise = s.counts[i],
                 !.cat = IF kind \in {"category", "cat"} THEN s.rows[i] ELSE s.cat,
                 !.brand = IF kind \in {"shelf", "products", "pbrand"} THEN s.rows[i] ELSE s.brand]
Rows(s, kind) == {Row(s, i, kind) : i \in DOMAIN s.rows}

ShopButtons(s) ==
  CASE s.kind = "categories" -> Rows(s, "category") \cup Arrows(s, "categories")
    [] s.kind = "brands" -> {[b EXCEPT !.promise = 0] : b \in Rows(s, "products")}
                              \cup Arrows(s, "brands") \cup {Goto("categories")}
    [] s.kind = "products" -> Rows(s, "product") \cup Arrows(s, "products") \cup {In(s.cat, "brands")}
    [] s.kind = "product" -> {[In(s.cat, "products") EXCEPT !.brand = s.brand]}
    [] OTHER -> {}

StoreButtons(s) ==
  CASE s.kind = "dash" -> {In(c, "category") : c \in Cats} \cup {Goto("days")}
    [] s.kind = "brands" -> Rows(s, "shelf") \cup Arrows(s, "brands") \cup {Goto("dash")}
    [] s.kind = "shelf" -> Rows(s, "card") \cup {Goto("sorts"), In(s.cat, "category")}
    [] s.kind = "sorts" -> {Goto("sort"), Goto("unsort")}
    [] s.kind = "days" -> {[Button EXCEPT !.kind = "pick", !.item = d] : d \in Days} \cup {Goto("dash")}
    [] s.kind = "cats" -> Rows(s, "cat") \cup {Goto("days"), Goto("dash")}
    [] s.kind = "pbrands" -> Rows(s, "pbrand") \cup {Goto("cats"), Goto("days")}
    [] s.kind = "page" -> {[b EXCEPT !.qty = b.promise, !.promise = 0] : b \in Rows(s, "card")}
                            \cup Arrows(s, "page") \cup {Goto("pbrands"), Goto("cats"), Goto("days")}
    [] s.kind = "card" -> {Goto("refresh"), IF s.qty > 0 THEN Goto("return")
                           ELSE [In(s.cat, "shelf") EXCEPT !.brand = s.brand]}
    [] OTHER -> {}

\* An update arrives, a button or the menu's text; when it is answered the screen
\* may not be the same any more.
Visit(r, place) ==
  /\ visit[r].at = "idle" /\ visits < MaxVisits /\ screen[place].kind # "closed"
  /\ visits < Together \/ \A q \in Visitors : visit[q].at = "idle"
  /\ \E b \in IF place = "shop" THEN ShopButtons(screen.shop) \cup {Goto("categories")}
            ELSE StoreButtons(screen.store) \cup {Goto("dash")} :
       visit' = [visit EXCEPT ![r] = [NoVisit EXCEPT !.at = "queued", !.place = place, !.want = b,
                                                     !.asked = screen[place], !.page = b.page]]
  /\ visits' = visits + 1
  /\ UNCHANGED <<alive, fsm, screen, strayed>>

\* What may make every button that is shown or under way stale.
Stale == [pl \in Places |-> [screen[pl] EXCEPT !.fresh = FALSE]]
Disturbed(v) == [v EXCEPT !.calm = FALSE, !.fresh = FALSE]

StartVisit(r) ==
  /\ visit[r].at = "queued"
  /\ LET others == {q \in Visitors \ {r} : visit[q].at \notin {"idle", "queued"}}
         same == screen[visit[r].place] = visit[r].asked /\ visit[r].asked.fresh
         began == [visit EXCEPT ![r].at = "on", ![r].fresh = same] IN
     IF others = {} THEN visit' = began /\ UNCHANGED screen
     ELSE /\ visit' = [q \in Visitors |-> IF q \in others \cup {r} THEN Disturbed(began[q])
                                          ELSE began[q]]
          /\ screen' = Stale
  /\ UNCHANGED <<alive, fsm, visits, strayed>>

-----------------------------------------------------------------------------
(***************************************************************************)
(* The stages.                                                             *)
(***************************************************************************)

At(r, stage) == visit[r].at = "on" /\ Stage(visit[r]) = stage

\* callback.answer: an alert, and the screen stays.
Alert(r) == visit' = [visit EXCEPT ![r] = NoVisit] /\ UNCHANGED <<alive, fsm, screen, visits, strayed>>

On(r, v) ==
  /\ visit' = [visit EXCEPT ![r] = [v EXCEPT !.step = @ + 1]]
  /\ UNCHANGED <<alive, fsm, screen, visits, strayed>>

\* A text without buttons takes the place of the screen.
Empty(r) ==
  /\ screen' = [screen EXCEPT ![visit[r].place] = [Blank EXCEPT !.kind = "empty"]]
  /\ visit' = [visit EXCEPT ![r] = NoVisit]
  /\ UNCHANGED <<alive, fsm, visits, strayed>>

\* cq_category counts the brands before the brands' screen does.
Ask(r) ==
  /\ At(r, "ask")
  /\ IF Found("brands", visit[r].want) = {} THEN Empty(r) ELSE On(r, visit[r])

\* The period and the category a purchases screen is about.
ReadScope(r) ==
  /\ At(r, "scope")
  /\ IF fsm.day = 0 \/ (View(visit[r].want.kind) = "pbrands" /\ fsm.cat = 0) THEN Alert(r)
     ELSE On(r, [visit[r] EXCEPT !.scope = fsm,
                                 !.page = IF visit[r].want.kind = "return" THEN fsm.page ELSE @])

\* After a clear there is no shelf to sort: KeyError.
ReadShelf(r) ==
  /\ At(r, "shelf")
  /\ IF fsm.shelf = <<0, 0>> THEN Alert(r) ELSE On(r, [visit[r] EXCEPT !.scope = fsm])

CountRows(r) ==
  /\ At(r, "count")
  /\ LET v == visit[r]
         view == View(v.want.kind)
         total == Cardinality(Found(view, Subject(v)))
         page == IF Clamped(view) THEN Clamp(v.page, TotalPages(total, Size)) ELSE v.page IN
     IF total = 0 /\ view # "products" THEN Alert(r)
     ELSE On(r, [v EXCEPT !.total = total, !.page = page])

ListRows(r) ==
  /\ At(r, "list")
  /\ LET v == visit[r]
         view == View(v.want.kind) IN
     \E order \in Orderings(view, Subject(v)) :
       LET rows == Cut(view, order, v.page)
           counts == [i \in DOMAIN rows |-> Pieces(view, Subject(v), rows[i])] IN
       CASE rows # <<>> \/ (Paged(view) /\ (view # "products" \/ v.page > 1)) ->
              On(r, [v EXCEPT !.rows = rows, !.counts = counts])
         [] rows = <<>> /\ ~Paged(view) -> Alert(r)
         [] OTHER -> Empty(r)

\* The product of the button, or of the FSM data.
Product(v) == IF v.want.kind = "refresh" THEN fsm.product ELSE v.want.item

Find(r) ==
  /\ At(r, "find")
  /\ IF Product(visit[r]) \notin alive THEN Alert(r)
     ELSE On(r, [visit[r] EXCEPT !.rows = <<Product(visit[r])>>])

\* The record update_data writes back.
Patched(name, v) ==
  LET b == v.want IN
  CASE name = "set_pick" -> [fsm EXCEPT !.day = b.item, !.cat = 0, !.brand = 0, !.page = 1]
    [] name = "set_cats" -> [fsm EXCEPT !.cat = 0, !.brand = 0, !.page = 1]
    [] name = "set_cat" -> [fsm EXCEPT !.cat = b.item, !.brand = 0, !.page = 1]
    [] name = "set_pbrands" -> [fsm EXCEPT !.brand = 0, !.page = 1]
    [] name = "set_pbrand" -> [fsm EXCEPT !.brand = b.item, !.page = 1]
    [] name = "set_page" -> [fsm EXCEPT !.page = v.page]
    [] name = "set_shelf" -> [fsm EXCEPT !.shelf = <<b.cat, b.brand>>]
    [] name = "set_sort" -> fsm
    [] name = "set_product" -> [fsm EXCEPT !.product = b.item]
    [] name = "set_back" -> [fsm EXCEPT !.back = IF b.qty > 0 THEN "proc" ELSE "brand", !.qty = b.qty]

ReadFsm(r) ==
  /\ \E name \in {"set_pick", "set_cats", "set_cat", "set_pbrands", "set_pbrand", "set_page",
                  "set_shelf", "set_sort", "set_product", "set_back"} :
       /\ At(r, name)
       /\ visit' = [visit EXCEPT ![r].mem = Patched(name, visit[r]), ![r].at = "store"]
  /\ UNCHANGED <<alive, fsm, screen, visits, strayed>>

WriteFsm(r) ==
  /\ visit[r].at = "store"
  /\ fsm' = visit[r].mem
  /\ strayed' = (strayed \/ visit[r].want.kind = "product")
  /\ visit' = [visit EXCEPT ![r].at = "on", ![r].step = @ + 1,
                ![r].scope = IF visit[r].want.kind = "shelf" THEN visit[r].mem ELSE @]
  /\ UNCHANGED <<alive, screen, visits>>

\* What the message will show.
Shown(v) ==
  LET view == View(v.want.kind)
      p == v.rows[1] IN
  [Blank EXCEPT
     !.kind = view, !.page = v.page, !.total = v.total, !.rows = v.rows, !.counts = v.counts,
     !.day = Subject(v).day,
     !.cat = IF view = "card" THEN Goods[p].cat ELSE Subject(v).cat,
     !.brand = IF view = "card" THEN Goods[p].brand ELSE Subject(v).brand,
     !.qty = IF view = "card" /\ fsm.back = "proc" THEN fsm.qty ELSE 0,
     !.fresh = v.calm, !.calm = v.calm, !.sure = v.fresh, !.by = v.want,
     !.before = v.asked.rows]

Show(r) ==
  /\ At(r, "show")
  /\ screen' = [screen EXCEPT ![visit[r].place] = Shown(visit[r])]
  /\ visit' = [visit EXCEPT ![r] = NoVisit]
  /\ UNCHANGED <<alive, fsm, visits, strayed>>

\* Telegram refuses the edit: the message is gone, or would be the same.
ShowFails(r) ==
  /\ At(r, "show")
  /\ screen' = [screen EXCEPT ![visit[r].place].fresh = FALSE]
  /\ visit' = [visit EXCEPT ![r] = NoVisit]
  /\ UNCHANGED <<alive, fsm, visits, strayed>>

\* Another dialogue deletes a product (Catalogue), or clears the FSM data.
Disturb ==
  /\ screen' = Stale
  /\ visit' = [q \in Visitors |-> Disturbed(visit[q])]
  /\ UNCHANGED <<visits, strayed>>

DeleteProduct ==
  /\ \E p \in alive \cap Doomed : alive' = alive \ {p}
  /\ Disturb /\ UNCHANGED fsm

ClearFsm ==
  /\ visits < MaxVisits /\ fsm # NoFsm
  /\ fsm' = NoFsm
  /\ Disturb /\ UNCHANGED alive

-----------------------------------------------------------------------------

ShelvesInit ==
  /\ alive = Products /\ strayed = FALSE /\ visits = 0
  /\ \E o \in Openings : screen = o.screen /\ fsm = o.fsm
  /\ \A pl \in Places : Current(screen[pl]) /\ Agrees(screen[pl])
  /\ visit = [r \in Visitors |-> NoVisit]

Stages(r) ==
  \/ StartVisit(r) \/ Ask(r) \/ ReadScope(r) \/ ReadShelf(r) \/ CountRows(r) \/ ListRows(r)
  \/ Find(r) \/ ReadFsm(r) \/ WriteFsm(r) \/ Show(r) \/ ShowFails(r)

ShelvesNext ==
  \/ \E r \in Visitors : (\E place \in Places : Visit(r, place)) \/ Stages(r)
  \/ DeleteProduct \/ ClearFsm

ShelvesTypeOK == alive \subseteq Products /\ fsm \in Fsms /\ screen \in [Places -> Screens]

-----------------------------------------------------------------------------

\* The sum, as the number of pairs of a row and one of its products.
Sum(counts) == Cardinality(UNION {{i} \X (1..counts[i]) : i \in DOMAIN counts})

\* The number of products a screen of rows stands for.
Held(s) ==
  CASE s.kind = "pbrands" -> Sum(s.counts) [] s.kind = "shelf" -> Len(s.rows) [] OTHER -> s.total

\* What a screen shows must be what the button said that led to it.
TrueToButton(s) ==
  /\ s.calm /\ Paged(s.kind) =>
       Len(s.rows) = Greatest(0, Least(Size, s.total - Size * (s.page - 1)))
  /\ s.sure =>
       /\ s.by.promise > 0 /\ s.kind \in {"pbrands", "page", "shelf"} => Held(s) = s.by.promise
       /\ Paged(s.kind) /\ (s.by.page > 1 => s.before # <<>>) => s.rows # <<>>
       /\ s.by.kind = s.kind /\ s.kind \in {"categories", "brands", "page"} /\ s.by.page > 1 =>
            ToSet(s.rows) \cap ToSet(s.before) = {}
       /\ s.by.kind = "card" => s.rows[1] = s.by.item /\ s.qty = s.by.qty
       /\ s.by.kind = "refresh" /\ ~strayed => s.rows = s.before

\* A screen keeps what the button said that led to it, unless the button was
\* stale, another handler was under way or a product deleted: it holds as many
\* products, in category, brand and page, as were promised; its page is full,
\* and has rows if the page its arrow was on had; an arrow shows no row of the
\* page it left (if titles differ);
\* a card says how many pieces the period's list said were bought, and a
\* refreshed card says so still, unless a card of the shop came between.
ScreensHonest == \A pl \in Places : TrueToButton(screen[pl])

=============================================================================
