---------------------------- MODULE ScreensProofs ----------------------------
(***************************************************************************)
(* Proofs about browsing, for any catalogue, size of a page, number of     *)
(* handler runs and of buttons pressed; and about the composition with the *)
(* lists of orders, which shares no state with it.                         *)
(***************************************************************************)
EXTENDS MCScreens, OrderListsProofs

-----------------------------------------------------------------------------
(***************************************************************************)
(* What holds of the screens at every step.                                *)
(***************************************************************************)

Offered(place, s) ==
  IF place = "shop" THEN ShopButtons(s) \cup {Goto("categories")}
  ELSE StoreButtons(s) \cup {Goto("dash")}

\* What a button of each kind asks for.
Asks(b) ==
  /\ b.kind = "pick" => b.item \in Days
  /\ b.kind = "cat" => b.item \in Cats
  /\ b.kind = "pbrand" => b.item # 0
  /\ b.kind \in {"card", "product"} => b.item \in Products

VisitRecords ==
  [at : {"idle", "queued", "on", "store"}, place : Places, want : Buttons, asked : Screens,
   fresh : BOOLEAN, calm : BOOLEAN, step : Nat \ {0}, scope : Fsms, page : Nat \ {0}, total : Nat,
   rows : Seq(Nat), counts : Seq(Nat), mem : Fsms]

Typed ==
  /\ alive \subseteq Products /\ fsm \in Fsms /\ screen \in [Places -> Screens]
  /\ visit \in [Visitors -> VisitRecords] /\ strayed \in BOOLEAN

Started(v) == v.at \notin {"idle", "queued"}
Done(v) == {Plan(v.place, v.want.kind)[i] : i \in 1..v.step - 1}
Past(v, stage) == stage \in Done(v)
Sets == {"set_pick", "set_cats", "set_cat", "set_pbrands", "set_pbrand", "set_page",
         "set_shelf", "set_sort", "set_product", "set_back"}

\* A run and what it has so far, whatever happens around it.
Proper(v) ==
  LET b == v.want
      view == View(b.kind) IN
  /\ v.at # "idle" => b \in Offered(v.place, v.asked) /\ Asks(b)
  /\ v.step \in 1..Len(Plan(v.place, b.kind)) /\ (~Started(v) => v.step = 1)
  /\ v.at = "store" => Stage(v) \in Sets
  /\ ToSet(v.rows) \subseteq RowsOf(view) /\ IsInjective(v.rows)
  /\ Past(v, "list") => /\ Len(v.counts) = Len(v.rows)
                        /\ v.rows # <<>> \/ (Paged(view) /\ (view = "products" => v.page > 1))
  /\ Past(v, "count") => /\ view # "products" => v.total > 0
                         /\ Clamped(view) => v.page \in 1..TotalPages(v.total, Size)
  /\ b.kind # "return" =>
       v.page = IF Clamped(view) /\ Past(v, "count") THEN Clamp(b.page, TotalPages(v.total, Size))
                ELSE b.page
  /\ Past(v, "find") => Len(v.rows) = 1 /\ (b.kind # "refresh" => v.rows = <<b.item>>)
  /\ v.at = "store" /\ Stage(v) = "set_shelf" => v.mem.shelf = <<b.cat, b.brand>>
  /\ Past(v, "set_shelf") => v.scope.shelf = <<b.cat, b.brand>>

\* No other handler has come between since it began, and no commit.
Trusted(v) == v.calm \/ v.fresh \/ \E pl \in Places : screen[pl].fresh /\ screen[pl].kind # "empty"

\* What it has is what the queries and the FSM data say.
Faithful(v) ==
  LET b == v.want
      view == View(b.kind)
      x == Subject(v) IN
  /\ v.at = "store" => v.mem = Patched(Stage(v), v)
  /\ Past(v, "set_pick") => fsm.day = b.item /\ fsm.cat = 0 /\ fsm.brand = 0
  /\ Past(v, "set_cat") => fsm.cat = b.item /\ fsm.brand = 0
  /\ Past(v, "set_pbrand") => fsm.brand = b.item
  /\ Past(v, "set_product") => fsm.product = b.item
  /\ Past(v, "set_back") => fsm.back = (IF b.qty > 0 THEN "proc" ELSE "brand") /\ fsm.qty = b.qty
  /\ Past(v, "scope") => x = Narrowed(view, fsm)
  /\ Past(v, "list") =>
       \E order \in Orderings(view, x) :
         /\ v.rows = Cut(view, order, v.page)
         /\ v.counts = [i \in DOMAIN v.rows |-> Pieces(view, x, v.rows[i])]
  /\ Past(v, "count") => v.total = Cardinality(Found(view, x))
  /\ Past(v, "find") => v.rows[1] \in alive /\ (b.kind = "refresh" => v.rows[1] = fsm.product)

\* The screens of which a handler, once it has written, may make the FSM data
\* another screen's.
Breaks(kind) ==
  CASE kind = "pick" -> {"cats", "pbrands", "page"}
    [] kind \in {"cat", "cats"} -> {"pbrands", "page"}
    [] kind \in {"pbrand", "pbrands"} -> {"page"}
    [] kind = "card" -> {"card"}
    [] OTHER -> {}
Dirty(v) == \E name \in Sets : Past(v, name)
Kept(v, s) == (s.kind \in Breaks(v.want.kind) /\ Dirty(v)) \/ Agrees(s)

Single == \A r, q \in Visitors : r # q /\ Started(visit[r]) /\ Started(visit[q]) => ~Trusted(visit[r])
RunningOf(v) ==
  /\ Proper(v)
  /\ Started(v) /\ Trusted(v) => Faithful(v)
  /\ Started(v) /\ v.fresh => Current(v.asked) /\ (v.place = "store" => Kept(v, v.asked))
Runnings == \A r \in Visitors : RunningOf(visit[r])
Screenings ==
  /\ \A pl \in Places : screen[pl].fresh => Current(screen[pl])
  /\ screen["store"].fresh =>
       /\ \A r \in Visitors : Started(visit[r]) => Kept(visit[r], screen["store"])
       /\ (\A r \in Visitors : ~Started(visit[r])) => Agrees(screen["store"])

SInv == Typed /\ Single /\ Runnings /\ Screenings /\ ScreensHonest

-----------------------------------------------------------------------------
(***************************************************************************)
(* The queries: what they find, in which order, and the pages of it.       *)
(***************************************************************************)

LEMMA RowsAreIds ==
  ASSUME NEW kind
  PROVE  RowsOf(kind) \subseteq Nat \ {0}
BY GoodsAssumption DEF RowsOf

LEMMA GoodsFields ==
  ASSUME NEW p \in Products
  PROVE  /\ Goods[p].cat \in Cats /\ Goods[p].brand \in Nat \ {0} /\ Goods[p].day \in Nat \ {0}
         /\ Goods[p].qty \in Nat \ {0} /\ Goods[p].day \in Days
BY GoodsAssumption DEF Days

LEMMA BoughtFinite ==
  ASSUME alive \subseteq Products, NEW day, NEW cat, NEW brand
  PROVE  /\ Bought(day, cat, brand) \subseteq Products /\ IsFiniteSet(Bought(day, cat, brand))
         /\ InShop(cat, brand) \subseteq Products /\ IsFiniteSet(InShop(cat, brand))
<1>1. Bought(day, cat, brand) \in SUBSET Products /\ InShop(cat, brand) \in SUBSET Products
  BY DEF Bought, InShop
<1>. QED
  BY <1>1, GoodsAssumption, FS_Subset

LEMMA ImageFinite ==
  ASSUME NEW S, IsFiniteSet(S), NEW f, NEW T, T = {f[x] : x \in S}
  PROVE  IsFiniteSet(T)
<1>. DEFINE g == [x \in S |-> f[x]]
<1>1. g \in Surjection(S, T)
  BY DEF Surjection
<1>. HIDE DEF g
<1>. QED
  BY <1>1, FS_Surjection

LEMMA FoundFinite ==
  ASSUME alive \subseteq Products, NEW view \in Listings, NEW x
  PROVE  Found(view, x) \subseteq RowsOf(view) /\ IsFiniteSet(Found(view, x))
<1>1. CASE view = "categories"
  BY <1>1, GoodsAssumption DEF Found, RowsOf
<1>2. CASE view = "brands"
  <2>. DEFINE S == InShop(x.cat, 0)
              f == [p \in Products |-> Goods[p].brand]
              T == {BrandOf(p) : p \in S}
  <2>1. S \subseteq Products /\ IsFiniteSet(S)
    BY BoughtFinite
  <2>. HIDE DEF S
  <2>2. T = {f[p] : p \in S}
    BY <2>1 DEF BrandOf
  <2>3. \A p \in S : BrandOf(p) \in Nat \ {0}
    BY <2>1, GoodsFields DEF BrandOf
  <2>. HIDE DEF f, T
  <2>4. IsFiniteSet(T)
    BY <2>1, <2>2, ImageFinite
  <2>5. T \subseteq Nat \ {0}
    BY <2>3 DEF T
  <2>6. Found(view, x) = T /\ RowsOf(view) = Nat \ {0}
    BY <1>2 DEF Found, RowsOf, S, T
  <2>. QED
    BY <2>4, <2>5, <2>6
<1>3. CASE view \in {"products", "shelf"}
  <2>1. Found(view, x) = InShop(x.cat, x.brand) /\ RowsOf(view) = Products
    BY <1>3 DEF Found, RowsOf
  <2>. QED
    BY <2>1, BoughtFinite
<1>4. CASE view = "cats"
  <2>. DEFINE S == Bought(x.day, 0, 0)
              f == [p \in Products |-> Goods[p].cat]
              T == {CategoryOf(p) : p \in S}
  <2>1. S \subseteq Products /\ IsFiniteSet(S)
    BY BoughtFinite
  <2>. HIDE DEF S
  <2>2. T = {f[p] : p \in S}
    BY <2>1 DEF CategoryOf
  <2>3. \A p \in S : CategoryOf(p) \in Cats
    BY <2>1, GoodsFields DEF CategoryOf
  <2>. HIDE DEF f, T
  <2>4. IsFiniteSet(T)
    BY <2>1, <2>2, ImageFinite
  <2>5. T \subseteq Cats
    BY <2>3 DEF T
  <2>6. Found(view, x) = T /\ RowsOf(view) = Cats
    BY <1>4 DEF Found, RowsOf, S, T
  <2>. QED
    BY <2>4, <2>5, <2>6
<1>5. CASE view = "pbrands"
  <2>. DEFINE S == Bought(x.day, x.cat, 0)
              f == [p \in Products |-> Goods[p].brand]
              T == {BrandOf(p) : p \in S}
  <2>1. S \subseteq Products /\ IsFiniteSet(S)
    BY BoughtFinite
  <2>. HIDE DEF S
  <2>2. T = {f[p] : p \in S}
    BY <2>1 DEF BrandOf
  <2>3. \A p \in S : BrandOf(p) \in Nat \ {0}
    BY <2>1, GoodsFields DEF BrandOf
  <2>. HIDE DEF f, T
  <2>4. IsFiniteSet(T)
    BY <2>1, <2>2, ImageFinite
  <2>5. T \subseteq Nat \ {0}
    BY <2>3 DEF T
  <2>6. Found(view, x) = T /\ RowsOf(view) = Nat \ {0}
    BY <1>5 DEF Found, RowsOf, S, T
  <2>. QED
    BY <2>4, <2>5, <2>6
<1>6. CASE view = "page"
  <2>1. Found(view, x) = Bought(x.day, x.cat, x.brand) /\ RowsOf(view) = Products
    BY <1>6 DEF Found, RowsOf
  <2>. QED
    BY <2>1, BoughtFinite
<1>. QED
  BY <1>1, <1>2, <1>3, <1>4, <1>5, <1>6 DEF Listings

LEMMA OrderingType ==
  ASSUME alive \subseteq Products, NEW view \in Listings, NEW x,
         NEW CONSTANT order \in Orderings(view, x)
  PROVE  /\ order \in Seq(Nat) /\ Len(order) = Cardinality(Found(view, x))
         /\ IsInjective(order) /\ ToSet(order) = Found(view, x)
<1>1. PICK S : S = Found(view, x)
  OBVIOUS
<1>2. S \subseteq Nat /\ S \subseteq Int /\ IsFiniteSet(S)
  BY <1>1, FoundFinite, RowsAreIds
<1>3. order \in Seq(S) /\ Len(order) = Cardinality(S) /\ IsInjective(order) /\ ToSet(order) = S
  <2>1. CASE view \in {"products", "shelf"}
    <3>1. order \in SetToSeqs(S)
      BY <1>1, <2>1 DEF Orderings
    <3>2. PICK n \in Nat : n = Cardinality(S)
      BY <1>2, FS_CardinalityType
    <3>3. order \in [1..n -> S] /\ \A i, j \in 1..n : i # j => order[i] # order[j]
      BY <3>1, <3>2 DEF SetToSeqs
    <3>4. order \in Injection(1..n, S)
      BY <3>3 DEF Injection, IsInjective
    <3>5. order \in Surjection(1..n, S)
      BY <1>2, <3>2, <3>4, FS_Interval, FS_Injection
    <3>6. order \in Seq(S) /\ Len(order) = n
      BY <3>2, <3>3, LenProperties, SeqDef
    <3>. QED
      BY <3>2, <3>3, <3>5, <3>6 DEF ToSet, Surjection, IsInjective
  <2>2. CASE view \notin {"products", "shelf"}
    <3>1. order \in {Ascending(S), Descending(S)}
      BY <1>1, <2>2 DEF Orderings, Listings
    <3>. QED
      BY <1>2, <3>1, Sorted
  <2>. QED
    BY <2>1, <2>2
<1>4. order \in Seq(Nat)
  BY <1>2, <1>3, SeqMonotonic
<1>. QED
  BY <1>1, <1>3, <1>4

LEMMA SizeSlice ==
  ASSUME NEW order \in Seq(Nat), NEW page \in Nat \ {0}
  PROVE  LET f == Size * (page - 1)
             r == Slice(order, page, Size) IN
         /\ f \in Nat /\ r \in Seq(Nat)
         /\ Len(r) = Greatest(0, Least(Size, Len(order) - f))
         /\ \A i \in 1..Len(r) : f + i \in 1..Len(order) /\ r[i] = order[f + i]
<1>. DEFINE Facts(size) ==
       LET f == size * (page - 1)
           r == Slice(order, page, size) IN
       /\ f \in Nat /\ r \in Seq(Nat)
       /\ Len(r) = Greatest(0, Least(size, Len(order) - f))
       /\ \A i \in 1..Len(r) : f + i \in 1..Len(order) /\ r[i] = order[f + i]
<1>1. ASSUME NEW size \in Nat \ {0} PROVE Facts(size)
  BY SliceRows
<1>2. Size \in Nat \ {0}
  BY GoodsAssumption
<1>. HIDE DEF Facts
<1>3. Facts(Size)
  BY <1>1, <1>2
<1>. QED
  BY <1>3 DEF Facts

\* The rows of a screen.
LEMMA CutRows ==
  ASSUME NEW CONSTANT order \in Seq(Nat), IsInjective(order), NEW view, NEW page \in Nat \ {0}
  PROVE  LET rows == Cut(view, order, page)
             from == IF Paged(view) THEN Size * (page - 1) ELSE 0 IN
         /\ from \in Nat
         /\ rows \in Seq(Nat) /\ IsInjective(rows) /\ ToSet(rows) \subseteq ToSet(order)
         /\ Len(rows) = IF Paged(view) THEN Greatest(0, Least(Size, Len(order) - from))
                        ELSE Len(order)
         /\ \A i \in 1..Len(rows) : from + i \in 1..Len(order) /\ rows[i] = order[from + i]
<1>. DEFINE rows == Cut(view, order, page)
            from == IF Paged(view) THEN Size * (page - 1) ELSE 0
<1>0. Size \in Nat \ {0} /\ Len(order) \in Nat
  BY GoodsAssumption, LenProperties
<1>1. /\ from \in Nat /\ rows \in Seq(Nat)
      /\ Len(rows) = IF Paged(view) THEN Greatest(0, Least(Size, Len(order) - from))
                     ELSE Len(order)
      /\ \A i \in 1..Len(rows) : from + i \in 1..Len(order) /\ rows[i] = order[from + i]
  <2>1. CASE Paged(view)
    <3>1. rows = Slice(order, page, Size) /\ from = Size * (page - 1)
      BY <2>1 DEF Cut
    <3>2. LET f == Size * (page - 1)
              r == Slice(order, page, Size) IN
          /\ f \in Nat /\ r \in Seq(Nat)
          /\ Len(r) = Greatest(0, Least(Size, Len(order) - f))
          /\ \A i \in 1..Len(r) : f + i \in 1..Len(order) /\ r[i] = order[f + i]
      BY SizeSlice
    <3>. QED
      BY <2>1, <3>1, <3>2
  <2>2. CASE ~Paged(view)
    <3>1. rows = order /\ from = 0
      BY <2>2 DEF Cut
    <3>. QED
      BY <1>0, <2>2, <3>1
  <2>. QED
    BY <2>1, <2>2
<1>. HIDE DEF rows, from
<1>2. /\ DOMAIN rows = 1..Len(rows) /\ DOMAIN order = 1..Len(order) /\ Len(rows) \in Nat
  BY <1>1, LenProperties
<1>3. IsInjective(rows)
  <2>1. ASSUME NEW a \in DOMAIN rows, NEW b \in DOMAIN rows, rows[a] = rows[b] PROVE a = b
    <3>1. /\ from + a \in DOMAIN order /\ from + b \in DOMAIN order
          /\ order[from + a] = order[from + b]
      BY <1>1, <1>2, <2>1
    <3>2. from + a = from + b
      BY <3>1 DEF IsInjective
    <3>. QED
      BY <1>1, <1>2, <3>2
  <2>. QED
    BY <2>1 DEF IsInjective
<1>4. ToSet(rows) \subseteq ToSet(order)
  BY <1>1, <1>2 DEF ToSet
<1>. QED
  BY <1>1, <1>3, <1>4 DEF rows, from

-----------------------------------------------------------------------------
(***************************************************************************)
(* The order of a handler's stages.                                        *)
(***************************************************************************)

\* What each stage comes after, and which buttons have it.
InOrder(v) ==
  LET kind == v.want.kind
      view == View(kind)
      stage == Stage(v)
      done == Done(v)
      bought == view \in {"cats", "pbrands", "page"} IN
  /\ stage = "show" <=> v.step = Len(Plan(v.place, kind))
  /\ stage = "ask" => kind = "category"
  /\ stage = "scope" =>
       /\ bought /\ \A x \in {"list", "count", "find", "set_shelf", "scope"} : x \notin done
       /\ \/ \A x \in Sets : x \notin done
          \/ kind = "pick" /\ "set_pick" \in done
          \/ kind = "cat" /\ "set_cat" \in done
          \/ kind = "pbrand" /\ "set_pbrand" \in done
  /\ stage = "shelf" => kind \in {"sort", "unsort"} /\ \A x : x \notin done
  /\ stage = "count" =>
       /\ view \in Listings /\ "count" \notin done /\ "find" \notin done
       /\ Clamped(view) => "list" \notin done
       /\ bought => view = "page" /\ "scope" \in done
  /\ stage = "list" =>
       /\ view \in Listings /\ "list" \notin done /\ "find" \notin done
       /\ bought => "scope" \in done
       /\ Clamped(view) => "count" \in done
  /\ stage = "find" =>
       /\ kind \in {"card", "product", "refresh"}
       /\ \A x \in {"list", "count", "find", "scope"} : x \notin done
       /\ kind = "card" => "set_product" \in done
  /\ stage \in Sets =>
       /\ stage = "set_pick" => kind = "pick"
       /\ stage = "set_cat" => kind = "cat"
       /\ stage = "set_pbrand" => kind = "pbrand"
       /\ stage = "set_shelf" => kind = "shelf"
       /\ stage = "set_sort" => kind = "sort"
       /\ stage = "set_back" => kind = "card"
       /\ stage = "set_cats" => view = "cats"
       /\ stage = "set_pbrands" => view = "pbrands"
       /\ stage = "set_page" => view = "page"
       /\ stage = "set_product" => kind \in {"card", "product"}
       /\ "set_pick" \in done => stage = "set_cats"
       /\ "set_cat" \in done => stage = "set_pbrands"
       /\ "set_pbrand" \in done => stage = "set_page"
       /\ "set_product" \in done => stage = "set_back"
       /\ "set_back" \notin done /\ "set_shelf" \notin done
       /\ "scope" \in done => stage \in {"set_cats", "set_pbrands", "set_page"}
       /\ stage = "set_shelf" => \A x : x \notin done
       /\ kind # "refresh"
  /\ stage = "show" =>
       /\ view \in Listings => "list" \in done
       /\ Paged(view) => "count" \in done
       /\ bought => "scope" \in done
       /\ kind \in {"card", "product", "refresh"} => "find" \in done
       /\ kind = "card" => "set_product" \in done /\ "set_back" \in done
       /\ kind = "shelf" => "set_shelf" \in done
       /\ kind = "cat" => "set_cat" \in done
       /\ kind = "pbrand" => "set_pbrand" \in done

LEMMA PlanOfTwo ==
  ASSUME NEW a, NEW b, NEW n \in 1..2,
         NEW p, p = <<a, b>>
  PROVE  \/ n = 1 /\ p[n] = a /\ {p[i] : i \in 1..n - 1} = {}
         \/ n = 2 /\ p[n] = b /\ {p[i] : i \in 1..n - 1} = {a}
<1>1. 1..1 - 1 = {} /\ 1..2 - 1 = {1}
  OBVIOUS
<1>2. n \in {1, 2}
  OBVIOUS
<1>. QED
  BY <1>1, <1>2

LEMMA PlanOfThree ==
  ASSUME NEW a, NEW b, NEW c, NEW n \in 1..3,
         NEW p, p = <<a, b, c>>
  PROVE  \/ n = 1 /\ p[n] = a /\ {p[i] : i \in 1..n - 1} = {}
         \/ n = 2 /\ p[n] = b /\ {p[i] : i \in 1..n - 1} = {a}
         \/ n = 3 /\ p[n] = c /\ {p[i] : i \in 1..n - 1} = {a, b}
<1>1. 1..1 - 1 = {} /\ 1..2 - 1 = {1} /\ 1..3 - 1 = {1, 2}
  OBVIOUS
<1>2. n \in {1, 2, 3}
  OBVIOUS
<1>. QED
  BY <1>1, <1>2

LEMMA PlanOfFour ==
  ASSUME NEW a, NEW b, NEW c, NEW d, NEW n \in 1..4,
         NEW p, p = <<a, b, c, d>>
  PROVE  \/ n = 1 /\ p[n] = a /\ {p[i] : i \in 1..n - 1} = {}
         \/ n = 2 /\ p[n] = b /\ {p[i] : i \in 1..n - 1} = {a}
         \/ n = 3 /\ p[n] = c /\ {p[i] : i \in 1..n - 1} = {a, b}
         \/ n = 4 /\ p[n] = d /\ {p[i] : i \in 1..n - 1} = {a, b, c}
<1>1. 1..1 - 1 = {} /\ 1..2 - 1 = {1} /\ 1..3 - 1 = {1, 2} /\ 1..4 - 1 = {1, 2, 3}
  OBVIOUS
<1>2. n \in {1, 2, 3, 4}
  OBVIOUS
<1>. QED
  BY <1>1, <1>2

LEMMA PlanOfFive ==
  ASSUME NEW a, NEW b, NEW c, NEW d, NEW e, NEW n \in 1..5,
         NEW p, p = <<a, b, c, d, e>>
  PROVE  \/ n = 1 /\ p[n] = a /\ {p[i] : i \in 1..n - 1} = {}
         \/ n = 2 /\ p[n] = b /\ {p[i] : i \in 1..n - 1} = {a}
         \/ n = 3 /\ p[n] = c /\ {p[i] : i \in 1..n - 1} = {a, b}
         \/ n = 4 /\ p[n] = d /\ {p[i] : i \in 1..n - 1} = {a, b, c}
         \/ n = 5 /\ p[n] = e /\ {p[i] : i \in 1..n - 1} = {a, b, c, d}
<1>1. /\ 1..1 - 1 = {} /\ 1..2 - 1 = {1} /\ 1..3 - 1 = {1, 2} /\ 1..4 - 1 = {1, 2, 3}
      /\ 1..5 - 1 = {1, 2, 3, 4}
  OBVIOUS
<1>2. n \in {1, 2, 3, 4, 5}
  OBVIOUS
<1>. QED
  BY <1>1, <1>2

LEMMA PlanOfSix ==
  ASSUME NEW a, NEW b, NEW c, NEW d, NEW e, NEW f, NEW n \in 1..6,
         NEW p, p = <<a, b, c, d, e, f>>
  PROVE  \/ n = 1 /\ p[n] = a /\ {p[i] : i \in 1..n - 1} = {}
         \/ n = 2 /\ p[n] = b /\ {p[i] : i \in 1..n - 1} = {a}
         \/ n = 3 /\ p[n] = c /\ {p[i] : i \in 1..n - 1} = {a, b}
         \/ n = 4 /\ p[n] = d /\ {p[i] : i \in 1..n - 1} = {a, b, c}
         \/ n = 5 /\ p[n] = e /\ {p[i] : i \in 1..n - 1} = {a, b, c, d}
         \/ n = 6 /\ p[n] = f /\ {p[i] : i \in 1..n - 1} = {a, b, c, d, e}
<1>1. /\ 1..1 - 1 = {} /\ 1..2 - 1 = {1} /\ 1..3 - 1 = {1, 2} /\ 1..4 - 1 = {1, 2, 3}
      /\ 1..5 - 1 = {1, 2, 3, 4} /\ 1..6 - 1 = {1, 2, 3, 4, 5}
  OBVIOUS
<1>2. n \in {1, 2, 3, 4, 5, 6}
  OBVIOUS
<1>. QED
  BY <1>1, <1>2

LEMMA StagesInOrder ==
  ASSUME NEW v
  PROVE  v.want \in Buttons /\ v.step \in 1..Len(Plan(v.place, v.want.kind)) => InOrder(v)
<1>. DEFINE kind == v.want.kind
            n == v.step
            p == Plan(v.place, kind)
<1>0. SUFFICES ASSUME v.want \in Buttons, n \in 1..Len(p) PROVE InOrder(v)
  OBVIOUS
<1>17. Stage(v) = p[n] /\ Done(v) = {p[i] : i \in 1..n - 1}
  BY DEF Stage, Done
<1>. HIDE DEF p
<1>1. CASE kind = "category" /\ v.place = "shop"
  <2>1. p = <<"ask", "count", "list", "show">>
    BY <1>1 DEF p, Plan
  <2>2. Len(p) = 4 /\ n \in 1..4
    BY <1>0, <2>1
  <2>3. Len(Plan(v.place, kind)) = 4
    BY <2>2 DEF p
  <2>4. View(kind) = "brands"
    BY <1>1 DEF View
  <2>5. \/ n = 1 /\ Stage(v) = "ask" /\ Done(v) = {}
        \/ n = 2 /\ Stage(v) = "count" /\ Done(v) = {"ask"}
        \/ n = 3 /\ Stage(v) = "list" /\ Done(v) = {"ask", "count"}
        \/ n = 4 /\ Stage(v) = "show" /\ Done(v) = {"ask", "count", "list"}
    <3>1. \/ n = 1 /\ p[n] = "ask" /\ {p[i] : i \in 1..n - 1} = {}
          \/ n = 2 /\ p[n] = "count" /\ {p[i] : i \in 1..n - 1} = {"ask"}
          \/ n = 3 /\ p[n] = "list" /\ {p[i] : i \in 1..n - 1} = {"ask", "count"}
          \/ n = 4 /\ p[n] = "show" /\ {p[i] : i \in 1..n - 1} = {"ask", "count", "list"}
      BY <2>1, <2>2, PlanOfFour
    <3>. QED
      BY <1>17, <3>1
  <2>6. CASE n = 1
    <3>1. Stage(v) = "ask" /\ Done(v) = {}
      BY <2>5, <2>6
    <3>. QED
      BY <1>1, <2>3, <2>4, <2>6, <3>1 DEF InOrder, Listings, Paged, Clamped, Sets
  <2>7. CASE n = 2
    <3>1. Stage(v) = "count" /\ Done(v) = {"ask"}
      BY <2>5, <2>7
    <3>. QED
      BY <1>1, <2>3, <2>4, <2>7, <3>1 DEF InOrder, Listings, Paged, Clamped, Sets
  <2>8. CASE n = 3
    <3>1. Stage(v) = "list" /\ Done(v) = {"ask", "count"}
      BY <2>5, <2>8
    <3>. QED
      BY <1>1, <2>3, <2>4, <2>8, <3>1 DEF InOrder, Listings, Paged, Clamped, Sets
  <2>9. CASE n = 4
    <3>1. Stage(v) = "show" /\ Done(v) = {"ask", "count", "list"}
      BY <2>5, <2>9
    <3>. QED
      BY <1>1, <2>3, <2>4, <2>9, <3>1 DEF InOrder, Listings, Paged, Clamped, Sets
  <2>. QED
    BY <2>2, <2>6, <2>7, <2>8, <2>9
<1>2. CASE kind = "categories"
  <2>1. p = <<"count", "list", "show">>
    BY <1>2 DEF p, Plan
  <2>2. Len(p) = 3 /\ n \in 1..3
    BY <1>0, <2>1
  <2>3. Len(Plan(v.place, kind)) = 3
    BY <2>2 DEF p
  <2>4. View(kind) = "categories"
    BY <1>2 DEF View
  <2>5. \/ n = 1 /\ Stage(v) = "count" /\ Done(v) = {}
        \/ n = 2 /\ Stage(v) = "list" /\ Done(v) = {"count"}
        \/ n = 3 /\ Stage(v) = "show" /\ Done(v) = {"count", "list"}
    <3>1. \/ n = 1 /\ p[n] = "count" /\ {p[i] : i \in 1..n - 1} = {}
          \/ n = 2 /\ p[n] = "list" /\ {p[i] : i \in 1..n - 1} = {"count"}
          \/ n = 3 /\ p[n] = "show" /\ {p[i] : i \in 1..n - 1} = {"count", "list"}
      BY <2>1, <2>2, PlanOfThree
    <3>. QED
      BY <1>17, <3>1
  <2>6. CASE n = 1
    <3>1. Stage(v) = "count" /\ Done(v) = {}
      BY <2>5, <2>6
    <3>. QED
      BY <1>2, <2>3, <2>4, <2>6, <3>1 DEF InOrder, Listings, Paged, Clamped, Sets
  <2>7. CASE n = 2
    <3>1. Stage(v) = "list" /\ Done(v) = {"count"}
      BY <2>5, <2>7
    <3>. QED
      BY <1>2, <2>3, <2>4, <2>7, <3>1 DEF InOrder, Listings, Paged, Clamped, Sets
  <2>8. CASE n = 3
    <3>1. Stage(v) = "show" /\ Done(v) = {"count", "list"}
      BY <2>5, <2>8
    <3>. QED
      BY <1>2, <2>3, <2>4, <2>8, <3>1 DEF InOrder, Listings, Paged, Clamped, Sets
  <2>. QED
    BY <2>2, <2>6, <2>7, <2>8
<1>3. CASE kind = "brands" \/ (kind = "category" /\ v.place # "shop")
  <2>1. p = <<"count", "list", "show">>
    BY <1>3 DEF p, Plan
  <2>2. Len(p) = 3 /\ n \in 1..3
    BY <1>0, <2>1
  <2>3. Len(Plan(v.place, kind)) = 3
    BY <2>2 DEF p
  <2>4. View(kind) = "brands"
    BY <1>3 DEF View
  <2>5. \/ n = 1 /\ Stage(v) = "count" /\ Done(v) = {}
        \/ n = 2 /\ Stage(v) = "list" /\ Done(v) = {"count"}
        \/ n = 3 /\ Stage(v) = "show" /\ Done(v) = {"count", "list"}
    <3>1. \/ n = 1 /\ p[n] = "count" /\ {p[i] : i \in 1..n - 1} = {}
          \/ n = 2 /\ p[n] = "list" /\ {p[i] : i \in 1..n - 1} = {"count"}
          \/ n = 3 /\ p[n] = "show" /\ {p[i] : i \in 1..n - 1} = {"count", "list"}
      BY <2>1, <2>2, PlanOfThree
    <3>. QED
      BY <1>17, <3>1
  <2>6. CASE n = 1
    <3>1. Stage(v) = "count" /\ Done(v) = {}
      BY <2>5, <2>6
    <3>. QED
      BY <1>3, <2>3, <2>4, <2>6, <3>1 DEF InOrder, Listings, Paged, Clamped, Sets
  <2>7. CASE n = 2
    <3>1. Stage(v) = "list" /\ Done(v) = {"count"}
      BY <2>5, <2>7
    <3>. QED
      BY <1>3, <2>3, <2>4, <2>7, <3>1 DEF InOrder, Listings, Paged, Clamped, Sets
  <2>8. CASE n = 3
    <3>1. Stage(v) = "show" /\ Done(v) = {"count", "list"}
      BY <2>5, <2>8
    <3>. QED
      BY <1>3, <2>3, <2>4, <2>8, <3>1 DEF InOrder, Listings, Paged, Clamped, Sets
  <2>. QED
    BY <2>2, <2>6, <2>7, <2>8
<1>4. CASE kind = "products"
  <2>1. p = <<"list", "count", "show">>
    BY <1>4 DEF p, Plan
  <2>2. Len(p) = 3 /\ n \in 1..3
    BY <1>0, <2>1
  <2>3. Len(Plan(v.place, kind)) = 3
    BY <2>2 DEF p
  <2>4. View(kind) = "products"
    BY <1>4 DEF View
  <2>5. \/ n = 1 /\ Stage(v) = "list" /\ Done(v) = {}
        \/ n = 2 /\ Stage(v) = "count" /\ Done(v) = {"list"}
        \/ n = 3 /\ Stage(v) = "show" /\ Done(v) = {"list", "count"}
    <3>1. \/ n = 1 /\ p[n] = "list" /\ {p[i] : i \in 1..n - 1} = {}
          \/ n = 2 /\ p[n] = "count" /\ {p[i] : i \in 1..n - 1} = {"list"}
          \/ n = 3 /\ p[n] = "show" /\ {p[i] : i \in 1..n - 1} = {"list", "count"}
      BY <2>1, <2>2, PlanOfThree
    <3>. QED
      BY <1>17, <3>1
  <2>6. CASE n = 1
    <3>1. Stage(v) = "list" /\ Done(v) = {}
      BY <2>5, <2>6
    <3>. QED
      BY <1>4, <2>3, <2>4, <2>6, <3>1 DEF InOrder, Listings, Paged, Clamped, Sets
  <2>7. CASE n = 2
    <3>1. Stage(v) = "count" /\ Done(v) = {"list"}
      BY <2>5, <2>7
    <3>. QED
      BY <1>4, <2>3, <2>4, <2>7, <3>1 DEF InOrder, Listings, Paged, Clamped, Sets
  <2>8. CASE n = 3
    <3>1. Stage(v) = "show" /\ Done(v) = {"list", "count"}
      BY <2>5, <2>8
    <3>. QED
      BY <1>4, <2>3, <2>4, <2>8, <3>1 DEF InOrder, Listings, Paged, Clamped, Sets
  <2>. QED
    BY <2>2, <2>6, <2>7, <2>8
<1>5. CASE kind = "product"
  <2>1. p = <<"find", "set_product", "show">>
    BY <1>5 DEF p, Plan
  <2>2. Len(p) = 3 /\ n \in 1..3
    BY <1>0, <2>1
  <2>3. Len(Plan(v.place, kind)) = 3
    BY <2>2 DEF p
  <2>4. View(kind) = "product"
    BY <1>5 DEF View
  <2>5. \/ n = 1 /\ Stage(v) = "find" /\ Done(v) = {}
        \/ n = 2 /\ Stage(v) = "set_product" /\ Done(v) = {"find"}
        \/ n = 3 /\ Stage(v) = "show" /\ Done(v) = {"find", "set_product"}
    <3>1. \/ n = 1 /\ p[n] = "find" /\ {p[i] : i \in 1..n - 1} = {}
          \/ n = 2 /\ p[n] = "set_product" /\ {p[i] : i \in 1..n - 1} = {"find"}
          \/ n = 3 /\ p[n] = "show" /\ {p[i] : i \in 1..n - 1} = {"find", "set_product"}
      BY <2>1, <2>2, PlanOfThree
    <3>. QED
      BY <1>17, <3>1
  <2>6. CASE n = 1
    <3>1. Stage(v) = "find" /\ Done(v) = {}
      BY <2>5, <2>6
    <3>. QED
      BY <1>5, <2>3, <2>4, <2>6, <3>1 DEF InOrder, Listings, Paged, Clamped, Sets
  <2>7. CASE n = 2
    <3>1. Stage(v) = "set_product" /\ Done(v) = {"find"}
      BY <2>5, <2>7
    <3>. QED
      BY <1>5, <2>3, <2>4, <2>7, <3>1 DEF InOrder, Listings, Paged, Clamped, Sets
  <2>8. CASE n = 3
    <3>1. Stage(v) = "show" /\ Done(v) = {"find", "set_product"}
      BY <2>5, <2>8
    <3>. QED
      BY <1>5, <2>3, <2>4, <2>8, <3>1 DEF InOrder, Listings, Paged, Clamped, Sets
  <2>. QED
    BY <2>2, <2>6, <2>7, <2>8
<1>6. CASE kind = "shelf"
  <2>1. p = <<"set_shelf", "list", "show">>
    BY <1>6 DEF p, Plan
  <2>2. Len(p) = 3 /\ n \in 1..3
    BY <1>0, <2>1
  <2>3. Len(Plan(v.place, kind)) = 3
    BY <2>2 DEF p
  <2>4. View(kind) = "shelf"
    BY <1>6 DEF View
  <2>5. \/ n = 1 /\ Stage(v) = "set_shelf" /\ Done(v) = {}
        \/ n = 2 /\ Stage(v) = "list" /\ Done(v) = {"set_shelf"}
        \/ n = 3 /\ Stage(v) = "show" /\ Done(v) = {"set_shelf", "list"}
    <3>1. \/ n = 1 /\ p[n] = "set_shelf" /\ {p[i] : i \in 1..n - 1} = {}
          \/ n = 2 /\ p[n] = "list" /\ {p[i] : i \in 1..n - 1} = {"set_shelf"}
          \/ n = 3 /\ p[n] = "show" /\ {p[i] : i \in 1..n - 1} = {"set_shelf", "list"}
      BY <2>1, <2>2, PlanOfThree
    <3>. QED
      BY <1>17, <3>1
  <2>6. CASE n = 1
    <3>1. Stage(v) = "set_shelf" /\ Done(v) = {}
      BY <2>5, <2>6
    <3>. QED
      BY <1>6, <2>3, <2>4, <2>6, <3>1 DEF InOrder, Listings, Paged, Clamped, Sets
  <2>7. CASE n = 2
    <3>1. Stage(v) = "list" /\ Done(v) = {"set_shelf"}
      BY <2>5, <2>7
    <3>. QED
      BY <1>6, <2>3, <2>4, <2>7, <3>1 DEF InOrder, Listings, Paged, Clamped, Sets
  <2>8. CASE n = 3
    <3>1. Stage(v) = "show" /\ Done(v) = {"set_shelf", "list"}
      BY <2>5, <2>8
    <3>. QED
      BY <1>6, <2>3, <2>4, <2>8, <3>1 DEF InOrder, Listings, Paged, Clamped, Sets
  <2>. QED
    BY <2>2, <2>6, <2>7, <2>8
<1>7. CASE kind = "sort"
  <2>1. p = <<"shelf", "set_sort", "list", "show">>
    BY <1>7 DEF p, Plan
  <2>2. Len(p) = 4 /\ n \in 1..4
    BY <1>0, <2>1
  <2>3. Len(Plan(v.place, kind)) = 4
    BY <2>2 DEF p
  <2>4. View(kind) = "shelf"
    BY <1>7 DEF View
  <2>5. \/ n = 1 /\ Stage(v) = "shelf" /\ Done(v) = {}
        \/ n = 2 /\ Stage(v) = "set_sort" /\ Done(v) = {"shelf"}
        \/ n = 3 /\ Stage(v) = "list" /\ Done(v) = {"shelf", "set_sort"}
        \/ n = 4 /\ Stage(v) = "show" /\ Done(v) = {"shelf", "set_sort", "list"}
    <3>1. \/ n = 1 /\ p[n] = "shelf" /\ {p[i] : i \in 1..n - 1} = {}
          \/ n = 2 /\ p[n] = "set_sort" /\ {p[i] : i \in 1..n - 1} = {"shelf"}
          \/ n = 3 /\ p[n] = "list" /\ {p[i] : i \in 1..n - 1} = {"shelf", "set_sort"}
          \/ n = 4 /\ p[n] = "show" /\ {p[i] : i \in 1..n - 1} = {"shelf", "set_sort", "list"}
      BY <2>1, <2>2, PlanOfFour
    <3>. QED
      BY <1>17, <3>1
  <2>6. CASE n = 1
    <3>1. Stage(v) = "shelf" /\ Done(v) = {}
      BY <2>5, <2>6
    <3>. QED
      BY <1>7, <2>3, <2>4, <2>6, <3>1 DEF InOrder, Listings, Paged, Clamped, Sets
  <2>7. CASE n = 2
    <3>1. Stage(v) = "set_sort" /\ Done(v) = {"shelf"}
      BY <2>5, <2>7
    <3>. QED
      BY <1>7, <2>3, <2>4, <2>7, <3>1 DEF InOrder, Listings, Paged, Clamped, Sets
  <2>8. CASE n = 3
    <3>1. Stage(v) = "list" /\ Done(v) = {"shelf", "set_sort"}
      BY <2>5, <2>8
    <3>. QED
      BY <1>7, <2>3, <2>4, <2>8, <3>1 DEF InOrder, Listings, Paged, Clamped, Sets
  <2>9. CASE n = 4
    <3>1. Stage(v) = "show" /\ Done(v) = {"shelf", "set_sort", "list"}
      BY <2>5, <2>9
    <3>. QED
      BY <1>7, <2>3, <2>4, <2>9, <3>1 DEF InOrder, Listings, Paged, Clamped, Sets
  <2>. QED
    BY <2>2, <2>6, <2>7, <2>8, <2>9
<1>8. CASE kind = "unsort"
  <2>1. p = <<"shelf", "list", "show">>
    BY <1>8 DEF p, Plan
  <2>2. Len(p) = 3 /\ n \in 1..3
    BY <1>0, <2>1
  <2>3. Len(Plan(v.place, kind)) = 3
    BY <2>2 DEF p
  <2>4. View(kind) = "shelf"
    BY <1>8 DEF View
  <2>5. \/ n = 1 /\ Stage(v) = "shelf" /\ Done(v) = {}
        \/ n = 2 /\ Stage(v) = "list" /\ Done(v) = {"shelf"}
        \/ n = 3 /\ Stage(v) = "show" /\ Done(v) = {"shelf", "list"}
    <3>1. \/ n = 1 /\ p[n] = "shelf" /\ {p[i] : i \in 1..n - 1} = {}
          \/ n = 2 /\ p[n] = "list" /\ {p[i] : i \in 1..n - 1} = {"shelf"}
          \/ n = 3 /\ p[n] = "show" /\ {p[i] : i \in 1..n - 1} = {"shelf", "list"}
      BY <2>1, <2>2, PlanOfThree
    <3>. QED
      BY <1>17, <3>1
  <2>6. CASE n = 1
    <3>1. Stage(v) = "shelf" /\ Done(v) = {}
      BY <2>5, <2>6
    <3>. QED
      BY <1>8, <2>3, <2>4, <2>6, <3>1 DEF InOrder, Listings, Paged, Clamped, Sets
  <2>7. CASE n = 2
    <3>1. Stage(v) = "list" /\ Done(v) = {"shelf"}
      BY <2>5, <2>7
    <3>. QED
      BY <1>8, <2>3, <2>4, <2>7, <3>1 DEF InOrder, Listings, Paged, Clamped, Sets
  <2>8. CASE n = 3
    <3>1. Stage(v) = "show" /\ Done(v) = {"shelf", "list"}
      BY <2>5, <2>8
    <3>. QED
      BY <1>8, <2>3, <2>4, <2>8, <3>1 DEF InOrder, Listings, Paged, Clamped, Sets
  <2>. QED
    BY <2>2, <2>6, <2>7, <2>8
<1>9. CASE kind = "pick"
  <2>1. p = <<"set_pick", "scope", "list", "set_cats", "show">>
    BY <1>9 DEF p, Plan
  <2>2. Len(p) = 5 /\ n \in 1..5
    BY <1>0, <2>1
  <2>3. Len(Plan(v.place, kind)) = 5
    BY <2>2 DEF p
  <2>4. View(kind) = "cats"
    BY <1>9 DEF View
  <2>5. \/ n = 1 /\ Stage(v) = "set_pick" /\ Done(v) = {}
        \/ n = 2 /\ Stage(v) = "scope" /\ Done(v) = {"set_pick"}
        \/ n = 3 /\ Stage(v) = "list" /\ Done(v) = {"set_pick", "scope"}
        \/ n = 4 /\ Stage(v) = "set_cats" /\ Done(v) = {"set_pick", "scope", "list"}
        \/ n = 5 /\ Stage(v) = "show" /\ Done(v) = {"set_pick", "scope", "list", "set_cats"}
    <3>1. \/ n = 1 /\ p[n] = "set_pick" /\ {p[i] : i \in 1..n - 1} = {}
          \/ n = 2 /\ p[n] = "scope" /\ {p[i] : i \in 1..n - 1} = {"set_pick"}
          \/ n = 3 /\ p[n] = "list" /\ {p[i] : i \in 1..n - 1} = {"set_pick", "scope"}
          \/ n = 4 /\ p[n] = "set_cats" /\ {p[i] : i \in 1..n - 1} = {"set_pick", "scope", "list"}
          \/ n = 5 /\ p[n] = "show" /\ {p[i] : i \in 1..n - 1} = {"set_pick", "scope", "list", "set_cats"}
      BY <2>1, <2>2, PlanOfFive
    <3>. QED
      BY <1>17, <3>1
  <2>6. CASE n = 1
    <3>1. Stage(v) = "set_pick" /\ Done(v) = {}
      BY <2>5, <2>6
    <3>. QED
      BY <1>9, <2>3, <2>4, <2>6, <3>1 DEF InOrder, Listings, Paged, Clamped, Sets
  <2>7. CASE n = 2
    <3>1. Stage(v) = "scope" /\ Done(v) = {"set_pick"}
      BY <2>5, <2>7
    <3>. QED
      BY <1>9, <2>3, <2>4, <2>7, <3>1 DEF InOrder, Listings, Paged, Clamped, Sets
  <2>8. CASE n = 3
    <3>1. Stage(v) = "list" /\ Done(v) = {"set_pick", "scope"}
      BY <2>5, <2>8
    <3>. QED
      BY <1>9, <2>3, <2>4, <2>8, <3>1 DEF InOrder, Listings, Paged, Clamped, Sets
  <2>9. CASE n = 4
    <3>1. Stage(v) = "set_cats" /\ Done(v) = {"set_pick", "scope", "list"}
      BY <2>5, <2>9
    <3>. QED
      BY <1>9, <2>3, <2>4, <2>9, <3>1 DEF InOrder, Listings, Paged, Clamped, Sets
  <2>10. CASE n = 5
    <3>1. Stage(v) = "show" /\ Done(v) = {"set_pick", "scope", "list", "set_cats"}
      BY <2>5, <2>10
    <3>. QED
      BY <1>9, <2>3, <2>4, <2>10, <3>1 DEF InOrder, Listings, Paged, Clamped, Sets
  <2>. QED
    BY <2>2, <2>6, <2>7, <2>8, <2>9, <2>10
<1>10. CASE kind = "cats"
  <2>1. p = <<"scope", "list", "set_cats", "show">>
    BY <1>10 DEF p, Plan
  <2>2. Len(p) = 4 /\ n \in 1..4
    BY <1>0, <2>1
  <2>3. Len(Plan(v.place, kind)) = 4
    BY <2>2 DEF p
  <2>4. View(kind) = "cats"
    BY <1>10 DEF View
  <2>5. \/ n = 1 /\ Stage(v) = "scope" /\ Done(v) = {}
        \/ n = 2 /\ Stage(v) = "list" /\ Done(v) = {"scope"}
        \/ n = 3 /\ Stage(v) = "set_cats" /\ Done(v) = {"scope", "list"}
        \/ n = 4 /\ Stage(v) = "show" /\ Done(v) = {"scope", "list", "set_cats"}
    <3>1. \/ n = 1 /\ p[n] = "scope" /\ {p[i] : i \in 1..n - 1} = {}
          \/ n = 2 /\ p[n] = "list" /\ {p[i] : i \in 1..n - 1} = {"scope"}
          \/ n = 3 /\ p[n] = "set_cats" /\ {p[i] : i \in 1..n - 1} = {"scope", "list"}
          \/ n = 4 /\ p[n] = "show" /\ {p[i] : i \in 1..n - 1} = {"scope", "list", "set_cats"}
      BY <2>1, <2>2, PlanOfFour
    <3>. QED
      BY <1>17, <3>1
  <2>6. CASE n = 1
    <3>1. Stage(v) = "scope" /\ Done(v) = {}
      BY <2>5, <2>6
    <3>. QED
      BY <1>10, <2>3, <2>4, <2>6, <3>1 DEF InOrder, Listings, Paged, Clamped, Sets
  <2>7. CASE n = 2
    <3>1. Stage(v) = "list" /\ Done(v) = {"scope"}
      BY <2>5, <2>7
    <3>. QED
      BY <1>10, <2>3, <2>4, <2>7, <3>1 DEF InOrder, Listings, Paged, Clamped, Sets
  <2>8. CASE n = 3
    <3>1. Stage(v) = "set_cats" /\ Done(v) = {"scope", "list"}
      BY <2>5, <2>8
    <3>. QED
      BY <1>10, <2>3, <2>4, <2>8, <3>1 DEF InOrder, Listings, Paged, Clamped, Sets
  <2>9. CASE n = 4
    <3>1. Stage(v) = "show" /\ Done(v) = {"scope", "list", "set_cats"}
      BY <2>5, <2>9
    <3>. QED
      BY <1>10, <2>3, <2>4, <2>9, <3>1 DEF InOrder, Listings, Paged, Clamped, Sets
  <2>. QED
    BY <2>2, <2>6, <2>7, <2>8, <2>9
<1>11. CASE kind = "cat"
  <2>1. p = <<"set_cat", "scope", "list", "set_pbrands", "show">>
    BY <1>11 DEF p, Plan
  <2>2. Len(p) = 5 /\ n \in 1..5
    BY <1>0, <2>1
  <2>3. Len(Plan(v.place, kind)) = 5
    BY <2>2 DEF p
  <2>4. View(kind) = "pbrands"
    BY <1>11 DEF View
  <2>5. \/ n = 1 /\ Stage(v) = "set_cat" /\ Done(v) = {}
        \/ n = 2 /\ Stage(v) = "scope" /\ Done(v) = {"set_cat"}
        \/ n = 3 /\ Stage(v) = "list" /\ Done(v) = {"set_cat", "scope"}
        \/ n = 4 /\ Stage(v) = "set_pbrands" /\ Done(v) = {"set_cat", "scope", "list"}
        \/ n = 5 /\ Stage(v) = "show" /\ Done(v) = {"set_cat", "scope", "list", "set_pbrands"}
    <3>1. \/ n = 1 /\ p[n] = "set_cat" /\ {p[i] : i \in 1..n - 1} = {}
          \/ n = 2 /\ p[n] = "scope" /\ {p[i] : i \in 1..n - 1} = {"set_cat"}
          \/ n = 3 /\ p[n] = "list" /\ {p[i] : i \in 1..n - 1} = {"set_cat", "scope"}
          \/ n = 4 /\ p[n] = "set_pbrands" /\ {p[i] : i \in 1..n - 1} = {"set_cat", "scope", "list"}
          \/ n = 5 /\ p[n] = "show" /\ {p[i] : i \in 1..n - 1} = {"set_cat", "scope", "list", "set_pbrands"}
      BY <2>1, <2>2, PlanOfFive
    <3>. QED
      BY <1>17, <3>1
  <2>6. CASE n = 1
    <3>1. Stage(v) = "set_cat" /\ Done(v) = {}
      BY <2>5, <2>6
    <3>. QED
      BY <1>11, <2>3, <2>4, <2>6, <3>1 DEF InOrder, Listings, Paged, Clamped, Sets
  <2>7. CASE n = 2
    <3>1. Stage(v) = "scope" /\ Done(v) = {"set_cat"}
      BY <2>5, <2>7
    <3>. QED
      BY <1>11, <2>3, <2>4, <2>7, <3>1 DEF InOrder, Listings, Paged, Clamped, Sets
  <2>8. CASE n = 3
    <3>1. Stage(v) = "list" /\ Done(v) = {"set_cat", "scope"}
      BY <2>5, <2>8
    <3>. QED
      BY <1>11, <2>3, <2>4, <2>8, <3>1 DEF InOrder, Listings, Paged, Clamped, Sets
  <2>9. CASE n = 4
    <3>1. Stage(v) = "set_pbrands" /\ Done(v) = {"set_cat", "scope", "list"}
      BY <2>5, <2>9
    <3>. QED
      BY <1>11, <2>3, <2>4, <2>9, <3>1 DEF InOrder, Listings, Paged, Clamped, Sets
  <2>10. CASE n = 5
    <3>1. Stage(v) = "show" /\ Done(v) = {"set_cat", "scope", "list", "set_pbrands"}
      BY <2>5, <2>10
    <3>. QED
      BY <1>11, <2>3, <2>4, <2>10, <3>1 DEF InOrder, Listings, Paged, Clamped, Sets
  <2>. QED
    BY <2>2, <2>6, <2>7, <2>8, <2>9, <2>10
<1>12. CASE kind = "pbrands"
  <2>1. p = <<"scope", "list", "set_pbrands", "show">>
    BY <1>12 DEF p, Plan
  <2>2. Len(p) = 4 /\ n \in 1..4
    BY <1>0, <2>1
  <2>3. Len(Plan(v.place, kind)) = 4
    BY <2>2 DEF p
  <2>4. View(kind) = "pbrands"
    BY <1>12 DEF View
  <2>5. \/ n = 1 /\ Stage(v) = "scope" /\ Done(v) = {}
        \/ n = 2 /\ Stage(v) = "list" /\ Done(v) = {"scope"}
        \/ n = 3 /\ Stage(v) = "set_pbrands" /\ Done(v) = {"scope", "list"}
        \/ n = 4 /\ Stage(v) = "show" /\ Done(v) = {"scope", "list", "set_pbrands"}
    <3>1. \/ n = 1 /\ p[n] = "scope" /\ {p[i] : i \in 1..n - 1} = {}
          \/ n = 2 /\ p[n] = "list" /\ {p[i] : i \in 1..n - 1} = {"scope"}
          \/ n = 3 /\ p[n] = "set_pbrands" /\ {p[i] : i \in 1..n - 1} = {"scope", "list"}
          \/ n = 4 /\ p[n] = "show" /\ {p[i] : i \in 1..n - 1} = {"scope", "list", "set_pbrands"}
      BY <2>1, <2>2, PlanOfFour
    <3>. QED
      BY <1>17, <3>1
  <2>6. CASE n = 1
    <3>1. Stage(v) = "scope" /\ Done(v) = {}
      BY <2>5, <2>6
    <3>. QED
      BY <1>12, <2>3, <2>4, <2>6, <3>1 DEF InOrder, Listings, Paged, Clamped, Sets
  <2>7. CASE n = 2
    <3>1. Stage(v) = "list" /\ Done(v) = {"scope"}
      BY <2>5, <2>7
    <3>. QED
      BY <1>12, <2>3, <2>4, <2>7, <3>1 DEF InOrder, Listings, Paged, Clamped, Sets
  <2>8. CASE n = 3
    <3>1. Stage(v) = "set_pbrands" /\ Done(v) = {"scope", "list"}
      BY <2>5, <2>8
    <3>. QED
      BY <1>12, <2>3, <2>4, <2>8, <3>1 DEF InOrder, Listings, Paged, Clamped, Sets
  <2>9. CASE n = 4
    <3>1. Stage(v) = "show" /\ Done(v) = {"scope", "list", "set_pbrands"}
      BY <2>5, <2>9
    <3>. QED
      BY <1>12, <2>3, <2>4, <2>9, <3>1 DEF InOrder, Listings, Paged, Clamped, Sets
  <2>. QED
    BY <2>2, <2>6, <2>7, <2>8, <2>9
<1>13. CASE kind = "pbrand"
  <2>1. p = <<"set_pbrand", "scope", "count", "list", "set_page", "show">>
    BY <1>13 DEF p, Plan
  <2>2. Len(p) = 6 /\ n \in 1..6
    BY <1>0, <2>1
  <2>3. Len(Plan(v.place, kind)) = 6
    BY <2>2 DEF p
  <2>4. View(kind) = "page"
    BY <1>13 DEF View
  <2>5. \/ n = 1 /\ Stage(v) = "set_pbrand" /\ Done(v) = {}
        \/ n = 2 /\ Stage(v) = "scope" /\ Done(v) = {"set_pbrand"}
        \/ n = 3 /\ Stage(v) = "count" /\ Done(v) = {"set_pbrand", "scope"}
        \/ n = 4 /\ Stage(v) = "list" /\ Done(v) = {"set_pbrand", "scope", "count"}
        \/ n = 5 /\ Stage(v) = "set_page" /\ Done(v) = {"set_pbrand", "scope", "count", "list"}
        \/ n = 6 /\ Stage(v) = "show" /\ Done(v) = {"set_pbrand", "scope", "count", "list", "set_page"}
    <3>1. \/ n = 1 /\ p[n] = "set_pbrand" /\ {p[i] : i \in 1..n - 1} = {}
          \/ n = 2 /\ p[n] = "scope" /\ {p[i] : i \in 1..n - 1} = {"set_pbrand"}
          \/ n = 3 /\ p[n] = "count" /\ {p[i] : i \in 1..n - 1} = {"set_pbrand", "scope"}
          \/ n = 4 /\ p[n] = "list" /\ {p[i] : i \in 1..n - 1} = {"set_pbrand", "scope", "count"}
          \/ n = 5 /\ p[n] = "set_page" /\ {p[i] : i \in 1..n - 1} = {"set_pbrand", "scope", "count", "list"}
          \/ n = 6 /\ p[n] = "show" /\ {p[i] : i \in 1..n - 1} = {"set_pbrand", "scope", "count", "list", "set_page"}
      BY <2>1, <2>2, PlanOfSix
    <3>. QED
      BY <1>17, <3>1
  <2>6. CASE n = 1
    <3>1. Stage(v) = "set_pbrand" /\ Done(v) = {}
      BY <2>5, <2>6
    <3>. QED
      BY <1>13, <2>3, <2>4, <2>6, <3>1 DEF InOrder, Listings, Paged, Clamped, Sets
  <2>7. CASE n = 2
    <3>1. Stage(v) = "scope" /\ Done(v) = {"set_pbrand"}
      BY <2>5, <2>7
    <3>. QED
      BY <1>13, <2>3, <2>4, <2>7, <3>1 DEF InOrder, Listings, Paged, Clamped, Sets
  <2>8. CASE n = 3
    <3>1. Stage(v) = "count" /\ Done(v) = {"set_pbrand", "scope"}
      BY <2>5, <2>8
    <3>. QED
      BY <1>13, <2>3, <2>4, <2>8, <3>1 DEF InOrder, Listings, Paged, Clamped, Sets
  <2>9. CASE n = 4
    <3>1. Stage(v) = "list" /\ Done(v) = {"set_pbrand", "scope", "count"}
      BY <2>5, <2>9
    <3>. QED
      BY <1>13, <2>3, <2>4, <2>9, <3>1 DEF InOrder, Listings, Paged, Clamped, Sets
  <2>10. CASE n = 5
    <3>1. Stage(v) = "set_page" /\ Done(v) = {"set_pbrand", "scope", "count", "list"}
      BY <2>5, <2>10
    <3>. QED
      BY <1>13, <2>3, <2>4, <2>10, <3>1 DEF InOrder, Listings, Paged, Clamped, Sets
  <2>11. CASE n = 6
    <3>1. Stage(v) = "show" /\ Done(v) = {"set_pbrand", "scope", "count", "list", "set_page"}
      BY <2>5, <2>11
    <3>. QED
      BY <1>13, <2>3, <2>4, <2>11, <3>1 DEF InOrder, Listings, Paged, Clamped, Sets
  <2>. QED
    BY <2>2, <2>6, <2>7, <2>8, <2>9, <2>10, <2>11
<1>14. CASE kind \in {"page", "return"}
  <2>1. p = <<"scope", "count", "list", "set_page", "show">>
    BY <1>14 DEF p, Plan
  <2>2. Len(p) = 5 /\ n \in 1..5
    BY <1>0, <2>1
  <2>3. Len(Plan(v.place, kind)) = 5
    BY <2>2 DEF p
  <2>4. View(kind) = "page"
    BY <1>14 DEF View
  <2>5. \/ n = 1 /\ Stage(v) = "scope" /\ Done(v) = {}
        \/ n = 2 /\ Stage(v) = "count" /\ Done(v) = {"scope"}
        \/ n = 3 /\ Stage(v) = "list" /\ Done(v) = {"scope", "count"}
        \/ n = 4 /\ Stage(v) = "set_page" /\ Done(v) = {"scope", "count", "list"}
        \/ n = 5 /\ Stage(v) = "show" /\ Done(v) = {"scope", "count", "list", "set_page"}
    <3>1. \/ n = 1 /\ p[n] = "scope" /\ {p[i] : i \in 1..n - 1} = {}
          \/ n = 2 /\ p[n] = "count" /\ {p[i] : i \in 1..n - 1} = {"scope"}
          \/ n = 3 /\ p[n] = "list" /\ {p[i] : i \in 1..n - 1} = {"scope", "count"}
          \/ n = 4 /\ p[n] = "set_page" /\ {p[i] : i \in 1..n - 1} = {"scope", "count", "list"}
          \/ n = 5 /\ p[n] = "show" /\ {p[i] : i \in 1..n - 1} = {"scope", "count", "list", "set_page"}
      BY <2>1, <2>2, PlanOfFive
    <3>. QED
      BY <1>17, <3>1
  <2>6. CASE n = 1
    <3>1. Stage(v) = "scope" /\ Done(v) = {}
      BY <2>5, <2>6
    <3>. QED
      BY <1>14, <2>3, <2>4, <2>6, <3>1 DEF InOrder, Listings, Paged, Clamped, Sets
  <2>7. CASE n = 2
    <3>1. Stage(v) = "count" /\ Done(v) = {"scope"}
      BY <2>5, <2>7
    <3>. QED
      BY <1>14, <2>3, <2>4, <2>7, <3>1 DEF InOrder, Listings, Paged, Clamped, Sets
  <2>8. CASE n = 3
    <3>1. Stage(v) = "list" /\ Done(v) = {"scope", "count"}
      BY <2>5, <2>8
    <3>. QED
      BY <1>14, <2>3, <2>4, <2>8, <3>1 DEF InOrder, Listings, Paged, Clamped, Sets
  <2>9. CASE n = 4
    <3>1. Stage(v) = "set_page" /\ Done(v) = {"scope", "count", "list"}
      BY <2>5, <2>9
    <3>. QED
      BY <1>14, <2>3, <2>4, <2>9, <3>1 DEF InOrder, Listings, Paged, Clamped, Sets
  <2>10. CASE n = 5
    <3>1. Stage(v) = "show" /\ Done(v) = {"scope", "count", "list", "set_page"}
      BY <2>5, <2>10
    <3>. QED
      BY <1>14, <2>3, <2>4, <2>10, <3>1 DEF InOrder, Listings, Paged, Clamped, Sets
  <2>. QED
    BY <2>2, <2>6, <2>7, <2>8, <2>9, <2>10
<1>15. CASE kind = "card"
  <2>1. p = <<"set_product", "set_back", "find", "show">>
    BY <1>15 DEF p, Plan
  <2>2. Len(p) = 4 /\ n \in 1..4
    BY <1>0, <2>1
  <2>3. Len(Plan(v.place, kind)) = 4
    BY <2>2 DEF p
  <2>4. View(kind) = "card"
    BY <1>15 DEF View
  <2>5. \/ n = 1 /\ Stage(v) = "set_product" /\ Done(v) = {}
        \/ n = 2 /\ Stage(v) = "set_back" /\ Done(v) = {"set_product"}
        \/ n = 3 /\ Stage(v) = "find" /\ Done(v) = {"set_product", "set_back"}
        \/ n = 4 /\ Stage(v) = "show" /\ Done(v) = {"set_product", "set_back", "find"}
    <3>1. \/ n = 1 /\ p[n] = "set_product" /\ {p[i] : i \in 1..n - 1} = {}
          \/ n = 2 /\ p[n] = "set_back" /\ {p[i] : i \in 1..n - 1} = {"set_product"}
          \/ n = 3 /\ p[n] = "find" /\ {p[i] : i \in 1..n - 1} = {"set_product", "set_back"}
          \/ n = 4 /\ p[n] = "show" /\ {p[i] : i \in 1..n - 1} = {"set_product", "set_back", "find"}
      BY <2>1, <2>2, PlanOfFour
    <3>. QED
      BY <1>17, <3>1
  <2>6. CASE n = 1
    <3>1. Stage(v) = "set_product" /\ Done(v) = {}
      BY <2>5, <2>6
    <3>. QED
      BY <1>15, <2>3, <2>4, <2>6, <3>1 DEF InOrder, Listings, Paged, Clamped, Sets
  <2>7. CASE n = 2
    <3>1. Stage(v) = "set_back" /\ Done(v) = {"set_product"}
      BY <2>5, <2>7
    <3>. QED
      BY <1>15, <2>3, <2>4, <2>7, <3>1 DEF InOrder, Listings, Paged, Clamped, Sets
  <2>8. CASE n = 3
    <3>1. Stage(v) = "find" /\ Done(v) = {"set_product", "set_back"}
      BY <2>5, <2>8
    <3>. QED
      BY <1>15, <2>3, <2>4, <2>8, <3>1 DEF InOrder, Listings, Paged, Clamped, Sets
  <2>9. CASE n = 4
    <3>1. Stage(v) = "show" /\ Done(v) = {"set_product", "set_back", "find"}
      BY <2>5, <2>9
    <3>. QED
      BY <1>15, <2>3, <2>4, <2>9, <3>1 DEF InOrder, Listings, Paged, Clamped, Sets
  <2>. QED
    BY <2>2, <2>6, <2>7, <2>8, <2>9
<1>16. CASE kind = "refresh"
  <2>1. p = <<"find", "show">>
    BY <1>16 DEF p, Plan
  <2>2. Len(p) = 2 /\ n \in 1..2
    BY <1>0, <2>1
  <2>3. Len(Plan(v.place, kind)) = 2
    BY <2>2 DEF p
  <2>4. View(kind) = "card"
    BY <1>16 DEF View
  <2>5. \/ n = 1 /\ Stage(v) = "find" /\ Done(v) = {}
        \/ n = 2 /\ Stage(v) = "show" /\ Done(v) = {"find"}
    <3>1. \/ n = 1 /\ p[n] = "find" /\ {p[i] : i \in 1..n - 1} = {}
          \/ n = 2 /\ p[n] = "show" /\ {p[i] : i \in 1..n - 1} = {"find"}
      BY <2>1, <2>2, PlanOfTwo
    <3>. QED
      BY <1>17, <3>1
  <2>6. CASE n = 1
    <3>1. Stage(v) = "find" /\ Done(v) = {}
      BY <2>5, <2>6
    <3>. QED
      BY <1>16, <2>3, <2>4, <2>6, <3>1 DEF InOrder, Listings, Paged, Clamped, Sets
  <2>7. CASE n = 2
    <3>1. Stage(v) = "show" /\ Done(v) = {"find"}
      BY <2>5, <2>7
    <3>. QED
      BY <1>16, <2>3, <2>4, <2>7, <3>1 DEF InOrder, Listings, Paged, Clamped, Sets
  <2>. QED
    BY <2>2, <2>6, <2>7
<1>18. CASE kind \in {"dash", "days", "sorts"}
  <2>1. p = <<"show">>
    BY <1>18 DEF p, Plan
  <2>2. Len(p) = 1 /\ n = 1 /\ Stage(v) = "show" /\ Done(v) = {}
    BY <1>0, <1>17, <2>1
  <2>3. View(kind) = kind
    BY <1>18 DEF View
  <2>. QED
    BY <1>18, <2>2, <2>3 DEF InOrder, Listings, Paged, Clamped, Sets, p
<1>19. kind \in Listings \cup {"category", "product", "sorts", "sort", "unsort", "days", "pick", "cat",
                            "pbrand", "return", "card", "refresh", "dash"}
  BY <1>0 DEF Buttons
<1>. QED
  BY <1>19, <1>1, <1>2, <1>3, <1>4, <1>5, <1>6, <1>7, <1>8, <1>9,
     <1>10, <1>11, <1>12, <1>13, <1>14, <1>15, <1>16, <1>18 DEF Listings

-----------------------------------------------------------------------------
(***************************************************************************)
(* The buttons a screen offers.                                            *)
(***************************************************************************)

LEMMA ScreenRows ==
  ASSUME NEW s \in Screens
  PROVE  /\ DOMAIN s.rows = 1..Len(s.rows) /\ Len(s.rows) \in Nat
         /\ \A i \in DOMAIN s.rows : s.rows[i] \in RowsOf(s.kind) /\ s.rows[i] \in Nat \ {0}
         /\ s.kind \in Listings => \A i \in DOMAIN s.rows : s.counts[i] \in Nat
<1>1. /\ s.rows \in Seq(Nat) /\ s.counts \in Seq(Nat) /\ ToSet(s.rows) \subseteq RowsOf(s.kind)
      /\ s.kind \in Listings => Len(s.counts) = Len(s.rows)
  BY DEF Screens
<1>2. DOMAIN s.rows = 1..Len(s.rows) /\ Len(s.rows) \in Nat
  BY <1>1, LenProperties
<1>3. \A i \in DOMAIN s.rows : s.rows[i] \in RowsOf(s.kind)
  BY <1>1 DEF ToSet
<1>4. \A i \in DOMAIN s.rows : s.rows[i] \in Nat \ {0}
  BY <1>3, RowsAreIds
<1>5. ASSUME s.kind \in Listings, NEW i \in DOMAIN s.rows PROVE s.counts[i] \in Nat
  <2>1. i \in 1..Len(s.counts)
    BY <1>1, <1>2, <1>5
  <2>. QED
    BY <1>1, <2>1, ElementOfSeq
<1>. QED
  BY <1>2, <1>3, <1>4, <1>5

LEMMA RowButton ==
  ASSUME NEW s \in Screens, s.kind \in Listings, NEW i \in DOMAIN s.rows, NEW kind,
         kind \in {"category", "product", "shelf", "products", "card", "cat", "pbrand"}
  PROVE  LET b == Row(s, i, kind) IN
         /\ b \in Buttons
         /\ b.kind = kind /\ b.item = s.rows[i] /\ b.promise = s.counts[i] /\ b.page = 1 /\ b.qty = 0
         /\ b.cat = IF kind \in {"category", "cat"} THEN s.rows[i] ELSE s.cat
         /\ b.brand = IF kind \in {"shelf", "products", "pbrand"} THEN s.rows[i] ELSE s.brand
<1>1. s.rows[i] \in Nat /\ s.counts[i] \in Nat /\ s.cat \in Nat /\ s.brand \in Nat
  BY ScreenRows DEF Screens
<1>. DEFINE cat == IF kind \in {"category", "cat"} THEN s.rows[i] ELSE s.cat
            brand == IF kind \in {"shelf", "products", "pbrand"} THEN s.rows[i] ELSE s.brand
            b == Row(s, i, kind)
<1>2. cat \in Nat /\ brand \in Nat
  BY <1>1
<1>3. b = [Button EXCEPT !.kind = kind, !.item = s.rows[i], !.promise = s.counts[i], !.cat = cat,
                         !.brand = brand]
  BY DEF Row
<1>. HIDE DEF cat, brand, b
<1>4. b = [kind |-> kind, cat |-> cat, brand |-> brand, page |-> 1, item |-> s.rows[i], qty |-> 0,
           promise |-> s.counts[i]]
  BY <1>3 DEF Button
<1>5. kind \in Listings \cup {"category", "product", "sorts", "sort", "unsort", "days", "pick", "cat",
                              "pbrand", "return", "card", "refresh", "dash"}
  BY DEF Listings
<1>6. b \in Buttons
  BY <1>1, <1>2, <1>4, <1>5 DEF Buttons
<1>7. /\ b.kind = kind /\ b.item = s.rows[i] /\ b.promise = s.counts[i] /\ b.page = 1 /\ b.qty = 0
      /\ b.cat = cat /\ b.brand = brand
  BY <1>4
<1>. QED
  BY <1>6, <1>7 DEF cat, brand, b

LEMMA ArrowButton ==
  ASSUME NEW s \in Screens, NEW kind \in {"categories", "brands", "products", "page"},
         NEW b \in Arrows(s, kind)
  PROVE  /\ b \in Buttons
         /\ b.kind = kind /\ b.item = 0 /\ b.promise = 0 /\ b.cat = s.cat /\ b.brand = s.brand
         /\ b.page \in {s.page - 1, s.page + 1}
         /\ b.page > s.page => b.page <= (s.total + Size - 1) \div Size
<1>1. PICK p \in {q \in {s.page - 1, s.page + 1} :
                    q >= 1 /\ (q > s.page => q <= (s.total + Size - 1) \div Size)} :
        b = [Button EXCEPT !.kind = kind, !.cat = s.cat, !.brand = s.brand, !.page = p]
  BY DEF Arrows
<1>2. b = [kind |-> kind, cat |-> s.cat, brand |-> s.brand, page |-> p, item |-> 0, qty |-> 0,
           promise |-> 0]
  BY <1>1 DEF Button
<1>3. s.cat \in Nat /\ s.brand \in Nat /\ s.page \in Nat \ {0}
  BY DEF Screens
<1>4. p \in Nat \ {0}
  BY <1>1, <1>3
<1>5. kind \in Listings
  BY DEF Listings
<1>6. kind \in Listings \cup {"category", "product", "sorts", "sort", "unsort", "days", "pick", "cat",
                              "pbrand", "return", "card", "refresh", "dash"}
  BY <1>5
<1>7. b \in Buttons
  BY <1>2, <1>3, <1>4, <1>6 DEF Buttons
<1>8. /\ b.kind = kind /\ b.item = 0 /\ b.promise = 0 /\ b.cat = s.cat /\ b.brand = s.brand
      /\ b.page = p
  BY <1>2
<1>. QED
  BY <1>1, <1>7, <1>8

LEMMA ButtonFields ==
  ASSUME NEW kind, NEW cat \in Nat, NEW brand \in Nat, NEW item \in Nat,
         kind \in Listings \cup {"category", "product", "sorts", "sort", "unsort", "days", "pick", "cat",
                               "pbrand", "return", "card", "refresh", "dash"},
         NEW b, b = [kind |-> kind, cat |-> cat, brand |-> brand, page |-> 1, item |-> item, qty |-> 0,
                     promise |-> 0]
  PROVE  b \in Buttons /\ b.kind = kind /\ b.item = item /\ b.page = 1 /\ b.promise = 0
BY DEF Buttons

\* What a button of a screen says.
LeadsFrom(place, s, b) ==
  /\ place = "shop" => b.kind \in {"categories", "category", "brands", "products", "product"}
  /\ b.kind = "refresh" => s.kind = "card"
  /\ b.page > 1 =>
       /\ b.kind = s.kind /\ b.cat = s.cat /\ b.brand = s.brand
       /\ b.page \in {s.page - 1, s.page + 1}
       /\ b.page > s.page => b.page <= (s.total + Size - 1) \div Size
  /\ b.promise > 0 /\ b.kind \notin {"category", "product", "card"} =>
       \E i \in DOMAIN s.rows :
         /\ b.promise = s.counts[i]
         /\ \/ b.kind = "shelf" /\ s.kind = "brands" /\ b.cat = s.cat /\ b.brand = s.rows[i]
            \/ b.kind = "cat" /\ s.kind = "cats" /\ b.item = s.rows[i]
            \/ b.kind = "pbrand" /\ s.kind = "pbrands" /\ b.item = s.rows[i]

\* A button beside a row.
RowForm(place, s, kind, b) ==
  \E i \in DOMAIN s.rows :
    \/ /\ b = Row(s, i, kind)
       /\ \/ place = "shop" /\ s.kind = "categories" /\ kind = "category"
          \/ place = "shop" /\ s.kind = "products" /\ kind = "product"
          \/ place = "store" /\ s.kind = "brands" /\ kind = "shelf"
          \/ place = "store" /\ s.kind = "shelf" /\ kind = "card"
          \/ place = "store" /\ s.kind = "cats" /\ kind = "cat"
          \/ place = "store" /\ s.kind = "pbrands" /\ kind = "pbrand"
    \/ /\ b = [Row(s, i, kind) EXCEPT !.promise = 0]
       /\ place = "shop" /\ s.kind = "brands" /\ kind = "products"
    \/ /\ b = [Row(s, i, kind) EXCEPT !.qty = Row(s, i, kind).promise, !.promise = 0]
       /\ place = "store" /\ s.kind = "page" /\ kind = "card"

LEMMA RowLeads ==
  ASSUME NEW place \in Places, NEW s \in Screens, NEW kind, NEW b, s.kind \in Listings,
         RowForm(place, s, kind, b)
  PROVE  b \in Buttons /\ Asks(b) /\ LeadsFrom(place, s, b)
<1>1. PICK i \in DOMAIN s.rows :
           \/ /\ b = Row(s, i, kind)
              /\ \/ place = "shop" /\ s.kind = "categories" /\ kind = "category"
                 \/ place = "shop" /\ s.kind = "products" /\ kind = "product"
                 \/ place = "store" /\ s.kind = "brands" /\ kind = "shelf"
                 \/ place = "store" /\ s.kind = "shelf" /\ kind = "card"
                 \/ place = "store" /\ s.kind = "cats" /\ kind = "cat"
                 \/ place = "store" /\ s.kind = "pbrands" /\ kind = "pbrand"
           \/ /\ b = [Row(s, i, kind) EXCEPT !.promise = 0]
              /\ place = "shop" /\ s.kind = "brands" /\ kind = "products"
           \/ /\ b = [Row(s, i, kind) EXCEPT !.qty = Row(s, i, kind).promise, !.promise = 0]
              /\ place = "store" /\ s.kind = "page" /\ kind = "card"
  BY DEF RowForm
<1>. DEFINE w == Row(s, i, kind)
<1>2. /\ w \in Buttons /\ w.kind = kind /\ w.item = s.rows[i] /\ w.promise = s.counts[i] /\ w.page = 1
      /\ w.cat = IF kind \in {"category", "cat"} THEN s.rows[i] ELSE s.cat
      /\ w.brand = IF kind \in {"shelf", "products", "pbrand"} THEN s.rows[i] ELSE s.brand
  <2>1. kind \in {"category", "product", "shelf", "products", "card", "cat", "pbrand"}
    BY <1>1
  <2>. QED
    BY <2>1, RowButton
<1>3. s.rows[i] \in RowsOf(s.kind) /\ s.rows[i] \in Nat \ {0} /\ s.counts[i] \in Nat
  BY ScreenRows
<1>. HIDE DEF w
<1>4. b \in Buttons /\ b.kind = kind /\ b.item = s.rows[i] /\ b.page = 1
  <2>1. CASE b = w
    BY <1>2, <2>1
  <2>2. CASE b = [w EXCEPT !.promise = 0]
    BY <1>2, <2>2 DEF Buttons
  <2>3. CASE b = [w EXCEPT !.qty = w.promise, !.promise = 0]
    BY <1>2, <2>3 DEF Buttons
  <2>. QED
    BY <1>1, <2>1, <2>2, <2>3 DEF w
<1>5. Asks(b)
  <2>1. kind # "pick"
    BY <1>1
  <2>2. kind = "cat" => s.kind = "cats"
    BY <1>1
  <2>3. kind \in {"card", "product"} => s.kind \in {"shelf", "products", "page"}
    BY <1>1
  <2>4. s.kind = "cats" => s.rows[i] \in Cats
    BY <1>3 DEF RowsOf
  <2>5. s.kind \in {"shelf", "products", "page"} => s.rows[i] \in Products
    BY <1>3 DEF RowsOf
  <2>. QED
    BY <1>3, <1>4, <2>1, <2>2, <2>3, <2>4, <2>5 DEF Asks
<1>6. LeadsFrom(place, s, b)
  <2>1. place = "shop" => b.kind \in {"categories", "category", "brands", "products", "product"}
    BY <1>1, <1>4
  <2>2. b.kind # "refresh" /\ ~(b.page > 1)
    BY <1>1, <1>4
  <2>3. ASSUME b.promise > 0, b.kind \notin {"category", "product", "card"}
        PROVE  /\ b.promise = s.counts[i]
               /\ \/ b.kind = "shelf" /\ s.kind = "brands" /\ b.cat = s.cat /\ b.brand = s.rows[i]
                  \/ b.kind = "cat" /\ s.kind = "cats" /\ b.item = s.rows[i]
                  \/ b.kind = "pbrand" /\ s.kind = "pbrands" /\ b.item = s.rows[i]
    <3>1. CASE b = [w EXCEPT !.promise = 0]
      <4>1. b.promise = 0
        BY <1>2, <3>1 DEF Buttons
      <4>. QED
        BY <2>3, <4>1
    <3>2. CASE b = w
      <4>1. b.promise = s.counts[i] /\ b.cat = w.cat /\ b.brand = w.brand
        BY <1>2, <3>2
      <4>2. \/ kind = "shelf" /\ s.kind = "brands"
            \/ kind = "cat" /\ s.kind = "cats"
            \/ kind = "pbrand" /\ s.kind = "pbrands"
            \/ kind = "products"
        BY <1>1, <1>4, <2>3
      <4>3. kind # "products"
        <5>1. ASSUME kind = "products" PROVE b.promise = 0
          <6>1. b = [w EXCEPT !.promise = 0]
            BY <1>1, <5>1 DEF w
          <6>. QED
            BY <1>2, <6>1 DEF Buttons
        <5>. QED
          BY <2>3, <5>1
      <4>. QED
        BY <1>2, <1>4, <4>1, <4>2, <4>3
    <3>. QED
      BY <1>1, <1>4, <2>3, <3>1, <3>2 DEF w
  <2>. QED
    BY <2>1, <2>2, <2>3 DEF LeadsFrom
<1>. QED
  BY <1>4, <1>5, <1>6

LEMMA ArrowLeads ==
  ASSUME NEW place \in Places, NEW s \in Screens, NEW b,
         \/ s.kind \in {"categories", "brands", "products"} /\ b \in Arrows(s, s.kind)
         \/ s.kind = "page" /\ place = "store" /\ b \in Arrows(s, "page")
  PROVE  b \in Buttons /\ Asks(b) /\ LeadsFrom(place, s, b)
<1>1. b \in Arrows(s, s.kind) /\ s.kind \in {"categories", "brands", "products", "page"}
  OBVIOUS
<1>2. /\ b \in Buttons
      /\ b.kind = s.kind /\ b.item = 0 /\ b.promise = 0 /\ b.cat = s.cat /\ b.brand = s.brand
      /\ b.page \in {s.page - 1, s.page + 1}
      /\ b.page > s.page => b.page <= (s.total + Size - 1) \div Size
  BY <1>1, ArrowButton
<1>3. place = "shop" => s.kind # "page"
  OBVIOUS
<1>. QED
  BY <1>1, <1>2, <1>3 DEF Asks, LeadsFrom

LEMMA PlainLeads ==
  ASSUME NEW place \in Places, NEW s \in Screens, NEW kind, NEW b,
         b \in {Goto(kind), In(s.cat, kind), [In(s.cat, kind) EXCEPT !.brand = s.brand]},
         kind \in {"categories", "brands", "products", "category", "shelf", "sorts", "sort", "unsort",
                   "days", "cats", "pbrands", "return", "refresh", "dash"},
         place = "shop" => kind \in {"categories", "brands", "products"},
         kind = "refresh" => s.kind = "card"
  PROVE  b \in Buttons /\ Asks(b) /\ LeadsFrom(place, s, b)
<1>1. s.cat \in Nat /\ s.brand \in Nat
  BY DEF Screens
<1>2. kind \in Listings \cup {"category", "product", "sorts", "sort", "unsort", "days", "pick", "cat",
                              "pbrand", "return", "card", "refresh", "dash"}
  BY DEF Listings
<1>3. Goto(kind) = [kind |-> kind, cat |-> 0, brand |-> 0, page |-> 1, item |-> 0, qty |-> 0,
                    promise |-> 0]
  BY DEF Goto, Button
<1>4. In(s.cat, kind) = [kind |-> kind, cat |-> s.cat, brand |-> 0, page |-> 1, item |-> 0, qty |-> 0,
                         promise |-> 0]
  <2>1. In(s.cat, kind) = [Button EXCEPT !.kind = kind, !.cat = s.cat]
    BY DEF In
  <2>. QED
    BY <2>1, Zenon DEF Button
<1>5. [In(s.cat, kind) EXCEPT !.brand = s.brand] =
        [kind |-> kind, cat |-> s.cat, brand |-> s.brand, page |-> 1, item |-> 0, qty |-> 0,
         promise |-> 0]
  BY <1>4
<1>6. b \in Buttons /\ b.kind = kind /\ b.page = 1 /\ b.promise = 0
  <2>1. CASE b = Goto(kind)
    BY <1>2, <1>3, <2>1, ButtonFields
  <2>2. CASE b = In(s.cat, kind)
    BY <1>1, <1>2, <1>4, <2>2, ButtonFields
  <2>3. CASE b = [In(s.cat, kind) EXCEPT !.brand = s.brand]
    BY <1>1, <1>2, <1>5, <2>3, ButtonFields
  <2>. QED
    BY <2>1, <2>2, <2>3
<1>. QED
  BY <1>6 DEF Asks, LeadsFrom

LEMMA OfferedLeads ==
  ASSUME NEW place \in Places, NEW s \in Screens, NEW b \in Offered(place, s)
  PROVE  b \in Buttons /\ Asks(b) /\ LeadsFrom(place, s, b)
<1>1. ASSUME place = "shop"
      PROVE  \/ s.kind = "categories" /\ b \in Rows(s, "category") \cup Arrows(s, "categories")
             \/ /\ s.kind = "brands"
                /\ b \in {[w EXCEPT !.promise = 0] : w \in Rows(s, "products")} \cup Arrows(s, "brands")
             \/ /\ s.kind = "products"
                /\ b \in Rows(s, "product") \cup Arrows(s, "products") \cup {In(s.cat, "brands")}
             \/ b = [In(s.cat, "products") EXCEPT !.brand = s.brand]
             \/ b = Goto("categories")
  BY <1>1, Zenon DEF Offered, ShopButtons
<1>2. ASSUME place = "store"
      PROVE  \/ b \in {In(c, "category") : c \in Cats}
             \/ /\ s.kind = "brands"
                /\ b \in Rows(s, "shelf") \cup Arrows(s, "brands")
             \/ /\ s.kind = "shelf"
                /\ b \in Rows(s, "card") \cup {Goto("sorts"), In(s.cat, "category")}
             \/ b \in {Goto("sort"), Goto("unsort")}
             \/ b \in {[Button EXCEPT !.kind = "pick", !.item = d] : d \in Days}
             \/ s.kind = "cats" /\ b \in Rows(s, "cat")
             \/ s.kind = "pbrands" /\ b \in Rows(s, "pbrand")
             \/ /\ s.kind = "page"
                /\ b \in {[w EXCEPT !.qty = w.promise, !.promise = 0] : w \in Rows(s, "card")}
                           \cup Arrows(s, "page")
             \/ b \in {Goto("days"), Goto("dash"), Goto("cats"), Goto("pbrands")}
             \/ /\ s.kind = "card"
                /\ b \in {Goto("refresh"), Goto("return"), [In(s.cat, "shelf") EXCEPT !.brand = s.brand]}
  BY <1>2, Zenon DEF Offered, StoreButtons
<1>3. CASE place = "shop"
  <2>1. CASE s.kind = "categories" /\ b \in Rows(s, "category")
    <3>1. RowForm(place, s, "category", b) /\ s.kind \in Listings
      BY <1>3, <2>1 DEF Rows, RowForm, Listings
    <3>. QED
      BY <3>1, RowLeads
  <2>2. CASE s.kind = "brands" /\ b \in {[w EXCEPT !.promise = 0] : w \in Rows(s, "products")}
    <3>1. PICK i \in DOMAIN s.rows : b = [Row(s, i, "products") EXCEPT !.promise = 0]
      BY <2>2 DEF Rows
    <3>2. RowForm(place, s, "products", b) /\ s.kind \in Listings
      BY <1>3, <2>2, <3>1 DEF RowForm, Listings
    <3>. QED
      BY <3>2, RowLeads
  <2>3. CASE s.kind = "products" /\ b \in Rows(s, "product")
    <3>1. RowForm(place, s, "product", b) /\ s.kind \in Listings
      BY <1>3, <2>3 DEF Rows, RowForm, Listings
    <3>. QED
      BY <3>1, RowLeads
  <2>4. CASE s.kind \in {"categories", "brands", "products"} /\ b \in Arrows(s, s.kind)
    BY <2>4, ArrowLeads
  <2>5. CASE b \in {Goto("categories"), In(s.cat, "brands"),
                    [In(s.cat, "products") EXCEPT !.brand = s.brand]}
    BY <2>5, PlainLeads
  <2>. QED
    BY <1>1, <1>3, <2>1, <2>2, <2>3, <2>4, <2>5
<1>4. CASE place = "store"
  <2>1. CASE s.kind = "brands" /\ b \in Rows(s, "shelf")
    <3>1. RowForm(place, s, "shelf", b) /\ s.kind \in Listings
      BY <1>4, <2>1 DEF Rows, RowForm, Listings
    <3>. QED
      BY <3>1, RowLeads
  <2>2. CASE s.kind = "shelf" /\ b \in Rows(s, "card")
    <3>1. RowForm(place, s, "card", b) /\ s.kind \in Listings
      BY <1>4, <2>2 DEF Rows, RowForm, Listings
    <3>. QED
      BY <3>1, RowLeads
  <2>3. CASE s.kind = "cats" /\ b \in Rows(s, "cat")
    <3>1. RowForm(place, s, "cat", b) /\ s.kind \in Listings
      BY <1>4, <2>3 DEF Rows, RowForm, Listings
    <3>. QED
      BY <3>1, RowLeads
  <2>4. CASE s.kind = "pbrands" /\ b \in Rows(s, "pbrand")
    <3>1. RowForm(place, s, "pbrand", b) /\ s.kind \in Listings
      BY <1>4, <2>4 DEF Rows, RowForm, Listings
    <3>. QED
      BY <3>1, RowLeads
  <2>5. CASE s.kind = "page"
             /\ b \in {[w EXCEPT !.qty = w.promise, !.promise = 0] : w \in Rows(s, "card")}
    <3>1. PICK i \in DOMAIN s.rows :
            b = [Row(s, i, "card") EXCEPT !.qty = Row(s, i, "card").promise, !.promise = 0]
      BY <2>5 DEF Rows
    <3>2. RowForm(place, s, "card", b) /\ s.kind \in Listings
      BY <1>4, <2>5, <3>1 DEF RowForm, Listings
    <3>. QED
      BY <3>2, RowLeads
  <2>6. CASE s.kind \in {"brands", "page"} /\ b \in Arrows(s, s.kind)
    BY <1>4, <2>6, ArrowLeads
  <2>7. CASE b \in {Goto("days"), Goto("dash"), Goto("cats"), Goto("pbrands"), Goto("sort"),
                    Goto("unsort"), Goto("sorts"), Goto("return"), In(s.cat, "category"),
                    [In(s.cat, "shelf") EXCEPT !.brand = s.brand]}
    BY <1>4, <2>7, PlainLeads
  <2>8. CASE s.kind = "card" /\ b = Goto("refresh")
    BY <1>4, <2>8, PlainLeads
  <2>9. CASE b \in {[Button EXCEPT !.kind = "pick", !.item = d] : d \in Days}
    <3>1. PICK d \in Days : b = [Button EXCEPT !.kind = "pick", !.item = d]
      BY <2>9
    <3>2. d \in Nat
      BY GoodsFields DEF Days
    <3>3. b = [kind |-> "pick", cat |-> 0, brand |-> 0, page |-> 1, item |-> d, qty |-> 0,
               promise |-> 0]
      BY <3>1, Zenon DEF Button
    <3>4. b \in Buttons /\ b.kind = "pick" /\ b.item = d /\ b.page = 1 /\ b.promise = 0
      BY <3>2, <3>3, ButtonFields
    <3>. QED
      BY <1>4, <3>4 DEF Asks, LeadsFrom
  <2>10. CASE b \in {In(c, "category") : c \in Cats}
    <3>1. PICK c \in Cats : b = In(c, "category")
      BY <2>10
    <3>2. c \in Nat
      BY GoodsAssumption
    <3>3. b = [Button EXCEPT !.kind = "category", !.cat = c]
      BY <3>1 DEF In
    <3>4. b = [kind |-> "category", cat |-> c, brand |-> 0, page |-> 1, item |-> 0, qty |-> 0,
               promise |-> 0]
      BY <3>3, Zenon DEF Button
    <3>5. b \in Buttons /\ b.kind = "category" /\ b.item = 0 /\ b.page = 1 /\ b.promise = 0
      BY <3>2, <3>4, ButtonFields
    <3>. QED
      BY <1>4, <3>5 DEF Asks, LeadsFrom
  <2>. QED
    BY <1>2, <1>4, <2>1, <2>2, <2>3, <2>4, <2>5, <2>6, <2>7, <2>8, <2>9, <2>10
<1>. QED
  BY <1>3, <1>4 DEF Places

-----------------------------------------------------------------------------
(***************************************************************************)
(* The two ways a step leaves the invariant: nobody's readings are to be   *)
(* trusted any more, or only one handler has begun.                        *)
(***************************************************************************)

LEMMA NobodyTrusted ==
  ASSUME Typed', ScreensHonest',
         \A q \in Visitors : /\ Proper(visit'[q])
                             /\ Started(visit'[q]) => ~visit'[q].calm /\ ~visit'[q].fresh,
         \A pl \in Places : ~screen'[pl].fresh \/ screen'[pl].kind = "empty"
  PROVE  SInv'
<1>1. \A q \in Visitors : Started(visit'[q]) => ~Trusted(visit[q])'
  BY DEF Trusted
<1>2. Single' /\ Runnings'
  BY <1>1 DEF Single, Runnings, RunningOf
<1>3. \A pl \in Places : screen'[pl].fresh => screen'[pl].kind = "empty"
  OBVIOUS
<1>4. \A pl \in Places : screen'[pl].fresh => Current(screen[pl])' /\ Agrees(screen[pl])'
  BY <1>3 DEF Current, Agrees, Listings
<1>5. Screenings'
  BY <1>4 DEF Screenings, Kept, Places
<1>. QED
  BY <1>2, <1>5 DEF SInv

LEMMA SoleRun ==
  ASSUME Typed', ScreensHonest', NEW r \in Visitors,
         \A q \in Visitors \ {r} : Proper(visit'[q]) /\ ~Started(visit'[q]),
         RunningOf(visit[r])',
         \A pl \in Places : screen'[pl].fresh => Current(screen[pl])',
         screen'["store"].fresh => IF Started(visit'[r]) THEN Kept(visit[r], screen["store"])'
                                   ELSE Agrees(screen["store"])'
  PROVE  SInv'
<1>1. Single'
  BY DEF Single
<1>2. Runnings'
  <2>1. ASSUME NEW q \in Visitors PROVE RunningOf(visit[q])'
    <3>1. CASE q = r
      BY <3>1
    <3>2. CASE q # r
      BY <3>2 DEF RunningOf
    <3>. QED
      BY <3>1, <3>2
  <2>. QED
    BY <2>1 DEF Runnings
<1>3. Screenings'
  BY DEF Screenings
<1>. QED
  BY <1>1, <1>2, <1>3 DEF SInv

\* A handler whose readings are to be trusted is the only one that has begun.
LEMMA TrustedAlone ==
  ASSUME SInv, NEW r \in Visitors, Started(visit[r]), Trusted(visit[r])
  PROVE  /\ \A q \in Visitors \ {r} : ~Started(visit[q])
         /\ Faithful(visit[r])
BY DEF SInv, Single, Runnings, RunningOf

LEMMA UntrustedAll ==
  ASSUME SInv, NEW r \in Visitors, Started(visit[r]), ~Trusted(visit[r])
  PROVE  /\ \A q \in Visitors : Started(visit[q]) => ~visit[q].calm /\ ~visit[q].fresh
         /\ \A pl \in Places : ~screen[pl].fresh \/ screen[pl].kind = "empty"
<1>1. \A pl \in Places : ~screen[pl].fresh \/ screen[pl].kind = "empty"
  BY DEF Trusted
<1>2. ASSUME NEW q \in Visitors, Started(visit[q]) PROVE ~Trusted(visit[q])
  <2>1. CASE q = r
    BY <2>1
  <2>2. CASE q # r
    BY <1>2, <2>2 DEF SInv, Single
  <2>. QED
    BY <2>1, <2>2
<1>. QED
  BY <1>1, <1>2 DEF Trusted

-----------------------------------------------------------------------------
(***************************************************************************)
(* Updates that arrive and begin to be handled, and what disturbs them.    *)
(***************************************************************************)

LEMMA PlanLength ==
  ASSUME NEW place, NEW kind
  PROVE  1 \in 1..Len(Plan(place, kind))
<1>1. \/ Plan(place, kind) \in {<<"ask", "count", "list", "show">>, <<"count", "list", "show">>,
                                <<"list", "count", "show">>, <<"find", "set_product", "show">>,
                                <<"set_shelf", "list", "show">>,
                                <<"shelf", "set_sort", "list", "show">>, <<"shelf", "list", "show">>}
      \/ Plan(place, kind) \in {<<"set_pick", "scope", "list", "set_cats", "show">>,
                                <<"scope", "list", "set_cats", "show">>,
                                <<"set_cat", "scope", "list", "set_pbrands", "show">>,
                                <<"scope", "list", "set_pbrands", "show">>,
                                <<"set_pbrand", "scope", "count", "list", "set_page", "show">>}
      \/ Plan(place, kind) \in {<<"scope", "count", "list", "set_page", "show">>,
                                <<"set_product", "set_back", "find", "show">>, <<"find", "show">>,
                                <<"show">>}
  BY Zenon DEF Plan
<1>2. \A a, b, c, d, e, f :
        /\ 1 \in 1..Len(<<a>>) /\ 1 \in 1..Len(<<a, b>>) /\ 1 \in 1..Len(<<a, b, c>>)
        /\ 1 \in 1..Len(<<a, b, c, d>>) /\ 1 \in 1..Len(<<a, b, c, d, e>>)
        /\ 1 \in 1..Len(<<a, b, c, d, e, f>>)
  OBVIOUS
<1>. QED
  BY <1>1, <1>2, Zenon

LEMMA NothingDone ==
  ASSUME NEW v, v.step = 1
  PROVE  \A stage : ~Past(v, stage)
<1>1. 1..v.step - 1 = {}
  OBVIOUS
<1>. QED
  BY <1>1 DEF Past, Done

LEMMA BlankType == NoFsm \in Fsms /\ Blank \in Screens /\ Button \in Buttons
<1>1. NoFsm \in Fsms
  BY GoodsAssumption DEF NoFsm, Fsms
<1>2. Button \in Buttons
  BY DEF Button, Buttons
<1>3. Blank \in Screens
  <2>1. <<>> \in Seq(Nat) /\ ToSet(<<>>) = {} /\ IsInjective(<<>>)
    BY DEF ToSet, IsInjective
  <2>. QED
    BY <1>2, <2>1 DEF Blank, Screens, Listings
<1>. QED
  BY <1>1, <1>2, <1>3

LEMMA IdleVisit == NoVisit \in VisitRecords /\ Proper(NoVisit) /\ ~Started(NoVisit)
<1>1. NoVisit \in VisitRecords
  BY BlankType DEF NoVisit, VisitRecords, Places
<1>2. NoVisit.step = 1 /\ NoVisit.at = "idle" /\ NoVisit.rows = <<>> /\ NoVisit.page = 1
      /\ NoVisit.want = Button
  BY DEF NoVisit
<1>3. \A stage : ~Past(NoVisit, stage)
  BY <1>2, NothingDone
<1>4. ToSet(<<>>) = {} /\ IsInjective(<<>>)
  BY DEF ToSet, IsInjective
<1>5. Button.page = 1
  BY DEF Button
<1>6. ~Started(NoVisit)
  BY <1>2 DEF Started
<1>. QED
  BY <1>1, <1>2, <1>3, <1>4, <1>5, <1>6, PlanLength DEF Proper

LEMMA CurrentSame ==
  ASSUME alive' = alive
  PROVE  /\ \A view, x : /\ Found(view, x)' = Found(view, x)
                         /\ Orderings(view, x)' = Orderings(view, x)
         /\ \A view, x, row : Pieces(view, x, row)' = Pieces(view, x, row)
         /\ \A s : Current(s)' <=> Current(s)
         /\ \A day, cat, brand : Bought(day, cat, brand)' = Bought(day, cat, brand)
<1>1. /\ \A day, cat, brand : Bought(day, cat, brand)' = Bought(day, cat, brand)
      /\ \A cat, brand : InShop(cat, brand)' = InShop(cat, brand)
  BY DEF Bought, InShop
<1>2. \A view, x : Found(view, x)' = Found(view, x)
  BY <1>1 DEF Found
<1>3. \A view, x : Orderings(view, x)' = Orderings(view, x)
  BY <1>2 DEF Orderings
<1>4. \A view, x, row : Pieces(view, x, row)' = Pieces(view, x, row)
  BY <1>1 DEF Pieces, Promised
<1>5. \A s : Current(s)' <=> Current(s)
  BY <1>3, <1>4 DEF Current
<1>. QED
  BY <1>1, <1>2, <1>3, <1>4, <1>5

LEMMA RunningSame ==
  ASSUME alive' = alive, fsm' = fsm, strayed' = strayed, screen' = screen
  PROVE  /\ \A s : Agrees(s)' <=> Agrees(s)
         /\ \A v, s : Kept(v, s)' <=> Kept(v, s)
         /\ \A v : (Trusted(v)' <=> Trusted(v)) /\ (RunningOf(v)' <=> RunningOf(v))
<1>1. \A s : Agrees(s)' <=> Agrees(s)
  BY CurrentSame DEF Agrees
<1>2. \A v, s : Kept(v, s)' <=> Kept(v, s)
  BY <1>1 DEF Kept
<1>3. \A v : Trusted(v)' <=> Trusted(v)
  BY DEF Trusted
<1>4. \A v : Faithful(v)' <=> Faithful(v)
  <2>1. \A name, v : Patched(name, v)' = Patched(name, v)
    BY DEF Patched
  <2>. QED
    BY <2>1, CurrentSame DEF Faithful
<1>5. \A v : RunningOf(v)' <=> RunningOf(v)
  BY <1>2, <1>3, <1>4, CurrentSame DEF RunningOf
<1>. QED
  BY <1>1, <1>2, <1>3, <1>5

LEMMA HonestSame ==
  ASSUME ScreensHonest, strayed' = strayed \/ strayed'
  PROVE  \A s : TrueToButton(s) => TrueToButton(s)'
BY DEF TrueToButton

LEMMA VisitKeeps ==
  ASSUME SInv, NEW r \in Visitors, NEW place \in Places, Visit(r, place)
  PROVE  SInv'
<1>1. PICK b \in Offered(place, screen[place]) :
        visit' = [visit EXCEPT ![r] = [NoVisit EXCEPT !.at = "queued", !.place = place, !.want = b,
                                                      !.asked = screen[place], !.page = b.page]]
  BY DEF Visit, Offered, Places
<1>2. alive' = alive /\ fsm' = fsm /\ screen' = screen /\ strayed' = strayed
  BY DEF Visit
<1>. DEFINE y == [NoVisit EXCEPT !.at = "queued", !.place = place, !.want = b,
                                 !.asked = screen[place], !.page = b.page]
<1>3. visit \in [Visitors -> VisitRecords] /\ screen[place] \in Screens
  BY DEF SInv, Typed
<1>4. b \in Buttons /\ Asks(b)
  BY <1>3, OfferedLeads
<1>5. /\ y.at = "queued" /\ y.place = place /\ y.want = b /\ y.asked = screen[place] /\ y.page = b.page
      /\ y.step = 1 /\ y.rows = <<>>
  BY DEF NoVisit
<1>6. y \in VisitRecords
  BY <1>3, <1>4, IdleVisit DEF VisitRecords, Buttons
<1>7. visit'[r] = y /\ \A q \in Visitors \ {r} : visit'[q] = visit[q]
  BY <1>1, <1>3
<1>. HIDE DEF y
<1>8. ~Started(y) /\ Proper(y)
  <2>1. \A stage : ~Past(y, stage)
    BY <1>5, NothingDone
  <2>2. ToSet(<<>>) = {} /\ IsInjective(<<>>)
    BY DEF ToSet, IsInjective
  <2>3. ~Started(y)
    BY <1>5 DEF Started
  <2>. QED
    BY <1>1, <1>4, <1>5, <2>1, <2>2, <2>3, PlanLength DEF Proper
<1>9. Typed'
  BY <1>1, <1>2, <1>3, <1>6 DEF SInv, Typed, y
<1>10. \A q \in Visitors : RunningOf(visit[q])'
  <2>1. ASSUME NEW q \in Visitors, q # r PROVE RunningOf(visit[q])'
    BY <1>2, <1>7, <2>1, RunningSame DEF SInv, Runnings
  <2>2. RunningOf(visit[r])'
    BY <1>7, <1>8 DEF RunningOf
  <2>. QED
    BY <2>1, <2>2
<1>11. Single'
  <2>1. ASSUME NEW p \in Visitors, NEW q \in Visitors, p # q, Started(visit'[p]), Started(visit'[q])
        PROVE  ~Trusted(visit[p])'
    <3>1. p # r /\ q # r
      BY <1>7, <1>8, <2>1
    <3>2. visit'[p] = visit[p] /\ visit'[q] = visit[q]
      BY <1>7, <3>1
    <3>. QED
      BY <1>2, <2>1, <3>2, RunningSame DEF SInv, Single
  <2>. QED
    BY <2>1 DEF Single
<1>12. ScreensHonest'
  BY <1>2 DEF SInv, ScreensHonest, TrueToButton
<1>13. Screenings'
  <2>1. \A q \in Visitors : Started(visit'[q]) => visit'[q] = visit[q]
    BY <1>7, <1>8
  <2>2. (\A q \in Visitors : ~Started(visit'[q])) => \A q \in Visitors : ~Started(visit[q])
    <3>1. ~Started(visit[r])
      BY DEF Visit, Started
    <3>. QED
      BY <1>7, <3>1
  <2>3. Screenings
    BY DEF SInv
  <2>4. \A pl \in Places : screen'[pl].fresh => Current(screen[pl])'
    BY <1>2, <2>3, CurrentSame DEF Screenings
  <2>5. ASSUME screen'["store"].fresh
        PROVE  /\ \A q \in Visitors : Started(visit'[q]) => Kept(visit[q], screen["store"])'
               /\ (\A q \in Visitors : ~Started(visit'[q])) => Agrees(screen["store"])'
    BY <1>2, <2>1, <2>2, <2>3, <2>5, RunningSame DEF Screenings
  <2>. QED
    BY <2>4, <2>5 DEF Screenings
<1>. QED
  BY <1>9, <1>10, <1>11, <1>12, <1>13 DEF SInv, Runnings

LEMMA StaleScreen ==
  ASSUME NEW s \in Screens, NEW t, t = [s EXCEPT !.fresh = FALSE]
  PROVE  t \in Screens /\ ~t.fresh /\ (TrueToButton(s) => TrueToButton(t))
<1>1. /\ t.kind = s.kind /\ t.day = s.day /\ t.cat = s.cat /\ t.brand = s.brand /\ t.page = s.page
      /\ t.total = s.total /\ t.rows = s.rows /\ t.counts = s.counts /\ t.qty = s.qty
      /\ t.calm = s.calm /\ t.sure = s.sure /\ t.by = s.by /\ t.before = s.before /\ ~t.fresh
  BY DEF Screens
<1>2. t \in Screens
  BY DEF Screens
<1>. QED
  BY <1>1, <1>2 DEF TrueToButton, Held

LEMMA AllStale ==
  ASSUME Typed, ScreensHonest, screen' = Stale, strayed' = strayed
  PROVE  /\ screen' \in [Places -> Screens] /\ ScreensHonest'
         /\ \A pl \in Places : ~screen'[pl].fresh
<1>1. ASSUME NEW pl \in Places
      PROVE  screen'[pl] \in Screens /\ ~screen'[pl].fresh /\ TrueToButton(screen[pl])'
  <2>1. screen'[pl] = [screen[pl] EXCEPT !.fresh = FALSE] /\ screen[pl] \in Screens
    BY DEF Stale, Typed
  <2>2. TrueToButton(screen[pl])
    BY DEF ScreensHonest
  <2>3. screen'[pl] \in Screens /\ ~screen'[pl].fresh /\ TrueToButton(screen'[pl])
    BY <2>1, <2>2, StaleScreen
  <2>4. TrueToButton(screen'[pl]) => TrueToButton(screen[pl])'
    BY HonestSame
  <2>. QED
    BY <2>3, <2>4
<1>2. screen' = [pl \in Places |-> screen'[pl]]
  BY DEF Stale
<1>. QED
  BY <1>1, <1>2 DEF ScreensHonest

LEMMA SameStages ==
  ASSUME NEW v, NEW w, w.at = v.at, w.place = v.place, w.want = v.want, w.asked = v.asked,
         w.step = v.step, w.scope = v.scope, w.page = v.page, w.total = v.total, w.rows = v.rows,
         w.counts = v.counts, w.mem = v.mem
  PROVE  /\ Proper(v) => Proper(w)
         /\ Faithful(v) => Faithful(w)
         /\ Started(w) <=> Started(v)
         /\ \A stage : Past(w, stage) <=> Past(v, stage)
<1>1. Done(w) = Done(v) /\ Stage(w) = Stage(v) /\ Subject(w) = Subject(v)
  BY DEF Done, Stage, Subject
<1>2. \A stage : Past(w, stage) <=> Past(v, stage)
  BY <1>1 DEF Past
<1>3. Started(w) <=> Started(v)
  BY DEF Started
<1>4. Proper(v) => Proper(w)
  BY <1>1, <1>2, <1>3 DEF Proper
<1>5. Faithful(v) => Faithful(w)
  <2>1. \A name : Patched(name, w) = Patched(name, v)
    BY DEF Patched
  <2>. QED
    BY <1>1, <1>2, <2>1 DEF Faithful
<1>. QED
  BY <1>2, <1>3, <1>4, <1>5

LEMMA DisturbedVisit ==
  ASSUME NEW v \in VisitRecords, Proper(v)
  PROVE  /\ Disturbed(v) \in VisitRecords /\ Proper(Disturbed(v))
         /\ ~Disturbed(v).calm /\ ~Disturbed(v).fresh
         /\ Started(Disturbed(v)) <=> Started(v)
<1>. DEFINE w == Disturbed(v)
<1>1. /\ w.at = v.at /\ w.place = v.place /\ w.want = v.want /\ w.asked = v.asked
      /\ w.step = v.step /\ w.scope = v.scope /\ w.page = v.page /\ w.total = v.total
      /\ w.rows = v.rows /\ w.counts = v.counts /\ w.mem = v.mem /\ ~w.calm /\ ~w.fresh
  BY DEF Disturbed, VisitRecords
<1>2. w \in VisitRecords
  BY DEF Disturbed, VisitRecords
<1>. HIDE DEF w
<1>3. Proper(w) /\ (Started(w) <=> Started(v))
  BY <1>1, SameStages
<1>. QED
  BY <1>1, <1>2, <1>3 DEF w

LEMMA DisturbKeeps ==
  ASSUME SInv, Disturb, alive' \subseteq alive, fsm' \in Fsms
  PROVE  SInv'
<1>1. Typed /\ ScreensHonest /\ \A q \in Visitors : Proper(visit[q])
  BY DEF SInv, Runnings, RunningOf
<1>2. /\ screen' = Stale /\ strayed' = strayed
      /\ visit' = [q \in Visitors |-> Disturbed(visit[q])]
  BY DEF Disturb
<1>3. /\ screen' \in [Places -> Screens] /\ ScreensHonest'
      /\ \A pl \in Places : ~screen'[pl].fresh
  BY <1>1, <1>2, AllStale
<1>4. ASSUME NEW q \in Visitors
      PROVE  visit'[q] \in VisitRecords /\ Proper(visit'[q]) /\ ~visit'[q].calm /\ ~visit'[q].fresh
  <2>1. visit[q] \in VisitRecords /\ visit'[q] = Disturbed(visit[q])
    BY <1>1, <1>2 DEF Typed
  <2>. QED
    BY <1>1, <2>1, DisturbedVisit
<1>5. Typed'
  BY <1>1, <1>2, <1>3, <1>4 DEF Typed
<1>. QED
  BY <1>3, <1>4, <1>5, NobodyTrusted

LEMMA DeleteProductKeeps ==
  ASSUME SInv, DeleteProduct
  PROVE  SInv'
<1>1. alive' \subseteq alive /\ fsm' = fsm /\ Disturb
  BY DEF DeleteProduct
<1>2. fsm \in Fsms
  BY DEF SInv, Typed
<1>. QED
  BY <1>1, <1>2, DisturbKeeps

LEMMA ClearFsmKeeps ==
  ASSUME SInv, ClearFsm
  PROVE  SInv'
BY BlankType, DisturbKeeps DEF ClearFsm

LEMMA StartVisitKeeps ==
  ASSUME SInv, NEW r \in Visitors, StartVisit(r)
  PROVE  SInv'
<1>. DEFINE v == visit[r]
            others == {q \in Visitors \ {r} : visit[q].at \notin {"idle", "queued"}}
            same == screen[visit[r].place] = visit[r].asked /\ visit[r].asked.fresh
            began == [visit EXCEPT ![r].at = "on", ![r].fresh = same]
            y == began[r]
<1>1. /\ v.at = "queued" /\ alive' = alive /\ fsm' = fsm /\ strayed' = strayed
      /\ IF others = {} THEN visit' = began /\ screen' = screen
         ELSE /\ visit' = [q \in Visitors |-> IF q \in others \cup {r} THEN Disturbed(began[q])
                                              ELSE began[q]]
              /\ screen' = Stale
  BY DEF StartVisit
<1>2. Typed /\ ScreensHonest /\ \A q \in Visitors : Proper(visit[q])
  BY DEF SInv, Runnings, RunningOf
<1>3. visit \in [Visitors -> VisitRecords] /\ v \in VisitRecords /\ v.asked \in Screens
      /\ v.place \in Places /\ screen \in [Places -> Screens]
  BY <1>2 DEF Typed, VisitRecords
<1>4. same \in BOOLEAN
  OBVIOUS
<1>5. /\ y.at = "on" /\ y.place = v.place /\ y.want = v.want /\ y.asked = v.asked
      /\ y.step = v.step /\ y.scope = v.scope /\ y.page = v.page /\ y.total = v.total
      /\ y.rows = v.rows /\ y.counts = v.counts /\ y.mem = v.mem /\ y.calm = v.calm
      /\ y.fresh = same
  BY <1>3 DEF VisitRecords
<1>6. y \in VisitRecords /\ \A q \in Visitors \ {r} : began[q] = visit[q]
  BY <1>3, <1>4 DEF VisitRecords
<1>7. began = [visit EXCEPT ![r] = y]
  BY <1>3
<1>8. \A q \in Visitors \ {r} : Started(visit[q]) <=> q \in others
  BY DEF Started
<1>. HIDE DEF same, began, y, others
<1>9. v.step = 1 /\ Proper(v)
  <2>1. ~Started(v)
    BY <1>1 DEF Started
  <2>. QED
    BY <1>2, <2>1 DEF Proper
<1>10. Proper(y) /\ Started(y) /\ \A stage : ~Past(y, stage)
  <2>1. \A stage : ~Past(y, stage) /\ ~Past(v, stage)
    BY <1>5, <1>9, NothingDone
  <2>2. Started(y) /\ y.at = "on"
    BY <1>5 DEF Started
  <2>. QED
    BY <1>1, <1>5, <1>9, <2>1, <2>2 DEF Proper
<1>11. CASE others # {}
  <2>1. /\ screen' \in [Places -> Screens] /\ ScreensHonest'
        /\ \A pl \in Places : ~screen'[pl].fresh
    BY <1>1, <1>2, <1>11, AllStale
  <2>2. ASSUME NEW q \in Visitors
        PROVE  /\ visit'[q] \in VisitRecords /\ Proper(visit'[q])
               /\ Started(visit'[q]) => ~visit'[q].calm /\ ~visit'[q].fresh
    <3>1. began[q] \in VisitRecords /\ Proper(began[q])
      BY <1>2, <1>3, <1>6, <1>10 DEF y
    <3>2. visit'[q] = IF q \in others \cup {r} THEN Disturbed(began[q]) ELSE began[q]
      BY <1>1, <1>11
    <3>3. CASE q \in others \cup {r}
      BY <3>1, <3>2, <3>3, DisturbedVisit
    <3>4. CASE q \notin others \cup {r}
      BY <1>6, <1>8, <3>1, <3>2, <3>4
    <3>. QED
      BY <3>3, <3>4
  <2>3. Typed'
    BY <1>1, <1>2, <1>11, <2>1, <2>2 DEF Typed
  <2>. QED
    BY <2>1, <2>2, <2>3, NobodyTrusted
<1>12. CASE others = {}
  <2>1. visit' = began /\ screen' = screen
    BY <1>1, <1>12
  <2>2. visit'[r] = y /\ \A q \in Visitors \ {r} : visit'[q] = visit[q]
    BY <1>3, <1>6, <1>7, <2>1
  <2>3. \A q \in Visitors \ {r} : Proper(visit'[q]) /\ ~Started(visit'[q])
    BY <1>2, <1>8, <1>12, <2>2
  <2>4. Typed'
    BY <1>1, <1>2, <1>3, <1>6, <1>7, <2>1 DEF Typed
  <2>5. ScreensHonest'
    BY <1>1, <1>2, <2>1 DEF ScreensHonest, TrueToButton
  <2>6. ~Started(visit[r]) /\ Screenings
    BY <1>1 DEF Started, SInv
  <2>7. \A q \in Visitors : ~Started(visit[q])
    BY <1>8, <1>12, <2>6
  <2>8. screen["store"].fresh => Agrees(screen["store"])
    BY <2>6, <2>7 DEF Screenings
  <2>9. /\ \A pl \in Places : screen'[pl].fresh => Current(screen[pl])'
        /\ screen'["store"].fresh => Agrees(screen["store"])'
    BY <1>1, <2>1, <2>6, <2>8, CurrentSame, RunningSame DEF Screenings
  <2>10. \A s : Agrees(s)' => Kept(visit[r], s)'
    BY DEF Kept
  <2>11. RunningOf(visit[r])'
    <3>1. Faithful(visit[r])'
      <4>1. \A w : w.at = "on" /\ (\A stage : ~Past(w, stage)) => Faithful(w)'
        BY DEF Faithful
      <4>. QED
        BY <1>5, <1>10, <2>2, <4>1
    <3>2. ASSUME visit'[r].fresh
          PROVE  /\ Current(visit[r].asked)'
                 /\ visit'[r].place = "store" => Kept(visit[r], visit[r].asked)'
      <4>1. PICK place \in Places : place = v.place
        BY <1>3
      <4>2. screen[place] = y.asked /\ y.asked.fresh
        BY <1>5, <2>2, <3>2, <4>1 DEF same
      <4>3. screen'[place] = visit'[r].asked /\ screen'[place].fresh
        BY <2>1, <2>2, <4>2
      <4>4. Current(screen[place])' /\ (place = "store" => Agrees(screen[place])')
        BY <2>9, <4>3
      <4>. QED
        BY <1>5, <2>2, <2>10, <4>1, <4>3, <4>4
    <3>3. Proper(visit'[r])
      BY <1>10, <2>2
    <3>. QED
      BY <3>1, <3>2, <3>3 DEF RunningOf
  <2>. QED
    BY <1>10, <2>2, <2>3, <2>4, <2>5, <2>9, <2>10, <2>11, SoleRun
<1>. QED
  BY <1>11, <1>12

-----------------------------------------------------------------------------
(***************************************************************************)
(* A handler goes on to its next stage, or ends.                           *)
(***************************************************************************)

LEMMA OnKeeps ==
  ASSUME SInv, NEW r \in Visitors, Started(visit[r]), NEW y \in VisitRecords,
         visit' = [visit EXCEPT ![r] = y], alive' = alive, screen' = screen,
         fsm' \in Fsms, strayed' \in BOOLEAN, strayed' = strayed \/ strayed',
         Started(y), Proper(y), y.calm = visit[r].calm, y.fresh = visit[r].fresh,
         y.place = visit[r].place, y.asked = visit[r].asked,
         Trusted(visit[r]) => /\ Faithful(visit[r])'
                              /\ \A s : Kept(visit[r], s) => Kept(visit[r], s)'
  PROVE  SInv'
<1>1. Typed /\ ScreensHonest /\ Screenings /\ \A q \in Visitors : RunningOf(visit[q]) /\ Proper(visit[q])
  BY DEF SInv, Runnings, RunningOf
<1>2. visit'[r] = y /\ \A q \in Visitors \ {r} : visit'[q] = visit[q]
  BY <1>1 DEF Typed
<1>3. Typed'
  BY <1>1 DEF Typed
<1>4. ScreensHonest'
  BY <1>1, HonestSame DEF ScreensHonest
<1>5. CASE Trusted(visit[r])
  <2>1. \A q \in Visitors \ {r} : Proper(visit'[q]) /\ ~Started(visit'[q])
    BY <1>1, <1>2, <1>5, TrustedAlone
  <2>2. \A pl \in Places : screen'[pl].fresh => Current(screen[pl])'
    BY <1>1, CurrentSame DEF Screenings
  <2>3. screen'["store"].fresh => Kept(visit[r], screen["store"])'
    <3>1. screen["store"].fresh => Kept(visit[r], screen["store"])
      BY <1>1 DEF Screenings
    <3>. QED
      BY <1>5, <3>1
  <2>4. RunningOf(visit[r])'
    <3>1. ASSUME y.fresh PROVE Current(y.asked)' /\ (y.place = "store" => Kept(visit[r], y.asked))
      BY <1>1, <3>1, CurrentSame DEF RunningOf
    <3>2. ASSUME visit'[r].fresh
          PROVE  /\ Current(visit[r].asked)'
                 /\ visit'[r].place = "store" => Kept(visit[r], visit[r].asked)'
      <4>1. PICK s : s = visit[r].asked
        OBVIOUS
      <4>2. Current(s) /\ (y.place = "store" => Kept(visit[r], s))
        BY <1>1, <1>2, <3>2, <4>1 DEF RunningOf
      <4>3. Current(s)' /\ (y.place = "store" => Kept(visit[r], s)')
        BY <1>5, <4>2, CurrentSame
      <4>4. visit'[r].asked = s
        BY <1>2, <4>1
      <4>. QED
        BY <1>2, <4>3, <4>4
    <3>. QED
      BY <1>2, <1>5, <3>2 DEF RunningOf
  <2>. QED
    BY <1>2, <1>3, <1>4, <2>1, <2>2, <2>3, <2>4, SoleRun
<1>6. CASE ~Trusted(visit[r])
  <2>1. /\ \A q \in Visitors : Started(visit[q]) => ~visit[q].calm /\ ~visit[q].fresh
        /\ \A pl \in Places : ~screen[pl].fresh \/ screen[pl].kind = "empty"
    BY <1>6, UntrustedAll
  <2>2. \A q \in Visitors : /\ Proper(visit'[q])
                            /\ Started(visit'[q]) => ~visit'[q].calm /\ ~visit'[q].fresh
    BY <1>1, <1>2, <2>1
  <2>. QED
    BY <1>3, <1>4, <2>1, <2>2, NobodyTrusted
<1>. QED
  BY <1>5, <1>6

LEMMA EndKeeps ==
  ASSUME SInv, NEW r \in Visitors, Started(visit[r]),
         visit' = [visit EXCEPT ![r] = NoVisit], alive' = alive, fsm' = fsm, strayed' = strayed,
         screen' \in [Places -> Screens], ScreensHonest',
         \A pl \in Places : screen'[pl].fresh /\ screen'[pl].kind # "empty" => Trusted(visit[r]),
         Trusted(visit[r]) => /\ \A pl \in Places : screen'[pl].fresh => Current(screen[pl])'
                              /\ screen'["store"].fresh => Agrees(screen["store"])'
  PROVE  SInv'
<1>1. Typed /\ \A q \in Visitors : Proper(visit[q])
  BY DEF SInv, Runnings, RunningOf
<1>2. visit'[r] = NoVisit /\ \A q \in Visitors \ {r} : visit'[q] = visit[q]
  BY <1>1 DEF Typed
<1>3. Typed'
  BY <1>1, IdleVisit DEF Typed
<1>4. CASE Trusted(visit[r])
  <2>1. \A q \in Visitors \ {r} : Proper(visit'[q]) /\ ~Started(visit'[q])
    BY <1>1, <1>2, <1>4, TrustedAlone
  <2>2. RunningOf(visit[r])' /\ ~Started(visit'[r])
    BY <1>2, IdleVisit DEF RunningOf
  <2>. QED
    BY <1>3, <1>4, <2>1, <2>2, SoleRun
<1>5. CASE ~Trusted(visit[r])
  <2>1. \A q \in Visitors : Started(visit[q]) => ~visit[q].calm /\ ~visit[q].fresh
    BY <1>5, UntrustedAll
  <2>2. \A q \in Visitors : /\ Proper(visit'[q])
                            /\ Started(visit'[q]) => ~visit'[q].calm /\ ~visit'[q].fresh
    BY <1>1, <1>2, <2>1, IdleVisit
  <2>. QED
    BY <1>3, <1>5, <2>2, NobodyTrusted
<1>. QED
  BY <1>4, <1>5

\* An alert in the middle of a handler that has written must not leave the FSM
\* data to a screen they are not about.
LEMMA AlertKeeps ==
  ASSUME SInv, NEW r \in Visitors, Started(visit[r]), Alert(r),
         /\ Faithful(visit[r]) /\ Dirty(visit[r]) /\ screen["store"].kind \in Breaks(visit[r].want.kind)
         => Agrees(screen["store"])
  PROVE  SInv'
<1>1. /\ visit' = [visit EXCEPT ![r] = NoVisit] /\ alive' = alive /\ fsm' = fsm /\ screen' = screen
      /\ strayed' = strayed
  BY DEF Alert
<1>2. screen \in [Places -> Screens] /\ Screenings /\ ScreensHonest
  BY DEF SInv, Typed
<1>3. ScreensHonest'
  BY <1>1, <1>2, HonestSame DEF ScreensHonest
<1>4. \A pl \in Places : screen'[pl].fresh /\ screen'[pl].kind # "empty" => Trusted(visit[r])
  BY <1>1 DEF Trusted
<1>5. ASSUME Trusted(visit[r])
      PROVE  /\ \A pl \in Places : screen'[pl].fresh => Current(screen[pl])'
             /\ screen'["store"].fresh => Agrees(screen["store"])'
  <2>1. \A pl \in Places : screen'[pl].fresh => Current(screen[pl])'
    BY <1>1, <1>2, CurrentSame DEF Screenings
  <2>2. Faithful(visit[r])
    BY <1>5, TrustedAlone
  <2>3. screen["store"].fresh => Agrees(screen["store"])
    BY <1>2, <2>2 DEF Screenings, Kept
  <2>. QED
    BY <1>1, <2>1, <2>3, RunningSame
<1>. QED
  BY <1>1, <1>2, <1>3, <1>4, <1>5, EndKeeps

-----------------------------------------------------------------------------
(***************************************************************************)
(* A handler's stages, one by one.                                         *)
(***************************************************************************)

LEMMA FaithfulSame ==
  ASSUME alive' = alive, fsm' = fsm
  PROVE  \A v : Faithful(v)' <=> Faithful(v)
<1>1. /\ \A view, x : /\ Found(view, x)' = Found(view, x)
                      /\ Orderings(view, x)' = Orderings(view, x)
      /\ \A view, x, row : Pieces(view, x, row)' = Pieces(view, x, row)
  BY CurrentSame
<1>2. \A name, v : Patched(name, v)' = Patched(name, v)
  BY DEF Patched
<1>. QED
  BY <1>1, <1>2 DEF Faithful

\* A record of a run that has come a stage further than v.
OneOn(w) == [w EXCEPT !.step = @ + 1]

LEMMA Onward ==
  ASSUME NEW v \in VisitRecords, Proper(v), Stage(v) # "show",
         NEW w \in VisitRecords, w.place = v.place, w.want = v.want, w.step = v.step,
         NEW y, y = OneOn(w)
  PROVE  /\ y \in VisitRecords /\ y.step \in 1..Len(Plan(y.place, y.want.kind))
         /\ y.at = w.at /\ y.place = w.place /\ y.want = w.want /\ y.asked = w.asked
         /\ y.fresh = w.fresh /\ y.calm = w.calm /\ y.scope = w.scope /\ y.page = w.page
         /\ y.total = w.total /\ y.rows = w.rows /\ y.counts = w.counts /\ y.mem = w.mem
         /\ \A x : Past(y, x) <=> Past(v, x) \/ x = Stage(v)
         /\ Subject(y) = Subject(w)
<1>1. /\ y.at = w.at /\ y.place = w.place /\ y.want = w.want /\ y.asked = w.asked
      /\ y.fresh = w.fresh /\ y.calm = w.calm /\ y.scope = w.scope /\ y.page = w.page
      /\ y.total = w.total /\ y.rows = w.rows /\ y.counts = w.counts /\ y.mem = w.mem
      /\ y.step = w.step + 1
  BY Zenon DEF VisitRecords, OneOn
<1>2. y \in VisitRecords
  <2>1. w.step + 1 \in Nat \ {0}
    BY DEF VisitRecords
  <2>2. PICK n \in Nat \ {0} : n = w.step + 1
    BY <2>1
  <2>3. y = [w EXCEPT !.step = n]
    BY <2>2 DEF OneOn
  <2>. QED
    BY <2>3, Zenon DEF VisitRecords
<1>3. /\ v.want \in Buttons /\ v.step \in 1..Len(Plan(v.place, v.want.kind))
  BY DEF Proper, VisitRecords
<1>4. v.step # Len(Plan(v.place, v.want.kind))
  BY <1>3, StagesInOrder DEF InOrder
<1>5. y.step \in 1..Len(Plan(y.place, y.want.kind))
  BY <1>1, <1>3, <1>4
<1>6. \A x : Past(y, x) <=> Past(v, x) \/ x = Stage(v)
  <2>1. PICK n : n = v.step
    OBVIOUS
  <2>2. n \in Nat /\ 1..(n + 1) - 1 = 1..n - 1 \cup {n}
    BY <1>3, <2>1
  <2>3. PICK p : p = Plan(v.place, v.want.kind)
    OBVIOUS
  <2>4. Done(v) = {p[i] : i \in 1..n - 1} /\ Stage(v) = p[n]
    BY <2>1, <2>3 DEF Done, Stage
  <2>5. Done(y) = {p[i] : i \in 1..(n + 1) - 1}
    BY <1>1, <2>1, <2>3 DEF Done
  <2>6. Done(y) = Done(v) \cup {p[n]}
    BY <2>2, <2>4, <2>5
  <2>. QED
    BY <2>4, <2>6 DEF Past
<1>7. Subject(y) = Subject(w)
  BY <1>1 DEF Subject
<1>. QED
  BY <1>1, <1>2, <1>5, <1>6, <1>7

\* A stage that has read something, without an update of the FSM data.
LEMMA ReadingKeeps ==
  ASSUME SInv, NEW r \in Visitors, NEW v, v = visit[r], v.at = "on", Stage(v) # "show",
         NEW w \in VisitRecords, On(r, w),
         w.at = v.at, w.place = v.place, w.want = v.want, w.asked = v.asked, w.fresh = v.fresh,
         w.calm = v.calm, w.step = v.step,
         NEW y, y = OneOn(w),
         Proper(y), Trusted(v) => Faithful(y)
  PROVE  SInv'
<1>1. Typed /\ Proper(v) /\ v \in VisitRecords
  BY DEF SInv, Runnings, RunningOf, Typed
<1>2. /\ visit' = [visit EXCEPT ![r] = y] /\ alive' = alive /\ fsm' = fsm /\ screen' = screen
      /\ strayed' = strayed
  BY DEF On, OneOn
<1>3. /\ y \in VisitRecords /\ y.at = w.at /\ y.place = v.place /\ y.want = v.want
      /\ y.asked = v.asked /\ y.fresh = v.fresh /\ y.calm = v.calm
      /\ \A x : Past(y, x) <=> Past(v, x) \/ x = Stage(v)
  BY <1>1, Onward
<1>4. Started(visit[r]) /\ Started(y)
  BY <1>3 DEF Started
<1>5. visit'[r] = y
  BY <1>1, <1>2 DEF Typed
<1>6. ASSUME Trusted(visit[r])
      PROVE  Faithful(visit[r])' /\ \A s : Kept(visit[r], s) => Kept(visit[r], s)'
  <2>1. \A u : Faithful(u)' <=> Faithful(u)
    BY <1>2, FaithfulSame
  <2>2. Dirty(v) => Dirty(y)
    BY <1>3 DEF Dirty
  <2>3. \A s : Agrees(s)' <=> Agrees(s)
    BY <1>2, RunningSame
  <2>4. \A s : Kept(v, s) => Kept(y, s)'
    BY <1>3, <2>2, <2>3 DEF Kept, Dirty, Past
  <2>. QED
    BY <1>5, <1>6, <2>1, <2>4
<1>. QED
  BY <1>1, <1>2, <1>3, <1>4, <1>6, OnKeeps DEF Typed

LEMMA BreaksNothing ==
  ASSUME NEW kind, kind \notin {"pick", "cat", "cats", "pbrand", "pbrands", "card"}
  PROVE  Breaks(kind) = {}
BY DEF Breaks

\* A run ends with a new screen in its place.
LEMMA ScreenKeeps ==
  ASSUME SInv, NEW r \in Visitors, Started(visit[r]), NEW place \in Places, place = visit[r].place,
         NEW e \in Screens, screen' = [screen EXCEPT ![place] = e],
         visit' = [visit EXCEPT ![r] = NoVisit], alive' = alive, fsm' = fsm, strayed' = strayed,
         TrueToButton(e), e.fresh /\ e.kind # "empty" => Trusted(visit[r]),
         Trusted(visit[r]) /\ e.fresh => Current(e) /\ (place = "store" => Agrees(e)),
         place = "shop" => Breaks(visit[r].want.kind) = {}
  PROVE  SInv'
<1>1. screen \in [Places -> Screens] /\ Screenings /\ ScreensHonest
  BY DEF SInv, Typed
<1>2. /\ screen' \in [Places -> Screens] /\ screen'[place] = e
      /\ \A pl \in Places \ {place} : screen'[pl] = screen[pl]
  BY <1>1
<1>3. /\ \A s : TrueToButton(s) => TrueToButton(s)'
      /\ \A s : (Current(s)' <=> Current(s)) /\ (Agrees(s)' <=> Agrees(s))
  <2>1. \A s : TrueToButton(s) => TrueToButton(s)'
    BY <1>1, HonestSame
  <2>. QED
    BY <2>1, CurrentSame DEF Agrees
<1>4. ScreensHonest'
  <2>1. ASSUME NEW pl \in Places PROVE TrueToButton(screen[pl])'
    <3>1. PICK s : s = screen'[pl]
      OBVIOUS
    <3>2. TrueToButton(s)
      BY <1>1, <1>2, <3>1 DEF ScreensHonest
    <3>3. TrueToButton(s)'
      BY <1>3, <3>2
    <3>. QED
      BY <3>1, <3>3
  <2>. QED
    BY <2>1 DEF ScreensHonest
<1>5. \A pl \in Places : screen'[pl].fresh /\ screen'[pl].kind # "empty" => Trusted(visit[r])
  BY <1>2 DEF Trusted
<1>6. ASSUME Trusted(visit[r])
      PROVE  /\ \A pl \in Places : screen'[pl].fresh => Current(screen[pl])'
             /\ screen'["store"].fresh => Agrees(screen["store"])'
  <2>1. ASSUME NEW pl \in Places, screen'[pl].fresh
        PROVE  Current(screen[pl])' /\ (pl = "store" => Agrees(screen[pl])')
    <3>1. PICK s : s = screen'[pl]
      OBVIOUS
    <3>2. Current(s) /\ (pl = "store" => Agrees(s))
      BY <1>1, <1>2, <1>6, <2>1, <3>1 DEF Screenings, Kept, Places
    <3>3. Current(s)' /\ (pl = "store" => Agrees(s)')
      BY <1>3, <3>2
    <3>. QED
      BY <3>1, <3>3
  <2>. QED
    BY <2>1 DEF Places
<1>. QED
  BY <1>2, <1>4, <1>5, <1>6, EndKeeps

LEMMA EmptyKeeps ==
  ASSUME SInv, NEW r \in Visitors, Started(visit[r]), Empty(r), Breaks(visit[r].want.kind) = {}
  PROVE  SInv'
<1>1. PICK place \in Places : place = visit[r].place
  BY DEF SInv, Typed, VisitRecords
<1>2. PICK e : e = [Blank EXCEPT !.kind = "empty"]
  OBVIOUS
<1>3. e \in Screens /\ e.kind = "empty" /\ ~e.sure
  BY <1>2, BlankType DEF Screens, Blank, Listings, RowsOf
<1>4. /\ visit' = [visit EXCEPT ![r] = NoVisit] /\ alive' = alive /\ fsm' = fsm
      /\ strayed' = strayed /\ screen' = [screen EXCEPT ![place] = e]
  BY <1>1, <1>2 DEF Empty
<1>5. TrueToButton(e) /\ Current(e) /\ Agrees(e)
  BY <1>3 DEF TrueToButton, Current, Agrees, Paged, Listings
<1>. QED
  BY <1>1, <1>3, <1>4, <1>5, ScreenKeeps

LEMMA AskKeeps ==
  ASSUME SInv, NEW r \in Visitors, Ask(r)
  PROVE  SInv'
<1>1. PICK v : v = visit[r]
  OBVIOUS
<1>2. v \in VisitRecords /\ v.at = "on" /\ Stage(v) = "ask" /\ Proper(v)
  BY <1>1 DEF Ask, At, SInv, Typed, Runnings, RunningOf
<1>3. v.want.kind = "category" /\ Started(v)
  BY <1>2, StagesInOrder DEF InOrder, Proper, VisitRecords, Started
<1>4. CASE Empty(r)
  BY <1>1, <1>3, <1>4, BreaksNothing, EmptyKeeps
<1>5. CASE On(r, v)
  <2>1. PICK y : y = OneOn(v)
    OBVIOUS
  <2>2. /\ y.step \in 1..Len(Plan(y.place, y.want.kind))
        /\ y.at = v.at /\ y.place = v.place /\ y.want = v.want /\ y.asked = v.asked
        /\ y.scope = v.scope /\ y.page = v.page
        /\ y.total = v.total /\ y.rows = v.rows /\ y.counts = v.counts
        /\ \A x : Past(y, x) <=> Past(v, x) \/ x = "ask"
        /\ Subject(y) = Subject(v)
    <3>1. Stage(v) # "show"
      BY <1>2
    <3>. QED
      BY <1>2, <2>1, <3>1, Onward
  <2>3. Proper(y)
    BY <1>2, <2>2 DEF Proper, Started
  <2>4. Faithful(v) => Faithful(y)
    BY <1>2, <2>2 DEF Faithful
  <2>. QED
    BY <1>1, <1>2, <1>3, <1>5, <2>1, <2>3, <2>4, ReadingKeeps, TrustedAlone
<1>. QED
  BY <1>1, <1>4, <1>5 DEF Ask

LEMMA OneRow ==
  ASSUME NEW p \in Nat
  PROVE  <<p>> \in Seq(Nat) /\ Len(<<p>>) = 1 /\ <<p>>[1] = p /\ ToSet(<<p>>) = {p} /\ IsInjective(<<p>>)
BY DEF ToSet, IsInjective

LEMMA FindKeeps ==
  ASSUME SInv, NEW r \in Visitors, Find(r)
  PROVE  SInv'
<1>1. PICK v : v = visit[r]
  OBVIOUS
<1>2. v \in VisitRecords /\ v.at = "on" /\ Stage(v) = "find" /\ Proper(v) /\ alive \subseteq Products
  BY <1>1 DEF Find, At, SInv, Typed, Runnings, RunningOf
<1>3. /\ v.want.kind \in {"card", "product", "refresh"} /\ Started(v)
      /\ \A x \in {"list", "count", "find", "scope"} : ~Past(v, x)
      /\ v.want.kind = "card" => Past(v, "set_product")
  BY <1>2, StagesInOrder DEF InOrder, Proper, VisitRecords, Started, Past
<1>4. PICK p : p = Product(v)
  OBVIOUS
<1>5. CASE p \notin alive
  <2>1. Alert(r)
    BY <1>1, <1>4, <1>5 DEF Find
  <2>2. ASSUME Faithful(v), screen["store"].kind \in Breaks(v.want.kind)
        PROVE  Agrees(screen["store"])
    <3>1. v.want.kind = "card" /\ screen["store"].kind = "card"
      BY <1>3, <2>2 DEF Breaks
    <3>2. fsm.product \notin alive
      BY <1>3, <1>4, <1>5, <2>2, <3>1 DEF Faithful, Product
    <3>. QED
      BY <3>1, <3>2 DEF Agrees
  <2>. QED
    BY <1>1, <1>3, <2>1, <2>2, AlertKeeps
<1>6. CASE p \in alive
  <2>1. p \in Nat
    BY <1>2, <1>6, GoodsAssumption
  <2>2. PICK row : row = <<p>>
    OBVIOUS
  <2>3. row \in Seq(Nat) /\ Len(row) = 1 /\ row[1] = p /\ ToSet(row) = {p} /\ IsInjective(row)
    BY <2>1, <2>2, OneRow
  <2>4. PICK w : w = [v EXCEPT !.rows = row]
    OBVIOUS
  <2>5. On(r, w)
    BY <1>1, <1>4, <1>6, <2>2, <2>4 DEF Find
  <2>6. w \in VisitRecords
    BY <1>2, <2>3, <2>4 DEF VisitRecords
  <2>7. /\ w.at = v.at /\ w.place = v.place /\ w.want = v.want /\ w.asked = v.asked
        /\ w.fresh = v.fresh /\ w.calm = v.calm /\ w.step = v.step /\ w.scope = v.scope
        /\ w.page = v.page /\ w.total = v.total /\ w.counts = v.counts /\ w.rows = row
    BY <1>2, <2>4 DEF VisitRecords
  <2>8. PICK y : y = OneOn(w)
    OBVIOUS
  <2>9. /\ y.step \in 1..Len(Plan(y.place, y.want.kind))
        /\ y.at = w.at /\ y.place = w.place /\ y.want = w.want /\ y.asked = w.asked
        /\ y.scope = w.scope /\ y.page = w.page
        /\ y.total = w.total /\ y.rows = w.rows /\ y.counts = w.counts
        /\ \A x : Past(y, x) <=> Past(v, x) \/ x = "find"
        /\ Subject(y) = Subject(w)
    BY <1>2, <2>6, <2>7, <2>8, Onward
  <2>10. Subject(y) = Subject(v)
    BY <2>7, <2>9 DEF Subject
  <2>11. ToSet(row) \subseteq RowsOf(View(v.want.kind))
    BY <1>2, <1>3, <1>6, <2>3 DEF RowsOf, View
  <2>12. v.want.kind # "refresh" => row = <<v.want.item>>
    BY <1>4, <2>2 DEF Product
  <2>13. Proper(y)
    BY <1>2, <1>3, <2>3, <2>7, <2>9, <2>11, <2>12 DEF Proper, Started
  <2>14. Faithful(v) => Faithful(y)
    BY <1>2, <1>3, <1>4, <1>6, <2>3, <2>7, <2>9, <2>10 DEF Faithful, Product
  <2>. QED
    BY <1>1, <1>2, <1>3, <2>5, <2>6, <2>7, <2>8, <2>13, <2>14, ReadingKeeps, TrustedAlone
<1>. QED
  BY <1>5, <1>6

LEMMA ReadShelfKeeps ==
  ASSUME SInv, NEW r \in Visitors, ReadShelf(r)
  PROVE  SInv'
<1>1. PICK v : v = visit[r]
  OBVIOUS
<1>2. v \in VisitRecords /\ v.at = "on" /\ Stage(v) = "shelf" /\ Proper(v) /\ fsm \in Fsms
  BY <1>1 DEF ReadShelf, At, SInv, Typed, Runnings, RunningOf
<1>3. /\ v.want.kind \in {"sort", "unsort"} /\ Started(v)
      /\ \A x : ~Past(v, x)
  BY <1>2, StagesInOrder DEF InOrder, Proper, VisitRecords, Started, Past
<1>4. CASE Alert(r)
  BY <1>1, <1>3, <1>4, BreaksNothing, AlertKeeps
<1>5. CASE On(r, [v EXCEPT !.scope = fsm])
  <2>1. PICK f \in Fsms : f = fsm
    BY <1>2
  <2>2. PICK w : w = [v EXCEPT !.scope = f]
    OBVIOUS
  <2>3. On(r, w)
    BY <1>5, <2>1, <2>2
  <2>4. w \in VisitRecords
    BY <1>2, <2>2 DEF VisitRecords
  <2>5. /\ w.at = v.at /\ w.place = v.place /\ w.want = v.want /\ w.asked = v.asked
        /\ w.fresh = v.fresh /\ w.calm = v.calm /\ w.step = v.step
        /\ w.page = v.page /\ w.total = v.total /\ w.counts = v.counts /\ w.rows = v.rows
    BY <1>2, <2>2 DEF VisitRecords
  <2>6. PICK y : y = OneOn(w)
    OBVIOUS
  <2>7. /\ y.step \in 1..Len(Plan(y.place, y.want.kind))
        /\ y.at = w.at /\ y.place = w.place /\ y.want = w.want /\ y.asked = w.asked
        /\ y.page = w.page
        /\ y.total = w.total /\ y.rows = w.rows /\ y.counts = w.counts
        /\ \A x : Past(y, x) <=> Past(v, x) \/ x = "shelf"
    BY <1>2, <2>4, <2>5, <2>6, Onward
  <2>8. Proper(y)
    BY <1>2, <1>3, <2>5, <2>7 DEF Proper, Started
  <2>9. Faithful(y)
    BY <1>2, <1>3, <2>5, <2>7 DEF Faithful
  <2>. QED
    BY <1>1, <1>2, <1>3, <2>3, <2>4, <2>5, <2>6, <2>8, <2>9, ReadingKeeps
<1>. QED
  BY <1>1, <1>4, <1>5 DEF ReadShelf

LEMMA NoneBought ==
  ASSUME alive \subseteq Products
  PROVE  \A cat, brand : Bought(0, cat, brand) = {}
BY GoodsFields DEF Bought

\* The FSM data that a handler of the purchases has written and cannot show.
LEMMA ScopeAlert ==
  ASSUME SInv, NEW v, Proper(v), v.at = "on", Stage(v) = "scope", v \in VisitRecords, Faithful(v), Dirty(v),
         fsm.day = 0 \/ (View(v.want.kind) = "pbrands" /\ fsm.cat = 0),
         NEW s, s.kind \in Breaks(v.want.kind)
  PROVE  Agrees(s)
<1>1. /\ \/ \A x \in Sets : ~Past(v, x)
         \/ v.want.kind = "pick" /\ Past(v, "set_pick")
         \/ v.want.kind = "cat" /\ Past(v, "set_cat")
         \/ v.want.kind = "pbrand" /\ Past(v, "set_pbrand")
      /\ Asks(v.want)
  BY StagesInOrder DEF InOrder, Proper, VisitRecords, Past
<1>2. v.want.kind \in {"pick", "cat", "pbrand"}
  BY <1>1 DEF Dirty
<1>3. fsm.day = 0
  <2>1. v.want.kind = "cat" => fsm.cat # 0
    <3>1. v.want.kind = "cat" => Past(v, "set_cat") /\ v.want.item \in Cats
      BY <1>1 DEF Dirty, Asks
    <3>. QED
      BY <3>1, GoodsAssumption DEF Faithful
  <2>. QED
    BY <1>2, <2>1 DEF View
<1>4. s.kind \in {"cats", "pbrands", "page"}
  BY <1>2 DEF Breaks
<1>5. Bought(0, Narrowed(s.kind, fsm).cat, Narrowed(s.kind, fsm).brand) = {}
  BY NoneBought DEF SInv, Typed
<1>6. Narrowed(s.kind, fsm).day = 0
  BY <1>3 DEF Narrowed
<1>. QED
  BY <1>4, <1>5, <1>6 DEF Agrees

LEMMA ReadScopeKeeps ==
  ASSUME SInv, NEW r \in Visitors, ReadScope(r)
  PROVE  SInv'
<1>1. PICK v : v = visit[r]
  OBVIOUS
<1>2. v \in VisitRecords /\ v.at = "on" /\ Stage(v) = "scope" /\ Proper(v) /\ fsm \in Fsms
  BY <1>1 DEF ReadScope, At, SInv, Typed, Runnings, RunningOf
<1>3. /\ View(v.want.kind) \in {"cats", "pbrands", "page"} /\ Started(v)
      /\ \A x \in {"list", "count", "find", "set_shelf", "scope"} : ~Past(v, x)
  BY <1>2, StagesInOrder DEF InOrder, Proper, VisitRecords, Started, Past
<1>4. CASE fsm.day = 0 \/ (View(v.want.kind) = "pbrands" /\ fsm.cat = 0)
  <2>1. Alert(r)
    BY <1>1, <1>4 DEF ReadScope
  <2>. QED
    BY <1>1, <1>2, <1>3, <1>4, <2>1, ScopeAlert, AlertKeeps
<1>5. CASE ~(fsm.day = 0 \/ (View(v.want.kind) = "pbrands" /\ fsm.cat = 0))
  <2>1. PICK f \in Fsms : f = fsm
    BY <1>2
  <2>2. PICK k : k = IF v.want.kind = "return" THEN f.page ELSE v.page
    OBVIOUS
  <2>3. k \in Nat \ {0}
    BY <1>2, <2>1, <2>2 DEF Fsms, VisitRecords
  <2>4. PICK w : w = [v EXCEPT !.scope = f, !.page = k]
    OBVIOUS
  <2>5. On(r, w)
    BY <1>1, <1>5, <2>1, <2>2, <2>4 DEF ReadScope
  <2>6. w \in VisitRecords
    BY <1>2, <2>3, <2>4 DEF VisitRecords
  <2>7. /\ w.at = v.at /\ w.place = v.place /\ w.want = v.want /\ w.asked = v.asked
        /\ w.fresh = v.fresh /\ w.calm = v.calm /\ w.step = v.step
        /\ w.page = k /\ w.scope = f /\ w.total = v.total /\ w.counts = v.counts /\ w.rows = v.rows
    BY <1>2, <2>4 DEF VisitRecords
  <2>8. PICK y : y = OneOn(w)
    OBVIOUS
  <2>9. /\ y.step \in 1..Len(Plan(y.place, y.want.kind))
        /\ y.at = w.at /\ y.place = w.place /\ y.want = w.want /\ y.asked = w.asked
        /\ y.scope = w.scope /\ y.page = w.page
        /\ y.total = w.total /\ y.rows = w.rows /\ y.counts = w.counts
        /\ \A x : Past(y, x) <=> Past(v, x) \/ x = "scope"
    BY <1>2, <2>6, <2>7, <2>8, Onward
  <2>10. Proper(y)
    BY <1>2, <1>3, <2>2, <2>7, <2>9 DEF Proper, Started
  <2>11. Subject(y) = Narrowed(View(v.want.kind), fsm)
    BY <1>3, <2>1, <2>7, <2>9 DEF Subject
  <2>12. Faithful(v) => Faithful(y)
    BY <1>2, <1>3, <2>7, <2>9, <2>11 DEF Faithful
  <2>. QED
    BY <1>1, <1>2, <1>3, <2>5, <2>6, <2>7, <2>8, <2>10, <2>12, ReadingKeeps, TrustedAlone
<1>. QED
  BY <1>4, <1>5

LEMMA PiecesType ==
  ASSUME alive \subseteq Products, NEW view, NEW x, NEW row, view = "page" => row \in Products
  PROVE  Pieces(view, x, row) \in Nat
<1>1. /\ Cardinality(InShop(x.cat, row)) \in Nat /\ Cardinality(Bought(x.day, row, 0)) \in Nat
      /\ Cardinality(Bought(x.day, x.cat, row)) \in Nat
  BY BoughtFinite, FS_CardinalityType
<1>2. Promised(view, x, row) \in Nat
  BY <1>1 DEF Promised
<1>3. view = "page" => Goods[row].qty \in Nat
  BY GoodsFields
<1>. QED
  BY <1>2, <1>3 DEF Pieces

LEMMA FoundNone ==
  ASSUME alive \subseteq Products, NEW view \in Listings, NEW x, Cardinality(Found(view, x)) = 0
  PROVE  Found(view, x) = {}
BY FoundFinite, FS_EmptySet

LEMMA CountRowsKeeps ==
  ASSUME SInv, NEW r \in Visitors, CountRows(r)
  PROVE  SInv'
<1>1. PICK v : v = visit[r]
  OBVIOUS
<1>2. /\ v \in VisitRecords /\ v.at = "on" /\ Stage(v) = "count" /\ Proper(v) /\ fsm \in Fsms
      /\ alive \subseteq Products
  BY <1>1 DEF CountRows, At, SInv, Typed, Runnings, RunningOf
<1>3. PICK view : view = View(v.want.kind)
  OBVIOUS
<1>4. /\ view \in Listings /\ Started(v) /\ ~Past(v, "count") /\ ~Past(v, "find")
      /\ Clamped(view) => ~Past(v, "list")
      /\ view \in {"cats", "pbrands", "page"} => view = "page" /\ Past(v, "scope")
  BY <1>2, <1>3, StagesInOrder DEF InOrder, Proper, VisitRecords, Started, Past
<1>5. PICK total : total = Cardinality(Found(view, Subject(v)))
  OBVIOUS
<1>6. total \in Nat /\ (total = 0 => Found(view, Subject(v)) = {})
  BY <1>2, <1>4, <1>5, FoundFinite, FoundNone, FS_CardinalityType
<1>7. PICK k : k = IF Clamped(view) THEN Clamp(v.page, TotalPages(total, Size)) ELSE v.page
  OBVIOUS
<1>8. /\ k \in Nat \ {0} /\ TotalPages(total, Size) \in Nat \ {0}
      /\ Clamped(view) => k \in 1..TotalPages(total, Size)
  <2>1. v.page \in Nat \ {0}
    BY <1>2 DEF VisitRecords
  <2>2. TotalPages(total, Size) \in Nat \ {0}
    BY <1>6, PagesCount, GoodsAssumption
  <2>3. Clamp(v.page, TotalPages(total, Size)) \in 1..TotalPages(total, Size)
    <3>1. PICK n \in Nat \ {0} : n = v.page
      BY <2>1
    <3>2. PICK t \in Nat \ {0} : t = TotalPages(total, Size)
      BY <2>2
    <3>3. Clamp(n, t) \in 1..t
      BY Clamped_In
    <3>. QED
      BY <3>1, <3>2, <3>3
  <2>. QED
    BY <1>7, <2>1, <2>2, <2>3
<1>9. PICK w : w = [v EXCEPT !.total = total, !.page = k]
  OBVIOUS
<1>10. IF total = 0 /\ view # "products" THEN Alert(r) ELSE On(r, w)
  BY <1>1, <1>3, <1>5, <1>7, <1>9 DEF CountRows
<1>11. CASE total = 0 /\ view # "products"
  <2>1. ASSUME Faithful(v), screen["store"].kind \in Breaks(v.want.kind)
        PROVE  Agrees(screen["store"])
    <3>1. v.want.kind = "pbrand" /\ screen["store"].kind = "page" /\ view = "page"
      BY <1>3, <1>4, <2>1 DEF Breaks, View, Listings
    <3>2. PICK x : x = Narrowed("page", fsm)
      OBVIOUS
    <3>3. Found("page", x) = {}
      BY <1>3, <1>4, <1>6, <1>11, <2>1, <3>1, <3>2 DEF Faithful
    <3>. QED
      BY <3>1, <3>2, <3>3 DEF Agrees, Found
  <2>. QED
    BY <1>1, <1>4, <1>10, <1>11, <2>1, AlertKeeps
<1>12. CASE ~(total = 0 /\ view # "products")
  <2>1. w \in VisitRecords
    BY <1>2, <1>6, <1>8, <1>9 DEF VisitRecords
  <2>2. /\ w.at = v.at /\ w.place = v.place /\ w.want = v.want /\ w.asked = v.asked
        /\ w.fresh = v.fresh /\ w.calm = v.calm /\ w.step = v.step
        /\ w.page = k /\ w.scope = v.scope /\ w.total = total /\ w.counts = v.counts
        /\ w.rows = v.rows
    BY <1>2, <1>9 DEF VisitRecords
  <2>3. PICK y : y = OneOn(w)
    OBVIOUS
  <2>4. /\ y.step \in 1..Len(Plan(y.place, y.want.kind))
        /\ y.at = w.at /\ y.place = w.place /\ y.want = w.want /\ y.asked = w.asked
        /\ y.scope = w.scope /\ y.page = w.page
        /\ y.total = w.total /\ y.rows = w.rows /\ y.counts = w.counts
        /\ \A x : Past(y, x) <=> Past(v, x) \/ x = "count"
        /\ Subject(y) = Subject(w)
    BY <1>2, <2>1, <2>2, <2>3, Onward
  <2>5. Subject(y) = Subject(v)
    BY <2>2, <2>4 DEF Subject
  <2>6. v.want.kind # "return" =>
          k = IF Clamped(view) THEN Clamp(v.want.page, TotalPages(total, Size)) ELSE v.want.page
    BY <1>2, <1>3, <1>4, <1>7 DEF Proper
  <2>7. view # "products" => total > 0
    BY <1>6, <1>12
  <2>8. Past(v, "list") => v.page = k
    BY <1>4, <1>7
  <2>9. Proper(y)
    BY <1>2, <1>3, <1>4, <1>8, <2>2, <2>4, <2>6, <2>7, <2>8 DEF Proper, Started
  <2>10. Faithful(v) => Faithful(y)
    BY <1>2, <1>3, <1>4, <1>5, <2>2, <2>4, <2>5, <2>8 DEF Faithful
  <2>. QED
    BY <1>1, <1>2, <1>4, <1>10, <1>12, <2>1, <2>2, <2>3, <2>9, <2>10, ReadingKeeps, TrustedAlone
<1>. QED
  BY <1>11, <1>12

PiecesOf(view, x, rows) == [i \in DOMAIN rows |-> Pieces(view, x, rows[i])]

LEMMA CountsType ==
  ASSUME alive \subseteq Products, NEW view, NEW x, NEW rows \in Seq(Nat),
         ToSet(rows) \subseteq RowsOf(view),
         NEW counts, counts = PiecesOf(view, x, rows)
  PROVE  counts \in Seq(Nat) /\ Len(counts) = Len(rows)
<1>1. PICK n \in Nat : n = Len(rows)
  BY LenProperties
<1>2. DOMAIN rows = 1..n
  BY <1>1, LenProperties
<1>3. ASSUME NEW i \in 1..n PROVE Pieces(view, x, rows[i]) \in Nat
  <2>1. rows[i] \in RowsOf(view)
    BY <1>2 DEF ToSet
  <2>2. view = "page" => rows[i] \in Products
    BY <2>1 DEF RowsOf
  <2>. QED
    BY <2>2, PiecesType
<1>4. counts \in [1..n -> Nat]
  BY <1>2, <1>3 DEF PiecesOf
<1>. QED
  BY <1>1, <1>4, SeqDef, LenProperties

\* The FSM data that a handler has written for purchases that do not exist.
LEMMA ListAlert ==
  ASSUME SInv, NEW v, Faithful(v), NEW view, view = View(v.want.kind), view \in {"cats", "pbrands"},
         Past(v, "scope"), Found(view, Subject(v)) = {},
         NEW s, s.kind \in Breaks(v.want.kind)
  PROVE  Agrees(s)
<1>1. Found(view, Narrowed(view, fsm)) = {}
  BY DEF Faithful
<1>2. s.kind \in {"pbrands", "page"} \/ (s.kind = "cats" /\ view = "cats")
  BY DEF Breaks, View
<1>3. PICK x : x = Narrowed(s.kind, fsm)
  OBVIOUS
<1>4. Bought(x.day, x.cat, x.brand) = {}
  <2>1. \A p : p \notin Bought(x.day, x.cat, x.brand)
    <3>1. CASE view = "cats"
      <4>1. Bought(fsm.day, 0, 0) = {}
        BY <1>1, <3>1 DEF Found, Narrowed
      <4>. QED
        BY <1>3, <4>1 DEF Bought, Narrowed
    <3>2. CASE view = "pbrands"
      <4>1. Bought(fsm.day, fsm.cat, 0) = {}
        BY <1>1, <3>2 DEF Found, Narrowed
      <4>. QED
        BY <1>2, <1>3, <3>2, <4>1 DEF Bought, Narrowed
    <3>. QED
      BY <3>1, <3>2
  <2>. QED
    BY <2>1
<1>. QED
  BY <1>2, <1>3, <1>4 DEF Agrees

LEMMA ListRowsKeeps ==
  ASSUME SInv, NEW r \in Visitors, ListRows(r)
  PROVE  SInv'
<1>1. PICK v : v = visit[r]
  OBVIOUS
<1>2. /\ v \in VisitRecords /\ v.at = "on" /\ Stage(v) = "list" /\ Proper(v) /\ fsm \in Fsms
      /\ alive \subseteq Products
  BY <1>1 DEF ListRows, At, SInv, Typed, Runnings, RunningOf
<1>3. PICK view : view = View(v.want.kind)
  OBVIOUS
<1>4. /\ view \in Listings /\ Started(v) /\ ~Past(v, "list") /\ ~Past(v, "find")
      /\ Clamped(view) => Past(v, "count")
      /\ view \in {"cats", "pbrands", "page"} => Past(v, "scope")
  BY <1>2, <1>3, StagesInOrder DEF InOrder, Proper, VisitRecords, Started, Past
<1>5. PICK x : x = Subject(v)
  OBVIOUS
<1>6. PICK order \in Orderings(view, x) :
        LET rows == Cut(view, order, v.page)
            counts == [i \in DOMAIN rows |-> Pieces(view, x, rows[i])] IN
        CASE rows # <<>> \/ (Paged(view) /\ (view # "products" \/ v.page > 1)) ->
               On(r, [v EXCEPT !.rows = rows, !.counts = counts])
          [] rows = <<>> /\ ~Paged(view) -> Alert(r)
          [] OTHER -> Empty(r)
  BY <1>1, <1>3, <1>5 DEF ListRows
<1>7. PICK rows : rows = Cut(view, order, v.page)
  OBVIOUS
<1>8. PICK counts : counts = [i \in DOMAIN rows |-> Pieces(view, x, rows[i])]
  OBVIOUS
<1>9. /\ order \in Seq(Nat) /\ Len(order) = Cardinality(Found(view, x))
      /\ IsInjective(order) /\ ToSet(order) = Found(view, x) /\ Found(view, x) \subseteq RowsOf(view)
  BY <1>2, <1>4, <1>6, OrderingType, FoundFinite
<1>10. /\ rows \in Seq(Nat) /\ IsInjective(rows) /\ ToSet(rows) \subseteq RowsOf(view)
       /\ ~Paged(view) => rows = order
  <2>1. PICK page \in Nat \ {0} : page = v.page
    BY <1>2 DEF VisitRecords
  <2>2. rows = Cut(view, order, page)
    BY <1>7, <2>1
  <2>3. rows \in Seq(Nat) /\ IsInjective(rows) /\ ToSet(rows) \subseteq ToSet(order)
    BY <1>9, <2>2, CutRows
  <2>. QED
    BY <1>9, <2>2, <2>3 DEF Cut
<1>11. counts \in Seq(Nat) /\ Len(counts) = Len(rows)
  <2>1. counts = PiecesOf(view, x, rows)
    BY <1>8 DEF PiecesOf
  <2>. QED
    BY <1>2, <1>10, <2>1, CountsType
<1>12. PICK w : w = [v EXCEPT !.rows = rows, !.counts = counts]
  OBVIOUS
<1>13. CASE /\ rows # <<>> \/ (Paged(view) /\ (view # "products" \/ v.page > 1))
            /\ On(r, w)
  <2>1. w \in VisitRecords
    BY <1>2, <1>10, <1>11, <1>12 DEF VisitRecords
  <2>2. /\ w.at = v.at /\ w.place = v.place /\ w.want = v.want /\ w.asked = v.asked
        /\ w.fresh = v.fresh /\ w.calm = v.calm /\ w.step = v.step
        /\ w.page = v.page /\ w.scope = v.scope /\ w.total = v.total /\ w.counts = counts
        /\ w.rows = rows
    BY <1>2, <1>12 DEF VisitRecords
  <2>3. PICK y : y = OneOn(w)
    OBVIOUS
  <2>4. /\ y.step \in 1..Len(Plan(y.place, y.want.kind))
        /\ y.at = w.at /\ y.place = w.place /\ y.want = w.want /\ y.asked = w.asked
        /\ y.scope = w.scope /\ y.page = w.page
        /\ y.total = w.total /\ y.rows = w.rows /\ y.counts = w.counts
        /\ \A z : Past(y, z) <=> Past(v, z) \/ z = "list"
        /\ Subject(y) = Subject(w)
    BY <1>2, <2>1, <2>2, <2>3, Onward
  <2>5. Subject(y) = x
    BY <1>5, <2>2, <2>4 DEF Subject
  <2>6. Proper(y)
    BY <1>2, <1>3, <1>4, <1>10, <1>11, <1>13, <2>2, <2>4 DEF Proper, Started
  <2>7. Faithful(v) => Faithful(y)
    BY <1>2, <1>3, <1>4, <1>5, <1>7, <1>8, <2>2, <2>4, <2>5 DEF Faithful
  <2>. QED
    BY <1>1, <1>2, <1>4, <1>13, <2>1, <2>2, <2>3, <2>6, <2>7, ReadingKeeps, TrustedAlone
<1>14. CASE rows = <<>> /\ ~Paged(view) /\ Alert(r)
  <2>1. Found(view, x) = {}
    <3>1. order = <<>>
      BY <1>10, <1>14
    <3>. QED
      BY <1>9, <3>1 DEF ToSet
  <2>2. ASSUME Faithful(v), screen["store"].kind \in Breaks(v.want.kind)
        PROVE  Agrees(screen["store"])
    <3>1. view \in {"cats", "pbrands"}
      BY <1>3, <1>4, <1>14, <2>2 DEF Breaks, View, Paged, Listings
    <3>. QED
      BY <1>3, <1>4, <1>5, <2>1, <2>2, <3>1, ListAlert
  <2>. QED
    BY <1>1, <1>4, <1>14, <2>2, AlertKeeps
<1>15. CASE Paged(view) /\ view = "products" /\ Empty(r)
  <2>1. v.want.kind = "products"
    BY <1>3, <1>15 DEF View
  <2>. QED
    BY <1>1, <1>4, <1>15, <2>1, BreaksNothing, EmptyKeeps
<1>. QED
  BY <1>6, <1>7, <1>8, <1>12, <1>13, <1>14, <1>15

\* What a handler that is about to update the FSM data may be doing.
LEMMA Updates ==
  ASSUME NEW v \in VisitRecords, Proper(v), Stage(v) \in Sets
  PROVE  LET stage == Stage(v)
             kind == v.want.kind IN
         /\ stage \in {"set_pick", "set_cats", "set_cat", "set_pbrands", "set_pbrand", "set_page",
                       "set_shelf", "set_sort", "set_product", "set_back"}
         /\ stage = "set_pick" => kind = "pick"
         /\ stage = "set_cats" => kind \in {"pick", "cats"}
         /\ stage = "set_cat" => kind = "cat"
         /\ stage = "set_pbrands" => kind \in {"cat", "pbrands"}
         /\ stage = "set_pbrand" => kind = "pbrand"
         /\ stage = "set_page" => kind \in {"pbrand", "page", "return"}
         /\ stage = "set_shelf" <=> kind = "shelf"
         /\ stage = "set_sort" => kind = "sort"
         /\ stage = "set_product" => kind \in {"card", "product"}
         /\ stage = "set_back" => kind = "card"
<1>1. InOrder(v)
  BY StagesInOrder DEF Proper, VisitRecords
<1>2. v.want.kind \in Listings \cup {"category", "product", "sorts", "sort", "unsort", "days", "pick",
                                     "cat", "pbrand", "return", "card", "refresh", "dash"}
  BY DEF VisitRecords, Buttons
<1>. QED
  BY <1>1, <1>2 DEF InOrder, Sets, View, Listings

LEMMA PatchedType ==
  ASSUME NEW v \in VisitRecords, Proper(v), Stage(v) \in Sets, Asks(v.want), fsm \in Fsms
  PROVE  Patched(Stage(v), v) \in Fsms
<1>1. v.want.item \in Nat /\ v.want.qty \in Nat /\ v.page \in Nat \ {0} /\ v.want.cat \in Nat
      /\ v.want.brand \in Nat
  BY DEF VisitRecords, Buttons
<1>2. /\ Stage(v) = "set_pick" => v.want.item \in Days
      /\ Stage(v) = "set_cat" => v.want.item \in Cats
      /\ Stage(v) = "set_product" => v.want.item \in Products
  BY Updates DEF Asks
<1>3. PICK f \in Fsms : f = fsm
  OBVIOUS
<1>4. /\ f.day \in Days \cup {0} /\ f.cat \in Cats \cup {0} /\ f.brand \in Nat /\ f.page \in Nat \ {0}
      /\ f.shelf \in Nat \X Nat /\ f.product \in Products \cup {0} /\ f.back \in {"brand", "proc"}
      /\ f.qty \in Nat /\ (f.back = "proc" <=> f.qty > 0)
      /\ f = [day |-> f.day, cat |-> f.cat, brand |-> f.brand, page |-> f.page, shelf |-> f.shelf,
              product |-> f.product, back |-> f.back, qty |-> f.qty]
  BY DEF Fsms
<1>5. CASE Stage(v) = "set_pick"
  <2>1. Patched(Stage(v), v) = [f EXCEPT !.day = v.want.item, !.cat = 0, !.brand = 0, !.page = 1]
    BY <1>3, <1>5 DEF Patched
  <2>2. PICK none : none = 0
    OBVIOUS
  <2>3. none \in Cats \cup {0} /\ none \in Nat /\ 1 \in Nat \ {0}
          /\ v.want.item \in Nat
          /\ v.want.item \in Days \cup {0}
    BY <1>1, <1>2, <1>5, <2>2
  <2>4. Patched(Stage(v), v) =
          [day |-> v.want.item, cat |-> none, brand |-> none, page |-> 1,
           shelf |-> f.shelf, product |-> f.product, back |-> f.back,
           qty |-> f.qty]
    BY <1>4, <2>1, <2>2
  <2>. QED
    BY <1>4, <2>3, <2>4 DEF Fsms
<1>6. CASE Stage(v) = "set_cats"
  <2>1. Patched(Stage(v), v) = [f EXCEPT !.cat = 0, !.brand = 0, !.page = 1]
    BY <1>3, <1>6 DEF Patched
  <2>2. PICK none : none = 0
    OBVIOUS
  <2>3. none \in Cats \cup {0} /\ none \in Nat /\ 1 \in Nat \ {0}
          /\ v.want.item \in Nat
    BY <1>1, <1>2, <1>6, <2>2
  <2>4. Patched(Stage(v), v) =
          [day |-> f.day, cat |-> none, brand |-> none, page |-> 1,
           shelf |-> f.shelf, product |-> f.product, back |-> f.back,
           qty |-> f.qty]
    BY <1>4, <2>1, <2>2
  <2>. QED
    BY <1>4, <2>3, <2>4 DEF Fsms
<1>7. CASE Stage(v) = "set_cat"
  <2>1. Patched(Stage(v), v) = [f EXCEPT !.cat = v.want.item, !.brand = 0, !.page = 1]
    BY <1>3, <1>7 DEF Patched
  <2>2. PICK none : none = 0
    OBVIOUS
  <2>3. none \in Cats \cup {0} /\ none \in Nat /\ 1 \in Nat \ {0}
          /\ v.want.item \in Nat
          /\ v.want.item \in Cats \cup {0}
    BY <1>1, <1>2, <1>7, <2>2
  <2>4. Patched(Stage(v), v) =
          [day |-> f.day, cat |-> v.want.item, brand |-> none, page |-> 1,
           shelf |-> f.shelf, product |-> f.product, back |-> f.back,
           qty |-> f.qty]
    BY <1>4, <2>1, <2>2
  <2>. QED
    BY <1>4, <2>3, <2>4 DEF Fsms
<1>8. CASE Stage(v) = "set_pbrands"
  <2>1. Patched(Stage(v), v) = [f EXCEPT !.brand = 0, !.page = 1]
    BY <1>3, <1>8 DEF Patched
  <2>2. PICK none : none = 0
    OBVIOUS
  <2>3. none \in Cats \cup {0} /\ none \in Nat /\ 1 \in Nat \ {0}
          /\ v.want.item \in Nat
    BY <1>1, <1>2, <1>8, <2>2
  <2>4. Patched(Stage(v), v) =
          [day |-> f.day, cat |-> f.cat, brand |-> none, page |-> 1,
           shelf |-> f.shelf, product |-> f.product, back |-> f.back,
           qty |-> f.qty]
    BY <1>4, <2>1, <2>2
  <2>. QED
    BY <1>4, <2>3, <2>4 DEF Fsms
<1>9. CASE Stage(v) = "set_pbrand"
  <2>1. Patched(Stage(v), v) = [f EXCEPT !.brand = v.want.item, !.page = 1]
    BY <1>3, <1>9 DEF Patched
  <2>2. Patched(Stage(v), v) =
          [day |-> f.day, cat |-> f.cat, brand |-> v.want.item, page |-> 1,
           shelf |-> f.shelf, product |-> f.product, back |-> f.back,
           qty |-> f.qty]
    BY <1>4, <2>1
  <2>. QED
    BY <1>1, <1>2, <1>4, <1>9, <2>2 DEF Fsms
<1>10. CASE Stage(v) = "set_page"
  <2>1. Patched(Stage(v), v) = [f EXCEPT !.page = v.page]
    BY <1>3, <1>10 DEF Patched
  <2>2. Patched(Stage(v), v) =
          [day |-> f.day, cat |-> f.cat, brand |-> f.brand, page |-> v.page,
           shelf |-> f.shelf, product |-> f.product, back |-> f.back,
           qty |-> f.qty]
    BY <1>4, <2>1
  <2>. QED
    BY <1>1, <1>2, <1>4, <1>10, <2>2 DEF Fsms
<1>11. CASE Stage(v) = "set_shelf"
  <2>1. Patched(Stage(v), v) = [f EXCEPT !.shelf = <<v.want.cat, v.want.brand>>]
    BY <1>3, <1>11 DEF Patched
  <2>2. PICK shelf \in Nat \X Nat : shelf = <<v.want.cat, v.want.brand>>
    BY <1>1
  <2>3. Patched(Stage(v), v) =
          [day |-> f.day, cat |-> f.cat, brand |-> f.brand, page |-> f.page,
           shelf |-> shelf, product |-> f.product, back |-> f.back,
           qty |-> f.qty]
    BY <1>4, <2>1, <2>2
  <2>. QED
    BY <1>4, <2>3 DEF Fsms
<1>12. CASE Stage(v) = "set_sort"
  BY <1>3, <1>12 DEF Patched
<1>13. CASE Stage(v) = "set_product"
  <2>1. Patched(Stage(v), v) = [f EXCEPT !.product = v.want.item]
    BY <1>3, <1>13 DEF Patched
  <2>. QED
    BY <1>2, <1>4, <1>13, <2>1 DEF Fsms
<1>14. CASE Stage(v) = "set_back"
  <2>1. PICK back : back = IF v.want.qty > 0 THEN "proc" ELSE "brand"
    OBVIOUS
  <2>2. Patched(Stage(v), v) = [f EXCEPT !.back = back, !.qty = v.want.qty]
    BY <1>3, <1>14, <2>1 DEF Patched
  <2>. QED
    BY <1>1, <1>4, <2>1, <2>2 DEF Fsms
<1>. QED
  BY <1>5, <1>6, <1>7, <1>8, <1>9, <1>10, <1>11, <1>12, <1>13, <1>14, Updates

LEMMA ReadFsmKeeps ==
  ASSUME SInv, NEW r \in Visitors, ReadFsm(r)
  PROVE  SInv'
<1>1. PICK v : v = visit[r]
  OBVIOUS
<1>2. /\ v \in VisitRecords /\ v.at = "on" /\ Stage(v) \in Sets /\ Proper(v) /\ fsm \in Fsms
      /\ visit \in [Visitors -> VisitRecords] /\ strayed \in BOOLEAN
  BY <1>1 DEF ReadFsm, At, SInv, Typed, Runnings, RunningOf, Sets
<1>3. PICK mem : mem = Patched(Stage(v), v)
  OBVIOUS
<1>4. mem \in Fsms
  <2>1. Asks(v.want)
    BY <1>2 DEF Proper
  <2>. QED
    BY <1>2, <1>3, <2>1, PatchedType
<1>5. PICK y : y = [v EXCEPT !.mem = mem, !.at = "store"]
  OBVIOUS
<1>6. /\ visit' = [visit EXCEPT ![r] = y] /\ alive' = alive /\ fsm' = fsm /\ screen' = screen
      /\ strayed' = strayed
  <2>1. visit' = [visit EXCEPT ![r].mem = mem, ![r].at = "store"]
    BY <1>1, <1>3 DEF ReadFsm, At
  <2>. QED
    BY <1>1, <1>2, <1>5, <2>1 DEF ReadFsm
<1>7. y \in VisitRecords
  BY <1>2, <1>4, <1>5 DEF VisitRecords
<1>8. /\ y.at = "store" /\ y.place = v.place /\ y.want = v.want /\ y.asked = v.asked
      /\ y.fresh = v.fresh /\ y.calm = v.calm /\ y.step = v.step
      /\ y.page = v.page /\ y.scope = v.scope /\ y.total = v.total /\ y.counts = v.counts
      /\ y.rows = v.rows /\ y.mem = mem
  BY <1>2, <1>5 DEF VisitRecords
<1>9. Done(y) = Done(v) /\ Stage(y) = Stage(v) /\ Subject(y) = Subject(v)
  BY <1>8 DEF Done, Stage, Subject
<1>10. Started(y) /\ Started(v)
  BY <1>2, <1>8 DEF Started
<1>11. Stage(v) = "set_shelf" => mem.shelf = <<v.want.cat, v.want.brand>>
  BY <1>2, <1>3 DEF Patched, Fsms
<1>12. Proper(y)
  BY <1>2, <1>8, <1>9, <1>10, <1>11 DEF Proper, Past
<1>13. Faithful(v) => Faithful(y)
  <2>1. Patched(Stage(y), y) = Patched(Stage(v), v)
    BY <1>8, <1>9 DEF Patched
  <2>. QED
    BY <1>2, <1>3, <1>8, <1>9, <2>1 DEF Faithful, Past
<1>14. visit'[r] = y
  BY <1>2, <1>6
<1>15. ASSUME Trusted(visit[r])
       PROVE  Faithful(visit[r])' /\ \A s : Kept(visit[r], s) => Kept(visit[r], s)'
  <2>1. \A u : Faithful(u)' <=> Faithful(u)
    BY <1>6, FaithfulSame
  <2>2. \A s : Agrees(s)' <=> Agrees(s)
    BY <1>6, RunningSame
  <2>3. \A s : Kept(v, s) => Kept(y, s)'
    BY <1>8, <1>9, <2>2 DEF Kept, Dirty, Past
  <2>4. Faithful(v)
    BY <1>1, <1>10, <1>15, TrustedAlone
  <2>. QED
    BY <1>1, <1>13, <1>14, <2>1, <2>3, <2>4
<1>. QED
  BY <1>1, <1>2, <1>6, <1>7, <1>8, <1>10, <1>12, <1>15, OnKeeps

\* An update of the FSM data leaves them to the screens it does not break.
LEMMA UpdateAgrees ==
  ASSUME NEW v \in VisitRecords, Proper(v), Stage(v) \in Sets, fsm \in Fsms,
         fsm' = Patched(Stage(v), v), alive' = alive, strayed \in BOOLEAN,
         strayed' = (strayed \/ v.want.kind = "product")
  PROVE  \A s : s.kind \notin Breaks(v.want.kind) /\ Agrees(s) => Agrees(s)'
<1>1. PICK f \in Fsms : f = fsm
  OBVIOUS
<1>2. PICK stage : stage = Stage(v)
  OBVIOUS
<1>3. PICK g : g = Patched(Stage(v), v)
  OBVIOUS
<1>. DEFINE b == v.want
            Same(kind) == Narrowed(kind, g) = Narrowed(kind, f)
<1>4. /\ stage \in {"set_cats", "set_pbrands", "set_page", "set_shelf", "set_sort", "set_product", "set_back"}
         => Same("cats") /\ g.product = (IF stage = "set_product" THEN b.item ELSE f.product)
      /\ stage \in {"set_pbrands", "set_page", "set_shelf", "set_sort", "set_product", "set_back"}
         => Same("pbrands")
      /\ stage \in {"set_page", "set_shelf", "set_sort", "set_product", "set_back"} => Same("page")
      /\ stage = "set_pbrand" => Same("cats") /\ Same("pbrands") /\ g.product = f.product
      /\ stage = "set_cat" => Same("cats") /\ g.product = f.product
      /\ stage = "set_pick" => g.product = f.product
  BY <1>1, <1>2, <1>3 DEF Patched, Fsms, Narrowed
<1>5. ASSUME NEW s, s.kind \notin Breaks(b.kind), s.kind \in {"cats", "pbrands", "page"}
      PROVE  Same(s.kind)
  BY <1>2, <1>4, <1>5, Updates DEF Breaks
<1>6. ASSUME NEW s, s.kind \notin Breaks(b.kind), s.kind = "card"
      PROVE  g.product = f.product \/ strayed'
  <2>1. stage \in {"set_product", "set_back"} => b.kind = "product"
    BY <1>2, <1>6, Updates DEF Breaks
  <2>. QED
    BY <1>2, <1>4, <2>1, Updates
<1>7. \A day, cat, brand : Bought(day, cat, brand)' = Bought(day, cat, brand)
  BY CurrentSame
<1>8. fsm' = g /\ fsm = f
  BY <1>1, <1>3
<1>9. ASSUME NEW s, s.kind \notin Breaks(b.kind), Agrees(s)
      PROVE  Agrees(s)'
  <2>1. ASSUME s.kind \in {"cats", "pbrands", "page"}
        PROVE  \E x : /\ x = Narrowed(s.kind, g)
                     /\ \/ x = [day |-> s.day, cat |-> s.cat, brand |-> s.brand]
                        \/ Bought(x.day, x.cat, x.brand)' = {}
    <3>1. PICK x : x = Narrowed(s.kind, f)
      OBVIOUS
    <3>2. x = [day |-> s.day, cat |-> s.cat, brand |-> s.brand] \/ Bought(x.day, x.cat, x.brand) = {}
      BY <1>8, <1>9, <2>1, <3>1 DEF Agrees
    <3>3. Narrowed(s.kind, g) = x
      BY <1>5, <1>9, <2>1, <3>1
    <3>. QED
      BY <1>7, <3>2, <3>3
  <2>2. ASSUME s.kind = "card"
        PROVE  strayed' \/ s.rows = <<g.product>> \/ g.product \notin alive'
    <3>1. strayed \/ s.rows = <<fsm.product>> \/ fsm.product \notin alive
      BY <1>9, <2>2 DEF Agrees
    <3>2. g.product = f.product \/ strayed'
      BY <1>6, <1>9, <2>2
    <3>. QED
      BY <1>8, <3>1, <3>2
  <2>3. Narrowed(s.kind, fsm)' = Narrowed(s.kind, g)
    BY <1>8 DEF Narrowed
  <2>. QED
    BY <1>8, <2>1, <2>2, <2>3 DEF Agrees
<1>. QED
  BY <1>9

\* What has been written is what the stages to come rely on.
LEMMA UpdateFaithful ==
  ASSUME NEW v \in VisitRecords, v.at = "store", Proper(v), Stage(v) \in Sets, Faithful(v), fsm \in Fsms,
         fsm' = v.mem, alive' = alive,
         NEW y, y.at = "on", y.place = v.place, y.want = v.want, y.page = v.page, y.total = v.total,
         y.rows = v.rows, y.counts = v.counts,
         y.scope = (IF v.want.kind = "shelf" THEN v.mem ELSE v.scope),
         \A x : Past(y, x) <=> Past(v, x) \/ x = Stage(v)
  PROVE  Faithful(y)'
<1>1. PICK f \in Fsms : f = fsm
  OBVIOUS
<1>2. PICK stage : stage = Stage(v)
  OBVIOUS
<1>3. PICK g : g = Patched(Stage(v), v)
  OBVIOUS
<1>4. fsm' = g /\ fsm = f
  BY <1>1, <1>3 DEF Faithful
<1>. DEFINE b == v.want
            view == View(b.kind)
<1>5. /\ stage \in Sets
      /\ stage = "set_pick" => g.day = b.item /\ g.cat = 0 /\ g.brand = 0
      /\ stage = "set_cats" => g.day = f.day /\ g.cat = 0 /\ g.brand = 0
      /\ stage = "set_cat" => g.cat = b.item /\ g.brand = 0
      /\ stage = "set_pbrands" => g.day = f.day /\ g.cat = f.cat /\ g.brand = 0
      /\ stage = "set_pbrand" => g.brand = b.item
      /\ stage = "set_page" => g.day = f.day /\ g.cat = f.cat /\ g.brand = f.brand
      /\ stage = "set_product" => g.product = b.item
      /\ stage = "set_back" =>
           g.back = (IF b.qty > 0 THEN "proc" ELSE "brand") /\ g.qty = b.qty /\ g.product = f.product
  BY <1>1, <1>2, <1>3 DEF Patched, Fsms
<1>6. /\ Past(v, "set_pick") => stage = "set_cats"
      /\ Past(v, "set_cat") => stage = "set_pbrands"
      /\ Past(v, "set_pbrand") => stage = "set_page"
      /\ Past(v, "set_product") => stage = "set_back"
      /\ ~Past(v, "set_back")
      /\ Past(v, "scope") => stage \in {"set_cats", "set_pbrands", "set_page"} /\ b.kind # "refresh"
      /\ stage = "set_shelf" => \A x : ~Past(v, x)
      /\ stage = "set_cats" => view = "cats"
      /\ stage = "set_pbrands" => view = "pbrands"
      /\ stage = "set_page" => view = "page"
      /\ b.kind # "refresh"
      /\ stage = "set_shelf" <=> b.kind = "shelf"
  BY <1>2, StagesInOrder, Updates DEF InOrder, Proper, VisitRecords, Past
<1>7. ASSUME b.kind # "shelf" PROVE Subject(y) = Subject(v)
  BY <1>7 DEF Subject
<1>8. /\ \A u, x : /\ Found(u, x)' = Found(u, x)
                   /\ Orderings(u, x)' = Orderings(u, x)
      /\ \A u, x, row : Pieces(u, x, row)' = Pieces(u, x, row)
  BY CurrentSame
<1>9. \A x : Past(y, x) <=> Past(v, x) \/ x = stage
  BY <1>2
<1>10. /\ Past(y, "set_pick") => g.day = b.item /\ g.cat = 0 /\ g.brand = 0
       /\ Past(y, "set_cat") => g.cat = b.item /\ g.brand = 0
       /\ Past(y, "set_pbrand") => g.brand = b.item
       /\ Past(y, "set_product") => g.product = b.item
       /\ Past(y, "set_back") => g.back = (IF b.qty > 0 THEN "proc" ELSE "brand") /\ g.qty = b.qty
  BY <1>4, <1>5, <1>6, <1>9 DEF Faithful
<1>11. Past(y, "scope") => Subject(y) = Narrowed(view, g)
  <2>1. Past(v, "scope") => Narrowed(view, g) = Narrowed(view, f)
    BY <1>5, <1>6 DEF Narrowed
  <2>2. Past(v, "scope") => Subject(v) = Narrowed(view, f)
    BY <1>4 DEF Faithful
  <2>. QED
    BY <1>5, <1>6, <1>7, <1>9, <2>1, <2>2 DEF Sets
<1>12. /\ Past(y, "list") =>
            \E order \in Orderings(view, Subject(y)) :
              /\ y.rows = Cut(view, order, y.page)
              /\ y.counts = [i \in DOMAIN y.rows |-> Pieces(view, Subject(y), y.rows[i])]
       /\ Past(y, "count") => y.total = Cardinality(Found(view, Subject(y)))
       /\ Past(y, "find") => y.rows[1] \in alive /\ b.kind # "refresh"
  BY <1>5, <1>6, <1>7, <1>9 DEF Faithful, Sets
<1>13. Narrowed(view, fsm)' = Narrowed(view, g)
  BY <1>4 DEF Narrowed
<1>. QED
  BY <1>4, <1>8, <1>10, <1>11, <1>12, <1>13 DEF Faithful

LEMMA WriteFsmKeeps ==
  ASSUME SInv, NEW r \in Visitors, WriteFsm(r)
  PROVE  SInv'
<1>1. PICK v : v = visit[r]
  OBVIOUS
<1>2. /\ v \in VisitRecords /\ v.at = "store" /\ Proper(v) /\ fsm \in Fsms
      /\ visit \in [Visitors -> VisitRecords] /\ strayed \in BOOLEAN
  BY <1>1 DEF WriteFsm, SInv, Typed, Runnings, RunningOf
<1>3. Stage(v) \in Sets /\ Started(v)
  BY <1>2 DEF Proper, Started
<1>4. PICK scope : scope = IF v.want.kind = "shelf" THEN v.mem ELSE v.scope
  OBVIOUS
<1>5. PICK w : w = [v EXCEPT !.at = "on", !.scope = scope]
  OBVIOUS
<1>6. w \in VisitRecords
  <2>1. scope \in Fsms
    BY <1>2, <1>4 DEF VisitRecords
  <2>. QED
    BY <1>2, <1>5, <2>1 DEF VisitRecords
<1>7. /\ w.at = "on" /\ w.place = v.place /\ w.want = v.want /\ w.asked = v.asked
      /\ w.fresh = v.fresh /\ w.calm = v.calm /\ w.step = v.step
      /\ w.page = v.page /\ w.scope = scope /\ w.total = v.total /\ w.counts = v.counts
      /\ w.rows = v.rows /\ w.mem = v.mem
  BY <1>2, <1>5 DEF VisitRecords
<1>8. PICK y : y = OneOn(w)
  OBVIOUS
<1>9. Stage(v) # "show"
  BY <1>3 DEF Sets
<1>10. /\ y \in VisitRecords /\ y.step \in 1..Len(Plan(y.place, y.want.kind))
       /\ y.at = w.at /\ y.place = w.place /\ y.want = w.want /\ y.asked = w.asked
       /\ y.fresh = w.fresh /\ y.calm = w.calm
       /\ y.scope = w.scope /\ y.page = w.page
       /\ y.total = w.total /\ y.rows = w.rows /\ y.counts = w.counts
       /\ \A x : Past(y, x) <=> Past(v, x) \/ x = Stage(v)
  BY <1>2, <1>6, <1>7, <1>8, <1>9, Onward
<1>11. /\ visit' = [visit EXCEPT ![r] = y] /\ alive' = alive /\ fsm' = v.mem /\ screen' = screen
       /\ strayed' = (strayed \/ v.want.kind = "product")
  <2>1. visit' = [visit EXCEPT ![r].at = "on", ![r].step = v.step + 1, ![r].scope = scope]
    BY <1>1, <1>2, <1>4 DEF WriteFsm
  <2>2. y = [v EXCEPT !.at = "on", !.step = v.step + 1, !.scope = scope]
    BY <1>2, <1>5, <1>8 DEF OneOn, VisitRecords
  <2>3. visit' = [visit EXCEPT ![r] = y]
    BY <1>1, <1>2, <2>1, <2>2
  <2>. QED
    BY <1>1, <2>3 DEF WriteFsm
<1>12. visit'[r] = y
  BY <1>2, <1>11
<1>13. Proper(y)
  <2>1. Stage(v) = "set_shelf" => v.want.kind = "shelf"
    BY <1>2, <1>3, Updates
  <2>2. ~Past(v, "set_shelf")
    BY <1>2, <1>3, StagesInOrder DEF InOrder, Proper, VisitRecords, Past
  <2>. QED
    BY <1>2, <1>3, <1>4, <1>7, <1>10, <2>1, <2>2 DEF Proper, Started, Sets
<1>14. Started(y)
  BY <1>7, <1>10 DEF Started
<1>15. ASSUME Trusted(visit[r])
       PROVE  Faithful(visit[r])' /\ \A s : Kept(visit[r], s) => Kept(visit[r], s)'
  <2>1. Faithful(v)
    BY <1>1, <1>3, <1>15, TrustedAlone
  <2>2. Faithful(y)'
    BY <1>2, <1>3, <1>4, <1>7, <1>10, <1>11, <2>1, UpdateFaithful
  <2>3. fsm' = Patched(Stage(v), v)
    BY <1>2, <1>11, <2>1 DEF Faithful
  <2>4. \A s : s.kind \notin Breaks(v.want.kind) /\ Agrees(s) => Agrees(s)'
    BY <1>2, <1>3, <1>11, <2>3, UpdateAgrees
  <2>5. Dirty(y)
    BY <1>3, <1>10 DEF Dirty
  <2>6. \A s : Kept(v, s) => Kept(y, s)'
    BY <1>7, <1>10, <2>4, <2>5 DEF Kept, Dirty, Past
  <2>7. \A u : u = y => Faithful(u)'
    BY <2>2
  <2>8. \A u, s : u = y /\ Kept(v, s) => Kept(u, s)'
    BY <2>6
  <2>. QED
    BY <1>1, <1>12, <2>7, <2>8
<1>16. fsm' \in Fsms /\ strayed' \in BOOLEAN
  BY <1>2, <1>11 DEF VisitRecords
<1>. QED
  BY <1>1, <1>2, <1>3, <1>7, <1>10, <1>11, <1>13, <1>14, <1>15, <1>16, OnKeeps

\* The handlers of the shop update nothing that a screen of purchases is about.
LEMMA ShopBreaks ==
  ASSUME NEW v \in VisitRecords, Proper(v), v.at # "idle", v.place = "shop"
  PROVE  Breaks(v.want.kind) = {}
<1>1. v.want.kind \in {"categories", "category", "brands", "products", "product"}
  <2>1. v.want \in Offered(v.place, v.asked)
    BY DEF Proper
  <2>2. v.place \in Places /\ v.asked \in Screens
    BY DEF VisitRecords
  <2>3. LeadsFrom(v.place, v.asked, v.want)
    BY <2>1, <2>2, OfferedLeads
  <2>. QED
    BY <2>3 DEF LeadsFrom
<1>. QED
  BY <1>1, BreaksNothing

LEMMA ShowFailsKeeps ==
  ASSUME SInv, NEW r \in Visitors, ShowFails(r)
  PROVE  SInv'
<1>1. PICK v : v = visit[r]
  OBVIOUS
<1>2. /\ v \in VisitRecords /\ v.at = "on" /\ Proper(v) /\ screen \in [Places -> Screens]
      /\ ScreensHonest
  BY <1>1 DEF ShowFails, At, SInv, Typed, Runnings, RunningOf
<1>3. PICK place \in Places : place = v.place
  BY <1>2 DEF VisitRecords
<1>4. PICK s \in Screens : s = screen[place]
  BY <1>2
<1>5. PICK e : e = [s EXCEPT !.fresh = FALSE]
  OBVIOUS
<1>6. e \in Screens /\ ~e.fresh /\ TrueToButton(e)
  BY <1>2, <1>4, <1>5, StaleScreen DEF ScreensHonest
<1>7. /\ visit' = [visit EXCEPT ![r] = NoVisit] /\ alive' = alive /\ fsm' = fsm
      /\ strayed' = strayed /\ screen' = [screen EXCEPT ![place] = e]
  BY <1>1, <1>2, <1>3, <1>4, <1>5 DEF ShowFails
<1>8. place = "shop" => Breaks(visit[r].want.kind) = {}
  BY <1>1, <1>2, <1>3, ShopBreaks
<1>9. Started(visit[r])
  BY <1>1, <1>2 DEF Started
<1>. QED
  BY <1>1, <1>3, <1>6, <1>7, <1>8, <1>9, ScreenKeeps

-----------------------------------------------------------------------------
(***************************************************************************)
(* What a handler shows.                                                   *)
(***************************************************************************)

LEMMA AtShow ==
  ASSUME NEW v \in VisitRecords, v.at = "on", Stage(v) = "show", Proper(v)
  PROVE  LET kind == v.want.kind
             view == View(kind) IN
         /\ view \in Listings => Past(v, "list")
         /\ Paged(view) => Past(v, "count")
         /\ view \in {"cats", "pbrands", "page"} => Past(v, "scope")
         /\ kind \in {"card", "product", "refresh"} => Past(v, "find")
         /\ kind = "card" => Past(v, "set_product") /\ Past(v, "set_back")
         /\ kind = "shelf" => Past(v, "set_shelf")
         /\ kind = "cat" => Past(v, "set_cat")
         /\ kind = "pbrand" => Past(v, "set_pbrand")
         /\ Asks(v.want) /\ LeadsFrom(v.place, v.asked, v.want)
<1>1. InOrder(v)
  BY StagesInOrder DEF Proper, VisitRecords
<1>2. v.want \in Offered(v.place, v.asked) /\ Asks(v.want)
  BY DEF Proper
<1>3. v.place \in Places /\ v.asked \in Screens
  BY DEF VisitRecords
<1>4. LeadsFrom(v.place, v.asked, v.want)
  BY <1>2, <1>3, OfferedLeads
<1>. QED
  BY <1>1, <1>2, <1>4 DEF InOrder, Past

LEMMA SubjectType ==
  ASSUME NEW v \in VisitRecords
  PROVE  Subject(v).day \in Nat /\ Subject(v).cat \in Nat /\ Subject(v).brand \in Nat
<1>1. /\ v.want.cat \in Nat /\ v.want.brand \in Nat /\ v.scope \in Fsms
  BY DEF VisitRecords, Buttons
<1>2. Days \subseteq Nat /\ Cats \subseteq Nat
  BY GoodsFields, GoodsAssumption DEF Days
<1>3. /\ v.scope.day \in Nat /\ v.scope.cat \in Nat /\ v.scope.brand \in Nat
      /\ v.scope.shelf[1] \in Nat /\ v.scope.shelf[2] \in Nat
  <2>1. /\ v.scope.day \in Days \cup {0} /\ v.scope.cat \in Cats \cup {0} /\ v.scope.brand \in Nat
        /\ v.scope.shelf \in Nat \X Nat
    BY <1>1 DEF Fsms
  <2>2. v.scope.shelf[1] \in Nat /\ v.scope.shelf[2] \in Nat
    BY <2>1
  <2>3. v.scope.day \in Nat /\ v.scope.cat \in Nat
    <3>1. Days \cup {0} \subseteq Nat /\ Cats \cup {0} \subseteq Nat
      BY <1>2
    <3>2. /\ v.scope.day \in Days \cup {0} /\ v.scope.cat \in Cats \cup {0}
      BY <2>1
    <3>. QED
      BY <3>1, <3>2, Zenon
  <2>. QED
    BY <2>1, <2>2, <2>3
<1>. QED
  BY <1>1, <1>3 DEF Subject, Narrowed

LEMMA ShownFields ==
  ASSUME NEW v, NEW s, s = Shown(v)
  PROVE  LET view == View(v.want.kind)
             p == v.rows[1] IN
         /\ s = [kind |-> view, day |-> Subject(v).day,
                 cat |-> IF view = "card" THEN Goods[p].cat ELSE Subject(v).cat,
                 brand |-> IF view = "card" THEN Goods[p].brand ELSE Subject(v).brand,
                 page |-> v.page, total |-> v.total, rows |-> v.rows, counts |-> v.counts,
                 qty |-> IF view = "card" /\ fsm.back = "proc" THEN fsm.qty ELSE 0,
                 fresh |-> v.calm, calm |-> v.calm, sure |-> v.fresh, by |-> v.want,
                 before |-> v.asked.rows]
         /\ s.kind = view /\ s.day = Subject(v).day
         /\ view # "card" => s.cat = Subject(v).cat /\ s.brand = Subject(v).brand
         /\ s.page = v.page /\ s.total = v.total /\ s.rows = v.rows /\ s.counts = v.counts
         /\ s.qty = (IF view = "card" /\ fsm.back = "proc" THEN fsm.qty ELSE 0)
         /\ s.fresh = v.calm /\ s.calm = v.calm /\ s.sure = v.fresh /\ s.by = v.want
         /\ s.before = v.asked.rows
BY ZenonT(60) DEF Shown, Blank

LEMMA ShownType ==
  ASSUME NEW v \in VisitRecords, v.at = "on", Stage(v) = "show", Proper(v), fsm \in Fsms
  PROVE  Shown(v) \in Screens
<1>1. PICK s : s = Shown(v)
  OBVIOUS
<1>. DEFINE kind == v.want.kind
            view == View(kind)
            p == v.rows[1]
<1>2. PICK cat : cat = IF view = "card" THEN Goods[p].cat ELSE Subject(v).cat
  OBVIOUS
<1>3. PICK brand : brand = IF view = "card" THEN Goods[p].brand ELSE Subject(v).brand
  OBVIOUS
<1>4. PICK qty : qty = IF view = "card" /\ fsm.back = "proc" THEN fsm.qty ELSE 0
  OBVIOUS
<1>5. s = [kind |-> view, day |-> Subject(v).day, cat |-> cat, brand |-> brand,
           page |-> v.page, total |-> v.total, rows |-> v.rows, counts |-> v.counts, qty |-> qty,
           fresh |-> v.calm, calm |-> v.calm, sure |-> v.fresh, by |-> v.want,
           before |-> v.asked.rows]
  BY <1>1, <1>2, <1>3, <1>4, ShownFields
<1>6. /\ v.page \in Nat \ {0} /\ v.total \in Nat /\ v.rows \in Seq(Nat) /\ v.counts \in Seq(Nat)
      /\ v.calm \in BOOLEAN /\ v.fresh \in BOOLEAN /\ v.want \in Buttons /\ v.asked.rows \in Seq(Nat)
      /\ Subject(v).day \in Nat
  BY SubjectType DEF VisitRecords, Screens
<1>7. view \in Listings \cup {"product", "card", "sorts", "days", "dash", "empty", "closed"}
  BY <1>6 DEF Buttons, View, Listings
<1>8. cat \in Nat /\ brand \in Nat
  <2>1. view = "card" => p \in Products
    <3>1. view = "card" => Len(v.rows) = 1
      BY <1>6, AtShow DEF Proper, View, Buttons, Listings
    <3>2. view = "card" => p \in ToSet(v.rows)
      BY <1>6, <3>1, LenProperties DEF ToSet
    <3>3. ToSet(v.rows) \subseteq RowsOf(view)
      BY DEF Proper
    <3>. QED
      BY <3>2, <3>3 DEF RowsOf
  <2>2. Cats \subseteq Nat
    BY GoodsAssumption
  <2>. QED
    BY <1>2, <1>3, <2>1, <2>2, GoodsFields, SubjectType
<1>9. qty \in Nat
  BY <1>4 DEF Fsms
<1>10. ToSet(v.rows) \subseteq RowsOf(view) /\ IsInjective(v.rows)
  BY DEF Proper
<1>11. view \in Listings => Len(v.counts) = Len(v.rows)
  BY AtShow DEF Proper
<1>12. view \in {"categories", "page"} => v.page \in 1..TotalPages(v.total, Size)
  BY AtShow DEF Proper, Paged, Clamped
<1>13. /\ s.kind = view /\ s.rows = v.rows /\ s.counts = v.counts /\ s.page = v.page
       /\ s.total = v.total
  BY <1>5
<1>. QED
  BY <1>1, <1>5, <1>6, <1>7, <1>8, <1>9, <1>10, <1>11, <1>12, <1>13 DEF Screens

\* The queries see of a screen the day, the category and the brand only.
LEMMA SubjectOnly ==
  ASSUME NEW view, NEW x, NEW z, x.day = z.day, x.cat = z.cat, x.brand = z.brand
  PROVE  /\ Found(view, x) = Found(view, z) /\ Orderings(view, x) = Orderings(view, z)
         /\ \A row : Pieces(view, x, row) = Pieces(view, z, row)
<1>1. Found(view, x) = Found(view, z)
  BY DEF Found
<1>2. \A row : Promised(view, x, row) = Promised(view, z, row)
  BY DEF Promised
<1>. QED
  BY <1>1, <1>2 DEF Orderings, Pieces

LEMMA ShownCurrent ==
  ASSUME NEW v \in VisitRecords, v.at = "on", Stage(v) = "show", Proper(v), Faithful(v),
         alive \subseteq Products
  PROVE  Current(Shown(v))
<1>1. PICK s : s = Shown(v)
  OBVIOUS
<1>2. PICK view : view = View(v.want.kind)
  OBVIOUS
<1>3. PICK x : x = Subject(v)
  OBVIOUS
<1>0. s.kind = view
  BY <1>1, <1>2, ShownFields
<1>4. SUFFICES ASSUME view \in Listings PROVE Current(s)
  BY <1>0, <1>1 DEF Current
<1>5. /\ s.kind = view /\ s.day = x.day /\ s.cat = x.cat /\ s.brand = x.brand
      /\ s.page = v.page /\ s.total = v.total /\ s.rows = v.rows /\ s.counts = v.counts
  BY <1>1, <1>2, <1>3, <1>4, ShownFields, ZenonT(60) DEF Listings
<1>6. PICK order \in Orderings(view, x) :
         /\ v.rows = Cut(view, order, v.page)
         /\ v.counts = [i \in DOMAIN v.rows |-> Pieces(view, x, v.rows[i])]
  BY <1>2, <1>3, <1>4, AtShow DEF Faithful
<1>7. Paged(view) => v.total = Len(order)
  BY <1>2, <1>3, <1>4, <1>6, AtShow, OrderingType DEF Faithful
<1>8. order \in Orderings(view, s) /\ \A row : Pieces(view, s, row) = Pieces(view, x, row)
  BY <1>5, <1>6, SubjectOnly
<1>. QED
  BY <1>5, <1>6, <1>7, <1>8 DEF Current

LEMMA ShownAgrees ==
  ASSUME NEW v \in VisitRecords, v.at = "on", Stage(v) = "show", Proper(v), Faithful(v)
  PROVE  Agrees(Shown(v))
<1>1. PICK s : s = Shown(v)
  OBVIOUS
<1>2. PICK view : view = View(v.want.kind)
  OBVIOUS
<1>3. PICK x : x = Subject(v)
  OBVIOUS
<1>4. /\ s.kind = view /\ s.day = x.day /\ s.rows = v.rows
      /\ view # "card" => s.cat = x.cat /\ s.brand = x.brand
  BY <1>1, <1>2, <1>3, ShownFields
<1>5. ASSUME view \in {"cats", "pbrands", "page"}
      PROVE  Narrowed(view, fsm) = [day |-> s.day, cat |-> s.cat, brand |-> s.brand]
  <2>1. x = Narrowed(view, fsm)
    BY <1>2, <1>3, <1>5, AtShow DEF Faithful
  <2>. QED
    BY <1>4, <1>5, <2>1 DEF Narrowed
<1>6. ASSUME view = "card" PROVE v.rows = <<fsm.product>>
  <2>1. v.want.kind \in {"card", "refresh"} /\ v.rows \in Seq(Nat)
    BY <1>2, <1>6 DEF View, VisitRecords, Buttons, Listings
  <2>2. Len(v.rows) = 1 /\ v.rows[1] = fsm.product
    BY <2>1, AtShow DEF Proper, Faithful
  <2>. QED
    BY <2>1, <2>2
<1>. QED
  BY <1>1, <1>4, <1>5, <1>6 DEF Agrees

\* A screen of one reading has the rows its page should have.
LEMMA CurrentFull ==
  ASSUME alive \subseteq Products, NEW s, s.page \in Nat \ {0}, s.kind \in Listings, Current(s), Paged(s.kind)
  PROVE  /\ s.total = Cardinality(Found(s.kind, s)) /\ s.total \in Nat
         /\ Len(s.rows) = Greatest(0, Least(Size, s.total - Size * (s.page - 1)))
<1>1. PICK order \in Orderings(s.kind, s) :
        s.rows = Cut(s.kind, order, s.page) /\ s.total = Len(order)
  BY DEF Current
<1>2. order \in Seq(Nat) /\ Len(order) = Cardinality(Found(s.kind, s)) /\ IsInjective(order)
  BY <1>1, OrderingType
<1>3. PICK page \in Nat \ {0} : page = s.page
  OBVIOUS
<1>4. PICK view : view = s.kind
  OBVIOUS
<1>5. Len(Cut(view, order, page)) = Greatest(0, Least(Size, Len(order) - Size * (page - 1)))
  BY <1>2, <1>4, CutRows
<1>. QED
  BY <1>1, <1>2, <1>3, <1>4, <1>5, LenProperties

-----------------------------------------------------------------------------
(***************************************************************************)
(* What the buttons promise.                                               *)
(***************************************************************************)

\* Pages next to each other have no row in common.
LEMMA NextPage ==
  ASSUME NEW CONSTANT order \in Seq(Nat), IsInjective(order), NEW view, Paged(view),
         NEW p \in Nat \ {0}, NEW q \in Nat \ {0}, q = p + 1
  PROVE  ToSet(Cut(view, order, p)) \cap ToSet(Cut(view, order, q)) = {}
<1>1. PICK a : a = Size * (p - 1)
  OBVIOUS
<1>2. PICK P : P = Cut(view, order, p)
  OBVIOUS
<1>3. PICK Q : Q = Cut(view, order, q)
  OBVIOUS
<1>4. Size \in Nat \ {0} /\ Len(order) \in Nat /\ DOMAIN order = 1..Len(order)
  BY GoodsAssumption, LenProperties
<1>5. /\ a \in Nat /\ P \in Seq(Nat) /\ Len(P) = Greatest(0, Least(Size, Len(order) - a))
      /\ \A i \in 1..Len(P) : a + i \in 1..Len(order) /\ P[i] = order[a + i]
  BY <1>1, <1>2, CutRows
<1>6. Size * (q - 1) = a + Size
  <2>1. q - 1 = (p - 1) + 1 /\ p - 1 \in Int
    OBVIOUS
  <2>. QED
    BY <1>1, <1>4, <2>1, SMTT(30)
<1>7. /\ Q \in Seq(Nat)
      /\ \A i \in 1..Len(Q) : a + Size + i \in 1..Len(order) /\ Q[i] = order[a + Size + i]
  BY <1>3, <1>6, CutRows, SMTT(30)
<1>8. Len(P) \in Nat /\ Len(P) <= Size /\ DOMAIN P = 1..Len(P) /\ DOMAIN Q = 1..Len(Q)
      /\ Len(Q) \in Nat
  <2>1. Len(P) \in Nat /\ DOMAIN P = 1..Len(P) /\ DOMAIN Q = 1..Len(Q) /\ Len(Q) \in Nat
    BY <1>5, <1>7, LenProperties
  <2>2. Len(P) <= Size
    <3>1. PICK n \in Nat : n = Len(order)
      BY <1>4
    <3>2. PICK c \in Nat \ {0} : c = Size
      BY <1>4
    <3>3. PICK m \in Nat : m = Len(P)
      BY <2>1
    <3>4. m = Greatest(0, Least(c, n - a)) /\ a \in Nat
      BY <1>5, <3>1, <3>2, <3>3
    <3>5. m <= c
      BY <3>4 DEF Greatest, Least
    <3>. QED
      BY <3>2, <3>3, <3>5
  <2>. QED
    BY <2>1, <2>2
<1>9. ASSUME NEW i \in 1..Len(P), NEW j \in 1..Len(Q), P[i] = Q[j] PROVE FALSE
  <2>1. a + i \in DOMAIN order /\ a + Size + j \in DOMAIN order /\ order[a + i] = order[a + Size + j]
    BY <1>4, <1>5, <1>7, <1>9
  <2>2. a + i = a + Size + j
    BY <2>1 DEF IsInjective
  <2>. QED
    BY <1>4, <1>5, <1>8, <2>2
<1>. QED
  BY <1>2, <1>3, <1>8, <1>9 DEF ToSet

LEMMA PagesApart ==
  ASSUME NEW CONSTANT order \in Seq(Nat), IsInjective(order), NEW view, Paged(view),
         NEW p \in Nat \ {0}, NEW q \in Nat \ {0}, p \in {q - 1, q + 1}
  PROVE  ToSet(Cut(view, order, p)) \cap ToSet(Cut(view, order, q)) = {}
<1>1. q = p + 1 \/ p = q + 1
  OBVIOUS
<1>. QED
  BY <1>1, NextPage

\* The brands of a category share out its purchases.
LEMMA BrandsSum ==
  ASSUME alive \subseteq Products, NEW day, NEW cat, NEW rows \in Seq(Nat), IsInjective(rows),
         ToSet(rows) = {BrandOf(p) : p \in Bought(day, cat, 0)},
         NEW counts, DOMAIN counts = DOMAIN rows,
         \A i \in DOMAIN rows : counts[i] = Cardinality(Bought(day, cat, rows[i]))
  PROVE  Sum(counts) = Cardinality(Bought(day, cat, 0))
<1>. DEFINE B == Bought(day, cat, 0)
            Of(i) == Bought(day, cat, rows[i])
            T == UNION {{i} \X (1..counts[i]) : i \in DOMAIN counts}
            g == [i \in DOMAIN rows |-> CHOOSE m : m \in Bijection(1..counts[i], Of(i))]
            h == [z \in T |-> g[z[1]][z[2]]]
<1>1. B \subseteq Products /\ IsFiniteSet(B)
  BY BoughtFinite
<1>2. ASSUME NEW i \in DOMAIN rows
      PROVE  Of(i) = {p \in B : BrandOf(p) = rows[i]} /\ rows[i] # 0
  <2>1. rows[i] \in {BrandOf(p) : p \in B}
    BY DEF ToSet
  <2>2. rows[i] # 0
    BY <1>1, <2>1, GoodsFields DEF BrandOf
  <2>. QED
    BY <1>1, <2>2, GoodsFields DEF Bought, BrandOf
<1>3. ASSUME NEW i \in DOMAIN rows PROVE g[i] \in Bijection(1..counts[i], Of(i))
  <2>1. IsFiniteSet(Of(i)) /\ counts[i] = Cardinality(Of(i))
    BY BoughtFinite
  <2>2. \E m : m \in Bijection(1..counts[i], Of(i))
    BY <2>1, FS_CardinalityType DEF ExistsBijection
  <2>3. g[i] = CHOOSE m : m \in Bijection(1..counts[i], Of(i))
    OBVIOUS
  <2>. QED
    BY <2>2, <2>3
<1>. HIDE DEF g
<1>4. ASSUME NEW z \in T
      PROVE  /\ z[1] \in DOMAIN rows /\ z[2] \in 1..counts[z[1]] /\ z = <<z[1], z[2]>>
             /\ h[z] = g[z[1]][z[2]] /\ h[z] \in B /\ BrandOf(h[z]) = rows[z[1]]
  <2>1. z[1] \in DOMAIN rows /\ z[2] \in 1..counts[z[1]] /\ z = <<z[1], z[2]>>
    OBVIOUS
  <2>2. g[z[1]][z[2]] \in Of(z[1])
    BY <1>3, <2>1 DEF Bijection, Injection
  <2>. QED
    BY <1>2, <2>1, <2>2
<1>5. h \in [T -> B]
  BY <1>4
<1>6. ASSUME NEW y \in T, NEW z \in T, h[y] = h[z] PROVE y = z
  <2>1. rows[y[1]] = rows[z[1]]
    BY <1>4, <1>6
  <2>2. y[1] = z[1]
    BY <1>4, <2>1 DEF IsInjective
  <2>3. g[y[1]][y[2]] = g[y[1]][z[2]]
    BY <1>4, <1>6, <2>2
  <2>4. g[y[1]] \in Bijection(1..counts[y[1]], Of(y[1])) /\ y[2] \in 1..counts[y[1]] /\ z[2] \in 1..counts[y[1]]
    BY <1>3, <1>4, <2>2
  <2>5. y[2] = z[2]
    BY <2>3, <2>4 DEF Bijection, Injection, IsInjective
  <2>. QED
    BY <1>4, <2>2, <2>5
<1>7. ASSUME NEW p \in B PROVE \E z \in T : h[z] = p
  <2>1. BrandOf(p) \in ToSet(rows)
    OBVIOUS
  <2>2. PICK i \in DOMAIN rows : rows[i] = BrandOf(p)
    BY <2>1 DEF ToSet
  <2>3. p \in Of(i)
    BY <1>2, <2>2
  <2>4. PICK k \in 1..counts[i] : g[i][k] = p
    BY <1>3, <2>3 DEF Bijection, Surjection
  <2>5. <<i, k>> \in T
    OBVIOUS
  <2>. QED
    BY <2>4, <2>5
<1>. HIDE DEF h, T
<1>8. h \in Injection(T, B)
  BY <1>5, <1>6 DEF Injection, IsInjective
<1>9. h \in Surjection(T, B)
  BY <1>5, <1>7 DEF Surjection
<1>. QED
  BY <1>1, <1>8, <1>9, FS_Injection DEF Sum, T

LEMMA CurrentCounts ==
  ASSUME NEW s, s.kind \in Listings, Current(s), NEW i \in DOMAIN s.rows
  PROVE  s.counts[i] = Pieces(s.kind, s, s.rows[i])
BY DEF Current

\* A brand's shelf has as many products as its button said.
LEMMA ShelfPromise ==
  ASSUME alive \subseteq Products, NEW v \in VisitRecords, v.at = "on", Stage(v) = "show", Proper(v), Faithful(v),
         v.want.kind = "shelf", v.asked.kind = "brands", Current(v.asked),
         NEW i \in DOMAIN v.asked.rows, v.want.promise = v.asked.counts[i],
         v.want.cat = v.asked.cat, v.want.brand = v.asked.rows[i]
  PROVE  Len(v.rows) = v.want.promise
<1>1. PICK x : x = Subject(v)
  OBVIOUS
<1>2. v.want.promise = Cardinality(InShop(v.want.cat, v.want.brand))
  <2>1. v.asked.counts[i] = Pieces("brands", v.asked, v.asked.rows[i])
    BY CurrentCounts DEF Listings
  <2>. QED
    BY <2>1 DEF Pieces, Promised
<1>3. x.cat = v.want.cat /\ x.brand = v.want.brand
  <2>1. v.scope.shelf = <<v.want.cat, v.want.brand>>
    BY AtShow DEF Proper
  <2>2. x.cat = v.scope.shelf[1] /\ x.brand = v.scope.shelf[2]
    BY <1>1 DEF Subject, View
  <2>. QED
    BY <2>1, <2>2
<1>4. PICK order \in Orderings("shelf", x) : v.rows = Cut("shelf", order, v.page)
  BY <1>1, AtShow DEF Faithful, View, Listings
<1>5. Len(order) = Cardinality(Found("shelf", x))
  BY OrderingType DEF Listings
<1>6. v.rows = order
  BY <1>4 DEF Cut, Paged
<1>. QED
  BY <1>2, <1>3, <1>5, <1>6 DEF Found

\* A category's brands share out the purchases its button said.
LEMMA CatPromise ==
  ASSUME alive \subseteq Products, NEW v \in VisitRecords, v.at = "on", Stage(v) = "show", Proper(v), Faithful(v),
         v.want.kind = "cat", v.asked.kind = "cats", Current(v.asked), Kept(v, v.asked),
         NEW i \in DOMAIN v.asked.rows, v.want.promise = v.asked.counts[i],
         v.want.item = v.asked.rows[i]
  PROVE  Sum(v.counts) = v.want.promise
<1>1. PICK x : x = Subject(v)
  OBVIOUS
<1>2. v.want.promise = Cardinality(Bought(v.asked.day, v.want.item, 0))
  <2>1. v.asked.counts[i] = Pieces("cats", v.asked, v.asked.rows[i])
    BY CurrentCounts DEF Listings
  <2>. QED
    BY <2>1 DEF Pieces, Promised
<1>3. View(v.want.kind) = "pbrands" /\ "pbrands" \in Listings /\ ~Paged("pbrands")
  BY DEF View, Listings, Paged
<1>4. x = Narrowed("pbrands", fsm) /\ fsm.cat = v.want.item
  BY <1>1, <1>3, AtShow DEF Faithful
<1>5. x.day = fsm.day /\ x.cat = v.want.item
  BY <1>4 DEF Narrowed
<1>6. PICK order \in Orderings("pbrands", x) :
        /\ v.rows = Cut("pbrands", order, v.page)
        /\ v.counts = [j \in DOMAIN v.rows |-> Pieces("pbrands", x, v.rows[j])]
  BY <1>1, <1>3, AtShow DEF Faithful
<1>7. /\ order \in Seq(Nat) /\ IsInjective(order) /\ ToSet(order) = Found("pbrands", x)
  BY <1>3, OrderingType
<1>8. v.rows = order /\ v.rows # <<>>
  BY <1>3, <1>6, AtShow DEF Cut, Proper
<1>9. Found("pbrands", x) = {BrandOf(p) : p \in Bought(x.day, x.cat, 0)}
  BY DEF Found
<1>10. x.day = v.asked.day
  <2>1. Agrees(v.asked)
    BY DEF Kept, Breaks
  <2>2. \/ Narrowed("cats", fsm) = [day |-> v.asked.day, cat |-> v.asked.cat, brand |-> v.asked.brand]
        \/ Bought(fsm.day, 0, 0) = {}
    BY <2>1 DEF Agrees, Narrowed
  <2>3. ASSUME Bought(fsm.day, 0, 0) = {} PROVE FALSE
    <3>1. Bought(x.day, x.cat, 0) = {}
      BY <1>5, <2>3 DEF Bought
    <3>2. ToSet(order) = {}
      BY <1>7, <1>9, <3>1
    <3>3. order[1] \in ToSet(order)
      BY <1>7, <1>8 DEF ToSet
    <3>. QED
      BY <3>2, <3>3
  <2>. QED
    BY <1>5, <2>2, <2>3 DEF Narrowed
<1>11. PICK counts : counts = v.counts
  OBVIOUS
<1>12. PICK rows : rows = v.rows
  OBVIOUS
<1>13. /\ DOMAIN counts = DOMAIN rows
       /\ \A j \in DOMAIN rows : counts[j] = Cardinality(Bought(x.day, x.cat, rows[j]))
  BY <1>6, <1>11, <1>12 DEF Pieces, Promised
<1>14. Sum(counts) = Cardinality(Bought(x.day, x.cat, 0))
  BY <1>7, <1>8, <1>9, <1>12, <1>13, BrandsSum
<1>. QED
  BY <1>2, <1>5, <1>10, <1>11, <1>14

\* A brand's page counts the purchases its button said.
LEMMA BrandPromise ==
  ASSUME alive \subseteq Products, NEW v \in VisitRecords, v.at = "on", Stage(v) = "show", Proper(v), Faithful(v),
         v.want.kind = "pbrand", v.asked.kind = "pbrands", Current(v.asked), Kept(v, v.asked),
         NEW i \in DOMAIN v.asked.rows, v.want.promise = v.asked.counts[i],
         v.want.item = v.asked.rows[i]
  PROVE  v.total = v.want.promise
<1>1. PICK x : x = Subject(v)
  OBVIOUS
<1>2. v.want.promise = Cardinality(Bought(v.asked.day, v.asked.cat, v.want.item))
  <2>1. v.asked.counts[i] = Pieces("pbrands", v.asked, v.asked.rows[i])
    BY CurrentCounts DEF Listings
  <2>. QED
    BY <2>1 DEF Pieces, Promised
<1>3. View(v.want.kind) = "page" /\ Paged("page")
  BY DEF View, Paged
<1>4. x = Narrowed("page", fsm) /\ fsm.brand = v.want.item
  BY <1>1, <1>3, AtShow DEF Faithful
<1>5. v.total = Cardinality(Bought(fsm.day, fsm.cat, v.want.item)) /\ v.total > 0
  <2>1. v.total = Cardinality(Found("page", x)) /\ v.total > 0
    BY <1>1, <1>3, AtShow DEF Faithful, Proper
  <2>. QED
    BY <1>4, <2>1 DEF Found, Narrowed
<1>6. fsm.day = v.asked.day /\ fsm.cat = v.asked.cat
  <2>1. Agrees(v.asked)
    BY DEF Kept, Breaks
  <2>2. \/ Narrowed("pbrands", fsm) = [day |-> v.asked.day, cat |-> v.asked.cat, brand |-> v.asked.brand]
        \/ Bought(fsm.day, fsm.cat, 0) = {}
    BY <2>1 DEF Agrees, Narrowed
  <2>3. ASSUME Bought(fsm.day, fsm.cat, 0) = {} PROVE FALSE
    <3>1. Bought(fsm.day, fsm.cat, v.want.item) = {}
      BY <2>3 DEF Bought
    <3>. QED
      BY <1>5, <3>1, FS_EmptySet
  <2>. QED
    BY <2>2, <2>3 DEF Narrowed
<1>. QED
  BY <1>2, <1>5, <1>6

LEMMA PromiseKept ==
  ASSUME alive \subseteq Products, NEW v \in VisitRecords, v.at = "on", Stage(v) = "show", Proper(v), Faithful(v),
         Current(v.asked), v.place = "store" => Kept(v, v.asked),
         v.want.promise > 0, View(v.want.kind) \in {"pbrands", "page", "shelf"},
         NEW s, s = Shown(v)
  PROVE  Held(s) = v.want.promise
<1>1. s.kind = View(v.want.kind) /\ s.rows = v.rows /\ s.counts = v.counts /\ s.total = v.total
  BY ShownFields
<1>2. LeadsFrom(v.place, v.asked, v.want) /\ v.place \in Places
  BY AtShow DEF VisitRecords
<1>3. v.want.kind \notin {"category", "product", "card"}
  BY DEF View
<1>4. PICK i \in DOMAIN v.asked.rows :
         /\ v.want.promise = v.asked.counts[i]
         /\ \/ v.want.kind = "shelf" /\ v.asked.kind = "brands" /\ v.want.cat = v.asked.cat
               /\ v.want.brand = v.asked.rows[i]
            \/ v.want.kind = "cat" /\ v.asked.kind = "cats" /\ v.want.item = v.asked.rows[i]
            \/ v.want.kind = "pbrand" /\ v.asked.kind = "pbrands" /\ v.want.item = v.asked.rows[i]
  BY <1>2, <1>3 DEF LeadsFrom
<1>5. v.place = "store"
  BY <1>2, <1>4 DEF LeadsFrom, Places
<1>6. CASE v.want.kind = "shelf"
  <2>1. Len(v.rows) = v.want.promise
    BY <1>4, <1>6, ShelfPromise
  <2>. QED
    BY <1>1, <1>6, <2>1 DEF Held, View
<1>7. CASE v.want.kind = "cat"
  <2>1. Sum(v.counts) = v.want.promise
    BY <1>4, <1>5, <1>7, CatPromise
  <2>. QED
    BY <1>1, <1>7, <2>1 DEF Held, View
<1>8. CASE v.want.kind = "pbrand"
  <2>1. v.total = v.want.promise
    BY <1>4, <1>5, <1>8, BrandPromise
  <2>. QED
    BY <1>1, <1>8, <2>1 DEF Held, View
<1>. QED
  BY <1>4, <1>6, <1>7, <1>8

LEMMA LastPage ==
  ASSUME NEW n \in Nat, NEW page \in Nat \ {0}, page > 1, page <= (n + Size - 1) \div Size
  PROVE  page \in 1..TotalPages(n, Size)
<1>1. PICK k : k = (n + Size - 1) \div Size
  OBVIOUS
<1>2. k \in Int
  <2>1. Size \in Nat \ {0}
    BY GoodsAssumption
  <2>. QED
    BY <1>1, <2>1
<1>. QED
  BY <1>1, <1>2 DEF TotalPages, Greatest

LEMMA PageHasRows ==
  ASSUME NEW n \in Nat, NEW page \in Nat \ {0}
  PROVE  Size * (page - 1) < n <=> Greatest(0, Least(Size, n - Size * (page - 1))) # 0
<1>1. Size \in Nat \ {0}
  BY GoodsAssumption
<1>2. PICK a : a = Size * (page - 1)
  OBVIOUS
<1>3. a \in Int
  BY <1>1, <1>2, SMTT(30)
<1>. QED
  BY <1>1, <1>2, <1>3 DEF Greatest, Least

\* A page has rows if the page its arrow was on had.
LEMMA RowsKept ==
  ASSUME alive \subseteq Products, NEW v \in VisitRecords, v.at = "on", Stage(v) = "show", Proper(v), Faithful(v),
         Current(v.asked), Paged(View(v.want.kind)),
         v.want.page > 1 => v.asked.rows # <<>>
  PROVE  v.rows # <<>>
<1>1. PICK s : s = Shown(v)
  OBVIOUS
<1>2. PICK view : view = View(v.want.kind)
  OBVIOUS
<1>3. PICK x : x = Subject(v)
  OBVIOUS
<1>4. PICK page \in Nat \ {0} : page = v.page
  BY DEF VisitRecords
<1>5. /\ view \in Listings /\ v.want \in Buttons /\ v.asked \in Screens /\ v.rows \in Seq(Nat)
      /\ v.want.page \in Nat \ {0}
  BY <1>2 DEF Paged, Listings, VisitRecords, Buttons
<1>6. /\ s.kind = view /\ s.rows = v.rows /\ s.total = v.total /\ s.page = page
      /\ s.cat = x.cat /\ s.brand = x.brand
  BY <1>1, <1>2, <1>3, <1>4, <1>5, ShownFields, ZenonT(60) DEF Listings
<1>7. PICK n \in Nat : n = v.total
  BY DEF VisitRecords
<1>8. /\ n = Cardinality(Found(view, s))
      /\ Len(v.rows) = Greatest(0, Least(Size, n - Size * (page - 1)))
  BY <1>1, <1>2, <1>5, <1>6, <1>7, ShownCurrent, CurrentFull
<1>9. Size * (page - 1) < n => v.rows # <<>>
  BY <1>5, <1>8, PageHasRows
<1>10. CASE Clamped(view)
  <2>1. n > 0 /\ page \in 1..TotalPages(n, Size)
    BY <1>2, <1>4, <1>5, <1>7, <1>10, AtShow DEF Proper, Clamped, Paged
  <2>. QED
    BY <1>9, <2>1, PagesCount, GoodsAssumption
<1>11. CASE view \in {"brands", "products"}
  <2>1. page = v.want.page
    BY <1>2, <1>4, <1>11 DEF Proper, Clamped, View
  <2>2. CASE v.want.page = 1
    <3>1. CASE view = "brands"
      <4>1. n > 0 /\ Size * (page - 1) = 0
        <5>1. n > 0
          BY <1>2, <1>5, <1>7, <3>1, AtShow DEF Proper, Paged
        <5>2. page - 1 = 0 /\ Size \in Nat
          BY <2>1, <2>2, GoodsAssumption
        <5>. QED
          BY <5>1, <5>2
      <4>. QED
        BY <1>9, <4>1
    <3>2. CASE view = "products"
      <4>1. Past(v, "list") /\ v.page = 1
        BY <1>2, <1>4, <1>5, <2>1, <2>2, AtShow
      <4>2. v.rows # <<>> \/ v.page > 1
        BY <1>2, <3>2, <4>1 DEF Proper
      <4>. QED
        BY <4>1, <4>2
    <3>. QED
      BY <1>11, <3>1, <3>2
  <2>3. CASE v.want.page > 1
    <3>1. PICK a \in Screens : a = v.asked
      BY <1>5
    <3>2. LeadsFrom(v.place, a, v.want)
      BY <3>1, AtShow
    <3>3. /\ v.want.kind = a.kind /\ v.want.cat = a.cat /\ v.want.brand = a.brand
          /\ page \in {a.page - 1, a.page + 1}
          /\ page > a.page => page <= (a.total + Size - 1) \div Size
      BY <2>1, <2>3, <3>2 DEF LeadsFrom
    <3>4. a.kind = view
      BY <1>2, <1>11, <3>3 DEF View, Screens, Listings
    <3>5. x.cat = a.cat /\ x.brand = a.brand
      BY <1>2, <1>3, <1>11, <3>3 DEF Subject
    <3>6. Found(view, s) = Found(view, a)
      BY <1>6, <1>11, <3>5 DEF Found
    <3>7. PICK k \in Nat \ {0} : k = a.page
      BY DEF Screens
    <3>8. /\ a.total = Cardinality(Found(view, a))
          /\ Len(a.rows) = Greatest(0, Least(Size, a.total - Size * (k - 1)))
      BY <1>2, <1>5, <3>1, <3>4, <3>7, CurrentFull
    <3>9. a.total = n
      BY <1>8, <3>6, <3>8
    <3>10. Size * (k - 1) < n
      <4>1. a.rows # <<>> /\ a.rows \in Seq(Nat)
        BY <2>3, <3>1 DEF Screens
      <4>2. Len(a.rows) # 0
        BY <4>1
      <4>. QED
        BY <3>8, <3>9, <4>2, PageHasRows
    <3>11. CASE page = k - 1
      <4>1. Size * (page - 1) <= Size * (k - 1)
        <5>1. PICK d \in Nat : d = page - 1
          OBVIOUS
        <5>2. k - 1 = d + 1 /\ Size \in Nat
          BY <3>11, <5>1, GoodsAssumption
        <5>3. Size * d <= Size * (d + 1)
          BY <5>2, SMTT(30)
        <5>. QED
          BY <5>1, <5>2, <5>3
      <4>2. Size * (page - 1) \in Int /\ Size * (k - 1) \in Int
        BY GoodsAssumption, SMTT(30)
      <4>. QED
        BY <1>9, <3>10, <4>1, <4>2
    <3>12. CASE page = k + 1
      <4>1. page <= (n + Size - 1) \div Size
        BY <3>3, <3>7, <3>9, <3>12
      <4>2. page > 1
        BY <2>1, <2>3
      <4>3. page \in 1..TotalPages(n, Size)
        BY <4>1, <4>2, LastPage
      <4>4. n > 0
        <5>1. Size * (k - 1) \in Nat
          BY GoodsAssumption, SMTT(30)
        <5>. QED
          BY <3>10, <5>1
      <4>. QED
        BY <1>9, <4>3, <4>4, PagesCount, GoodsAssumption
    <3>. QED
      BY <3>3, <3>7, <3>11, <3>12
  <2>. QED
    BY <1>5, <2>2, <2>3
<1>. QED
  BY <1>2, <1>10, <1>11 DEF Paged, Clamped

\* An arrow leads to the same list that its screen is a page of.
LEMMA SameList ==
  ASSUME alive \subseteq Products, NEW v \in VisitRecords, v.at = "on", Stage(v) = "show", Proper(v), Faithful(v),
         v.place = "store" => Kept(v, v.asked),
         NEW view, view \in {"categories", "brands", "page"}, v.want.kind = view, v.want.page > 1,
         Cardinality(Found(view, Subject(v))) > 0
  PROVE  /\ Found(view, Subject(v)) = Found(view, v.asked)
         /\ Orderings(view, Subject(v)) = Orderings(view, v.asked)
<1>1. PICK x : x = Subject(v)
  OBVIOUS
<1>2. View(v.want.kind) = view
  BY DEF View
<1>3. LeadsFrom(v.place, v.asked, v.want) /\ v.place \in Places
  BY AtShow DEF VisitRecords
<1>4. v.asked.kind = view /\ v.want.cat = v.asked.cat /\ v.want.brand = v.asked.brand
  BY <1>3 DEF LeadsFrom
<1>5. Found(view, x) = Found(view, v.asked)
  <2>1. CASE view = "categories"
    BY <2>1 DEF Found
  <2>2. CASE view = "brands"
    <3>1. x.cat = v.want.cat
      BY <1>1, <1>2, <2>2 DEF Subject
    <3>. QED
      BY <1>4, <2>2, <3>1 DEF Found
  <2>3. CASE view = "page"
    <3>1. v.place = "store"
      BY <1>3, <2>3 DEF LeadsFrom, Places
    <3>2. Agrees(v.asked)
      BY <2>3, <3>1 DEF Kept, Breaks
    <3>3. x = Narrowed("page", fsm)
      BY <1>1, <1>2, <2>3, AtShow DEF Faithful
    <3>4. \/ x = [day |-> v.asked.day, cat |-> v.asked.cat, brand |-> v.asked.brand]
          \/ Bought(x.day, x.cat, x.brand) = {}
      BY <1>4, <2>3, <3>2, <3>3 DEF Agrees
    <3>5. Bought(x.day, x.cat, x.brand) # {}
      BY <1>1, <2>3, FS_EmptySet DEF Found
    <3>. QED
      BY <2>3, <3>4, <3>5 DEF Found
  <2>. QED
    BY <2>1, <2>2, <2>3
<1>. QED
  BY <1>1, <1>5 DEF Orderings

\* An arrow shows no row of the page it left.
LEMMA PagesDiffer ==
  ASSUME alive \subseteq Products, NEW v \in VisitRecords, v.at = "on", Stage(v) = "show", Proper(v), Faithful(v),
         Current(v.asked), v.place = "store" => Kept(v, v.asked),
         v.want.kind \in {"categories", "brands", "page"}, v.want.page > 1
  PROVE  ToSet(v.rows) \cap ToSet(v.asked.rows) = {}
<1>1. PICK x : x = Subject(v)
  OBVIOUS
<1>2. PICK view : view = v.want.kind
  OBVIOUS
<1>3. PICK a \in Screens : a = v.asked
  BY DEF VisitRecords
<1>4. /\ View(v.want.kind) = view /\ view \in {"categories", "brands", "page"} /\ view \in Listings
      /\ Paged(view)
  BY <1>2 DEF View, Paged, Listings
<1>5. PICK n \in Nat : n = v.total
  BY DEF VisitRecords
<1>6. n = Cardinality(Found(view, x)) /\ n > 0
  BY <1>1, <1>4, <1>5, AtShow DEF Faithful, Proper
<1>7. Found(view, x) = Found(view, a) /\ Orderings(view, x) = Orderings(view, a)
  BY <1>1, <1>2, <1>3, <1>4, <1>6, SameList
<1>8. PICK p \in Nat \ {0} : p = v.want.page
  BY DEF VisitRecords, Buttons
<1>9. PICK q \in Nat \ {0} : q = a.page
  BY DEF Screens
<1>10. LeadsFrom(v.place, a, v.want)
  BY <1>3, AtShow
<1>11. a.kind = view /\ p \in {q - 1, q + 1} /\ (p > q => p <= (a.total + Size - 1) \div Size)
  BY <1>2, <1>8, <1>9, <1>10 DEF LeadsFrom
<1>12. a.total = n
  BY <1>3, <1>4, <1>6, <1>7, <1>11, CurrentFull, ZenonT(60) DEF Screens
<1>13. v.page = p
  <2>1. CASE Clamped(view)
    <3>1. p \in 1..TotalPages(n, Size)
      <4>1. CASE p = q + 1
        <5>1. p <= (n + Size - 1) \div Size /\ p > 1
          BY <1>8, <1>11, <1>12, <4>1
        <5>. QED
          BY <5>1, LastPage
      <4>2. CASE p = q - 1
        <5>1. q \in 1..TotalPages(n, Size)
          BY <1>4, <1>9, <1>11, <1>12, <2>1 DEF Screens, Clamped
        <5>2. TotalPages(n, Size) \in Nat
          BY PagesCount, GoodsAssumption
        <5>. QED
          BY <4>2, <5>1, <5>2
      <4>. QED
        BY <1>11, <4>1, <4>2
    <3>2. TotalPages(n, Size) \in Nat \ {0}
      BY PagesCount, GoodsAssumption
    <3>3. Clamp(p, TotalPages(n, Size)) = p
      <4>1. PICK t \in Nat \ {0} : t = TotalPages(n, Size)
        BY <3>2
      <4>. QED
        BY <3>1, <4>1, Clamped_In
    <3>4. v.want.kind # "return" /\ Past(v, "count")
      BY <1>4, AtShow
    <3>. QED
      BY <1>4, <1>5, <1>8, <2>1, <3>3, <3>4 DEF Proper
  <2>2. CASE ~Clamped(view)
    BY <1>4, <1>8, <2>2 DEF Proper
  <2>. QED
    BY <2>1, <2>2
<1>14. PICK order \in Orderings(view, x) : v.rows = Cut(view, order, p)
  BY <1>1, <1>4, <1>13, AtShow DEF Faithful
<1>15. a.rows = Cut(view, order, q)
  <2>1. PICK other \in Orderings(view, a) : a.rows = Cut(view, other, q)
    BY <1>3, <1>4, <1>9, <1>11 DEF Current
  <2>2. other = order
    <3>1. \E o : Orderings(view, x) = {o}
      BY <1>4 DEF Orderings
    <3>. QED
      BY <1>7, <1>14, <2>1, <3>1
  <2>. QED
    BY <2>1, <2>2
<1>16. order \in Seq(Nat) /\ IsInjective(order)
  BY <1>4, <1>14, OrderingType
<1>17. ToSet(Cut(view, order, p)) \cap ToSet(Cut(view, order, q)) = {}
  BY <1>4, <1>11, <1>16, PagesApart
<1>. QED
  BY <1>3, <1>14, <1>15, <1>17

\* A card has the product of its button and the pieces that said were bought.
LEMMA CardKept ==
  ASSUME fsm \in Fsms, NEW v \in VisitRecords, v.at = "on", Stage(v) = "show", Proper(v), Faithful(v),
         v.want.kind = "card", NEW s, s = Shown(v)
  PROVE  s.rows[1] = v.want.item /\ s.qty = v.want.qty
<1>1. View(v.want.kind) = "card" /\ Past(v, "find") /\ Past(v, "set_back")
  BY AtShow DEF View
<1>2. v.rows = <<v.want.item>>
  BY <1>1 DEF Proper
<1>3. s.rows = v.rows /\ s.qty = (IF fsm.back = "proc" THEN fsm.qty ELSE 0)
  BY <1>1, ShownFields
<1>4. fsm.back = (IF v.want.qty > 0 THEN "proc" ELSE "brand") /\ fsm.qty = v.want.qty
  BY <1>1 DEF Faithful
<1>5. v.want.qty \in Nat
  BY DEF VisitRecords, Buttons
<1>. QED
  BY <1>2, <1>3, <1>4, <1>5

\* A refreshed card has the same product, whatever other card set it.
LEMMA RefreshKept ==
  ASSUME NEW v \in VisitRecords, v.at = "on", Stage(v) = "show", Proper(v), Faithful(v),
         v.place = "store" => Kept(v, v.asked), v.want.kind = "refresh", ~strayed
  PROVE  v.rows = v.asked.rows
<1>1. LeadsFrom(v.place, v.asked, v.want) /\ v.place \in Places /\ Past(v, "find")
  BY AtShow DEF VisitRecords
<1>2. v.asked.kind = "card" /\ v.place = "store"
  BY <1>1 DEF LeadsFrom, Places
<1>3. Agrees(v.asked)
  BY <1>2 DEF Kept, Breaks
<1>4. Len(v.rows) = 1 /\ v.rows[1] \in alive /\ v.rows[1] = fsm.product /\ v.rows \in Seq(Nat)
  BY <1>1 DEF Proper, Faithful, VisitRecords
<1>5. v.asked.rows = <<fsm.product>>
  BY <1>2, <1>3, <1>4 DEF Agrees
<1>. QED
  BY <1>4, <1>5

LEMMA ShownHonest ==
  ASSUME SInv, NEW r \in Visitors, NEW v, v = visit[r], v.at = "on", Stage(v) = "show"
  PROVE  TrueToButton(Shown(v))
<1>1. v \in VisitRecords /\ Proper(v) /\ alive \subseteq Products /\ fsm \in Fsms /\ Started(v)
  BY DEF SInv, Typed, Runnings, RunningOf, Started
<1>2. PICK s : s = Shown(v)
  OBVIOUS
<1>3. /\ s.kind = View(v.want.kind) /\ s.page = v.page /\ s.total = v.total /\ s.rows = v.rows
      /\ s.calm = v.calm /\ s.sure = v.fresh /\ s.by = v.want /\ s.before = v.asked.rows
  <2>1. \A u : s = Shown(u) =>
          /\ s.kind = View(u.want.kind) /\ s.page = u.page /\ s.total = u.total /\ s.rows = u.rows
          /\ s.calm = u.calm /\ s.sure = u.fresh /\ s.by = u.want /\ s.before = u.asked.rows
    BY ShownFields
  <2>. QED
    BY <1>2, <2>1
<1>4. Trusted(visit[r]) => Faithful(v)
  BY <1>1, TrustedAlone
<1>5. ASSUME s.calm, Paged(s.kind)
      PROVE  Len(s.rows) = Greatest(0, Least(Size, s.total - Size * (s.page - 1)))
  <2>1. Faithful(v)
    BY <1>3, <1>4, <1>5 DEF Trusted
  <2>2. Current(s)
    BY <1>1, <1>2, <2>1, ShownCurrent
  <2>3. s.page \in Nat \ {0} /\ s.kind \in Listings
    BY <1>1, <1>3, <1>5 DEF VisitRecords, Paged, Listings
  <2>. QED
    BY <1>1, <1>5, <2>2, <2>3, CurrentFull
<1>6. ASSUME s.sure
      PROVE  /\ s.by.promise > 0 /\ s.kind \in {"pbrands", "page", "shelf"} => Held(s) = s.by.promise
             /\ Paged(s.kind) /\ (s.by.page > 1 => s.before # <<>>) => s.rows # <<>>
             /\ s.by.kind = s.kind /\ s.kind \in {"categories", "brands", "page"} /\ s.by.page > 1 =>
                  ToSet(s.rows) \cap ToSet(s.before) = {}
             /\ s.by.kind = "card" => s.rows[1] = s.by.item /\ s.qty = s.by.qty
             /\ s.by.kind = "refresh" /\ ~strayed => s.rows = s.before
  <2>1. Faithful(v)
    BY <1>3, <1>4, <1>6 DEF Trusted
  <2>2. Current(v.asked) /\ (v.place = "store" => Kept(v, v.asked))
    BY <1>1, <1>3, <1>6 DEF SInv, Runnings, RunningOf
  <2>3. ASSUME s.by.promise > 0, s.kind \in {"pbrands", "page", "shelf"} PROVE Held(s) = s.by.promise
    BY <1>1, <1>2, <1>3, <2>1, <2>2, <2>3, PromiseKept
  <2>4. ASSUME Paged(s.kind), s.by.page > 1 => s.before # <<>> PROVE s.rows # <<>>
    BY <1>1, <1>3, <2>1, <2>2, <2>4, RowsKept
  <2>5. ASSUME s.by.kind = s.kind, s.kind \in {"categories", "brands", "page"}, s.by.page > 1
        PROVE  ToSet(s.rows) \cap ToSet(s.before) = {}
    BY <1>1, <1>3, <2>1, <2>2, <2>5, PagesDiffer
  <2>6. ASSUME s.by.kind = "card" PROVE s.rows[1] = s.by.item /\ s.qty = s.by.qty
    BY <1>1, <1>2, <1>3, <2>1, <2>6, CardKept
  <2>7. ASSUME s.by.kind = "refresh", ~strayed PROVE s.rows = s.before
    BY <1>1, <1>3, <2>1, <2>2, <2>7, RefreshKept
  <2>. QED
    BY <2>3, <2>4, <2>5, <2>6, <2>7
<1>. QED
  BY <1>2, <1>5, <1>6 DEF TrueToButton

LEMMA ShowKeeps ==
  ASSUME SInv, NEW r \in Visitors, Show(r)
  PROVE  SInv'
<1>1. PICK v : v = visit[r]
  OBVIOUS
<1>2. /\ v \in VisitRecords /\ v.at = "on" /\ Stage(v) = "show" /\ Proper(v) /\ fsm \in Fsms
      /\ alive \subseteq Products /\ Started(v)
  BY <1>1 DEF Show, At, SInv, Typed, Runnings, RunningOf, Started
<1>3. PICK place \in Places : place = v.place
  BY <1>2 DEF VisitRecords
<1>4. PICK e : e = Shown(v)
  OBVIOUS
<1>5. e \in Screens /\ TrueToButton(e)
  BY <1>1, <1>2, <1>4, ShownType, ShownHonest
<1>6. e.fresh = v.calm
  BY <1>4, ShownFields
<1>7. /\ visit' = [visit EXCEPT ![r] = NoVisit] /\ alive' = alive /\ fsm' = fsm
      /\ strayed' = strayed /\ screen' = [screen EXCEPT ![place] = e]
  BY <1>1, <1>3, <1>4 DEF Show
<1>8. e.fresh /\ e.kind # "empty" => Trusted(visit[r])
  BY <1>1, <1>6 DEF Trusted
<1>9. Trusted(visit[r]) => Current(e) /\ Agrees(e)
  <2>1. Trusted(visit[r]) => Faithful(v)
    BY <1>1, <1>2, TrustedAlone
  <2>. QED
    BY <1>2, <1>4, <2>1, ShownCurrent, ShownAgrees
<1>10. place = "shop" => Breaks(visit[r].want.kind) = {}
  BY <1>1, <1>2, <1>3, ShopBreaks
<1>. QED
  BY <1>1, <1>2, <1>3, <1>5, <1>7, <1>8, <1>9, <1>10, ScreenKeeps

-----------------------------------------------------------------------------
(***************************************************************************)
(* Browsing, and browsing beside the lists of orders.                      *)
(***************************************************************************)

LEMMA OpeningHolds ==
  ASSUME ShelvesInit
  PROVE  SInv
<1>1. /\ alive = Products /\ strayed = FALSE /\ visit = [r \in Visitors |-> NoVisit]
      /\ \A pl \in Places : Current(screen[pl]) /\ Agrees(screen[pl])
  BY DEF ShelvesInit
<1>2. /\ screen \in [Places -> Screens] /\ fsm \in Fsms /\ \A pl \in Places : ~screen[pl].sure
  BY OpeningsAssumption DEF ShelvesInit
<1>3. Typed
  BY <1>1, <1>2, IdleVisit DEF Typed
<1>4. \A r \in Visitors : visit[r] = NoVisit /\ ~Started(visit[r])
  BY <1>1, IdleVisit
<1>5. Single
  BY <1>4 DEF Single
<1>6. Runnings
  <2>1. \A v : v = NoVisit => RunningOf(v)
    BY IdleVisit DEF RunningOf
  <2>. QED
    BY <1>4, <2>1 DEF Runnings
<1>7. Screenings
  BY <1>1, <1>4 DEF Screenings, Places
<1>8. ScreensHonest
  <2>1. ASSUME NEW pl \in Places PROVE TrueToButton(screen[pl])
    <3>1. PICK s \in Screens : s = screen[pl]
      BY <1>2
    <3>2. Current(s) /\ ~s.sure
      BY <1>1, <1>2, <3>1
    <3>3. Paged(s.kind) => s.kind \in Listings /\ s.page \in Nat \ {0}
      BY DEF Paged, Listings, Screens
    <3>4. Paged(s.kind) => Len(s.rows) = Greatest(0, Least(Size, s.total - Size * (s.page - 1)))
      BY <1>1, <3>2, <3>3, CurrentFull
    <3>. QED
      BY <3>1, <3>2, <3>4 DEF TrueToButton
  <2>. QED
    BY <2>1 DEF ScreensHonest
<1>. QED
  BY <1>3, <1>5, <1>6, <1>7, <1>8 DEF SInv

LEMMA RestKeeps ==
  ASSUME SInv, UNCHANGED shelves
  PROVE  SInv'
<1>1. alive' = alive /\ fsm' = fsm /\ screen' = screen /\ visit' = visit /\ strayed' = strayed
  BY DEF shelves
<1>2. /\ \A s : (Agrees(s)' <=> Agrees(s)) /\ (Current(s)' <=> Current(s))
      /\ \A v, s : Kept(v, s)' <=> Kept(v, s)
      /\ \A v : (Trusted(v)' <=> Trusted(v)) /\ (RunningOf(v)' <=> RunningOf(v))
  BY <1>1, CurrentSame, RunningSame
<1>3. Typed' /\ Single'
  BY <1>1, <1>2 DEF SInv, Typed, Single
<1>4. Runnings'
  BY <1>1, <1>2 DEF SInv, Runnings
<1>5. Screenings'
  BY <1>1, <1>2 DEF SInv, Screenings
<1>6. ScreensHonest'
  BY <1>1 DEF SInv, ScreensHonest, TrueToButton
<1>. QED
  BY <1>3, <1>4, <1>5, <1>6 DEF SInv

LEMMA StagesKeep ==
  ASSUME SInv, NEW r \in Visitors, Stages(r)
  PROVE  SInv'
<1>1. CASE StartVisit(r)
  BY <1>1, StartVisitKeeps
<1>2. CASE Ask(r)
  BY <1>2, AskKeeps
<1>3. CASE ReadScope(r)
  BY <1>3, ReadScopeKeeps
<1>4. CASE ReadShelf(r)
  BY <1>4, ReadShelfKeeps
<1>5. CASE CountRows(r)
  BY <1>5, CountRowsKeeps
<1>6. CASE ListRows(r)
  BY <1>6, ListRowsKeeps
<1>7. CASE Find(r)
  BY <1>7, FindKeeps
<1>8. CASE ReadFsm(r)
  BY <1>8, ReadFsmKeeps
<1>9. CASE WriteFsm(r)
  BY <1>9, WriteFsmKeeps
<1>10. CASE Show(r)
  BY <1>10, ShowKeeps
<1>11. CASE ShowFails(r)
  BY <1>11, ShowFailsKeeps
<1>. QED
  BY <1>1, <1>2, <1>3, <1>4, <1>5, <1>6, <1>7, <1>8, <1>9, <1>10, <1>11 DEF Stages

LEMMA BrowsingKeeps ==
  ASSUME SInv, [ShelvesNext]_shelves
  PROVE  SInv'
<1>1. CASE UNCHANGED shelves
  BY <1>1, RestKeeps
<1>2. ASSUME NEW r \in Visitors, NEW place \in Places, Visit(r, place) PROVE SInv'
  BY <1>2, VisitKeeps
<1>3. ASSUME NEW r \in Visitors, Stages(r) PROVE SInv'
  BY <1>3, StagesKeep
<1>4. CASE DeleteProduct
  BY <1>4, DeleteProductKeeps
<1>5. CASE ClearFsm
  BY <1>5, ClearFsmKeeps
<1>. QED
  BY <1>1, <1>2, <1>3, <1>4, <1>5 DEF ShelvesNext

\* Browsing by itself.
Browsing == ShelvesInit /\ [][ShelvesNext]_shelves

\* Orders and goods share no state: a behaviour of the two is one of the lists of
\* orders (client.py, orders_stats.py) and one of the screens of goods.
THEOREM Apart == ScreensSpec => Spec /\ Browsing
<1>1. ScreensInit => Init /\ ShelvesInit
  BY DEF ScreensInit
<1>2. ScreensNext => [Next]_vars /\ [ShelvesNext]_shelves
  BY DEF ScreensNext
<1>3. UNCHANGED <<vars, shelves>> => UNCHANGED vars /\ UNCHANGED shelves
  OBVIOUS
<1>. QED
  BY <1>1, <1>2, <1>3, PTL DEF ScreensSpec, Spec, Browsing

\* The inductive invariant of browsing: what a handler has read and written at
\* each of its stages, and what the screens and the FSM data then say.
THEOREM ScreensInvariance == Browsing => []SInv
<1>. QED
  BY OpeningHolds, BrowsingKeeps, PTL DEF Browsing

\* The FSM data of the owner and the screens are what the handlers can produce
\* (procurement.py, product_card.py, client.py): a chosen day and category that
\* exist, a card's return to the purchases only with pieces bought, no row
\* twice, a clamped page that exists; beside the lists of orders, whose types hold too.
THEOREM ScreensTypeCorrect == ScreensSpec => []ScreensTypeOK
<1>1. SInv => ShelvesTypeOK
  BY DEF SInv, Typed, ShelvesTypeOK
<1>2. TypeOK /\ ShelvesTypeOK => ScreensTypeOK
  BY DEF ScreensTypeOK
<1>. QED
  BY <1>1, <1>2, Apart, TypeCorrect, ScreensInvariance, PTL

\* What a screen shows is what the button said that led to it (client.py,
\* procurement.py, product_card.py), unless that button was stale, another
\* handler ran beside or a product was deleted in between.
THEOREM ScreensAreHonest == ScreensSpec => []ScreensHonest
<1>1. SInv => ScreensHonest
  BY DEF SInv
<1>. QED
  BY <1>1, Apart, ScreensInvariance, PTL

\* What is proved of the lists of orders (client.py,
\* orders_stats.py) holds beside browsing too: their cards are those of the newest
\* rendering, and their headers and arrows tell the truth.
THEOREM ListsHonestBeside == ScreensSpec => [](OneListing /\ PagesHonest)
<1>. QED
  BY Apart, OneListingAlways, PagesAreHonest, PTL

=============================================================================
