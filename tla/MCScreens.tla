----------------------------- MODULE MCScreens -----------------------------
(***************************************************************************)
(* A finite instance of OrderLists and Shelves for TLC: three orders and   *)
(* four products, on pages of two and of one. They share no state, and a   *)
(* behaviour looks either at orders or at goods.                           *)
(***************************************************************************)
EXTENDS OrderLists, Shelves, TLC

Start(statuses, left) == [status |-> statuses, left |-> left]

\* A header of three active orders whose cards an edit that failed has deleted.
OldHeader ==
  Message(1, "header", [NoRun EXCEPT !.list = "active", !.total = 3, !.rows = <<3, 2>>])

\* Two pages of history; two of active orders; one order of each list and one
\* still to be placed; no active order any more.
MCStarts ==
  {Start(<<"completed", "completed", "completed">>, {}),
   Start(<<"active", "active", "active">>, {}),
   Start(<<"completed", "active", "none">>, {}),
   Start(<<"completed", "cancelled", "cancelled">>, {OldHeader})}

Good(cat, brand, title, day, qty) ==
  [cat |-> cat, brand |-> brand, title |-> title, day |-> day, qty |-> qty]

\* Category 2 is empty, brand 1 in both of the others; two products of one title.
MCGoods == <<Good(1, 1, 1, 1, 2), Good(1, 1, 1, 1, 1), Good(3, 2, 2, 2, 1), Good(3, 1, 3, 1, 3)>>

Opening(shop, store, data0) == [screen |-> [shop |-> shop, store |-> store], fsm |-> data0]
Is(kind) == [Blank EXCEPT !.kind = kind]
Chosen == [NoFsm EXCEPT !.day = 1, !.cat = 1]

\* The brands of category 1 in the period of day 1, as procurement_select_category
\* shows them; a card opened from the page of its first brand; the products of a
\* brand, in the warehouse and in the shop.
Brands == [Is("pbrands") EXCEPT !.day = 1, !.cat = 1, !.rows = <<1>>, !.counts = <<2>>]
BoughtCard ==
  [Is("card") EXCEPT !.cat = 1, !.brand = 1, !.rows = <<2>>, !.qty = 1]
OnCard == [Chosen EXCEPT !.brand = 1, !.product = 2, !.back = "proc", !.qty = 1]
Shelf == [Is("shelf") EXCEPT !.cat = 1, !.brand = 1, !.rows = <<1, 2>>, !.counts = <<0, 0>>]
List == [Is("products") EXCEPT !.cat = 3, !.brand = 2, !.total = 1, !.rows = <<3>>, !.counts = <<0>>]

MCOpenings ==
  {Opening(Is("empty"), Is("closed"), NoFsm), Opening(Is("closed"), Is("dash"), NoFsm),
   Opening(Is("closed"), Is("days"), NoFsm), Opening(Is("closed"), Brands, Chosen),
   Opening(Is("closed"), Shelf, [NoFsm EXCEPT !.shelf = <<1, 1>>]),
   Opening(List, BoughtCard, OnCard)}

AtOrders == screen.store.kind = "dash" /\ visits = 0 /\ alive = Products
AtGoods == status = <<"completed", "active", "none">> /\ presses = 0 /\ changes = 0

ScreensInit == Init /\ ShelvesInit /\ (AtOrders \/ AtGoods)

ScreensNext ==
  \/ AtOrders /\ Next /\ UNCHANGED shelves
  \/ AtGoods /\ ShelvesNext /\ UNCHANGED vars

ScreensSpec == ScreensInit /\ [][ScreensNext]_<<vars, shelves>>

ScreensTypeOK == TypeOK /\ ShelvesTypeOK

MCSymmetry == Permutations(Runs) \cup Permutations(Visitors)

=============================================================================
