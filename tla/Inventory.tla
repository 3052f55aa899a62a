----------------------------- MODULE Inventory -----------------------------
(***************************************************************************)
(* What the shop promises about its shelf, without sessions, locks or      *)
(* identity maps: an order takes all of its goods off the shelf at once,   *)
(* only when all of them are there, and is later marked as completed.      *)
(* OrderStock implements this when its handlers are the checkouts of the   *)
(* dialogues and the staff's done button.                                  *)
(***************************************************************************)
EXTENDS Integers

CONSTANTS
  Keys,       \* the (product, size) pairs
  Orders,     \* order numbers
  InitStock,  \* the quantities on the shelf at the start
  Carts       \* what an order may ask for

VARIABLES shelf, placed

ivars == <<shelf, placed>>

Init ==
  /\ shelf = InitStock
  /\ placed = [o \in Orders |-> [status |-> "none", items |-> [k \in Keys |-> 0]]]

Sell(o, c) ==
  /\ placed[o].status = "none"
  /\ \A k \in Keys : c[k] <= shelf[k]
  /\ shelf' = [k \in Keys |-> shelf[k] - c[k]]
  /\ placed' = [placed EXCEPT ![o] = [status |-> "new", items |-> c]]

Complete(o) ==
  /\ placed[o].status # "none"
  /\ placed' = [placed EXCEPT ![o].status = "completed"]
  /\ UNCHANGED shelf

Next == \E o \in Orders : Complete(o) \/ \E c \in Carts : Sell(o, c)

Spec == Init /\ [][Next]_ivars

=============================================================================
