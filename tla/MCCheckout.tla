----------------------------- MODULE MCCheckout -----------------------------
(***************************************************************************)
(* A finite instance of Checkout for TLC.                                  *)
(***************************************************************************)
EXTENDS Checkout, TLC

CONSTANTS p1, p2, sa, sb

\* Each product is sold in a size of its own, so that pairing one product with
\* the other's size shows; p1 has a piece more than the cart holds.
MCInitShelf == [k \in Keys |-> IF k = <<p1, sa>> THEN 2 ELSE IF k = <<p2, sb>> THEN 1 ELSE 0]

MCInitCart == [i \in Rows |-> IF i = 1 THEN [key |-> <<p1, sa>>, qty |-> 1] ELSE NoRow]

MCSymmetry == Permutations(Runs)

=============================================================================
