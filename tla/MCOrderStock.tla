---------------------------- MODULE MCOrderStock ----------------------------
(***************************************************************************)
(* Finite instances of OrderStock for TLC.                                 *)
(***************************************************************************)
EXTENDS OrderStock, TLC

CONSTANTS k1, k2, p1, s1, s2, s3

MCKeys == {k1, k2}

\* Two sizes of one product: loading one loads the other.
MCProduct == k1 :> p1 @@ k2 :> p1

MCInitStock == k1 :> 2 @@ k2 :> 1

\* One piece, a mixed cart, and one piece of the scarce size.
MCCarts == {k1 :> 1 @@ k2 :> 0, k1 :> 1 @@ k2 :> 1, k1 :> 2 @@ k2 :> 1}

MCSymmetry == Permutations(Sessions)

=============================================================================
