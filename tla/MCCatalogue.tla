----------------------------- MODULE MCCatalogue -----------------------------
(***************************************************************************)
(* A finite instance of Catalogue for TLC. The owner starts anywhere along *)
(* the dialogues, so that few updates reach their ends.                    *)
(***************************************************************************)
EXTENDS Catalogue, TLC

CONSTANTS n1, n2, sa, sb

MCInitGroups == [k \in Kinds |-> [n \in Names |-> IF n = n1 THEN 1 ELSE 0]]

MCProduct(m) ==
  [category |-> 1, brand |-> 1, media |-> m, stock |-> NoProduct.stock, edits |-> 0]
MCInitProducts == <<MCProduct(1), MCProduct(0)>>

MCSizeLists == {<<sa>>, <<sa, sb>>, <<sa, sa>>}

\* No dialogue; the sale price is awaited; an album is being sent; a card is
\* open; its photo is awaited; a deletion awaits its confirmation.
MCInitFsm ==
  {NoFields}
  \cup {[NoFields EXCEPT !.stage = "sale", !.category = 1, !.brand = 1,
                         !.facts = {"name", "purchase"}]}
  \cup {[NoFields EXCEPT !.stage = st, !.category = 1, !.brand = 1, !.facts = Facts,
                         !.media = 1] : st \in {"upload", "sizes"}}
  \cup {[NoFields EXCEPT !.stage = st, !.category = 1, !.product = 1] : st \in {"view", "photo"}}
  \cup {[NoFields EXCEPT !.stage = st, !.category = 1] : st \in {"editBrand", "delList"}}
  \cup {[NoFields EXCEPT !.stage = "confirm", !.category = 1, !.product = 2]}

MCSymmetry == Permutations(Runs)

=============================================================================
