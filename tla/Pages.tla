-------------------------------- MODULE Pages --------------------------------
(***************************************************************************)
(* The paging arithmetic every list screen repeats: the number of pages,   *)
(* the clamping of the page asked for, the order of the rows and those     *)
(* that LIMIT and OFFSET pick.                                             *)
(***************************************************************************)
EXTENDS Integers, Sequences, FiniteSets

Least(a, b) == IF a < b THEN a ELSE b
Greatest(a, b) == IF a < b THEN b ELSE a

\* At least one page, also of an empty list.
TotalPages(n, size) == Greatest(1, (n + size - 1) \div size)

Clamp(page, total) == Greatest(1, Least(page, total))

\* Mutant: pages counted from zero.
Offset_FromZero(page, size) == page * size

Offset(page, size) == (page - 1) * size

\* The positions of a list of n rows that a page shows.
OnPage(page, n, size) == Offset(page, size) + 1 .. Least(n, Offset(page, size) + size)

Slice(list, page, size) ==
  SubSeq(list, Offset(page, size) + 1, Least(Len(list), Offset(page, size) + size))

\* The sequence of a set of numbers, from the lowest or from the highest.
Ascending(S) ==
  [i \in 1..Cardinality(S) |-> CHOOSE x \in S : Cardinality({y \in S : y < x}) = i - 1]

Descending(S) ==
  [i \in 1..Cardinality(S) |-> CHOOSE x \in S : Cardinality({y \in S : x < y}) = i - 1]

=============================================================================
