------------------------------ MODULE Summing -------------------------------
(***************************************************************************)
(* Sums, as a recursive function on the positions of a sequence.           *)
(***************************************************************************)
EXTENDS Naturals, Sequences

\* The sum of a sequence of numbers.
Total(s) ==
    LET upTo[k \in 0..Len(s)] == IF k = 0 THEN 0 ELSE upTo[k - 1] + s[k]
    IN  upTo[Len(s)]
=============================================================================
