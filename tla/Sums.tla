------------------------------- MODULE Sums -------------------------------
(***************************************************************************)
(* Sums of natural numbers over a finite set, by counting units: element x  *)
(* contributes the pairs <<x, 1>> .. <<x, f[x]>>.  Unlike a fold, a         *)
(* cardinality can be reasoned about with the theorems on finite sets, and  *)
(* the proofs of this project do (see Sums_proofs).                         *)
(***************************************************************************)
EXTENDS Integers, FiniteSets

Units(f, S) == UNION {{x} \X (1 .. f[x]) : x \in S}

\* The sum of f[x] over x in S.
SumOver(f, S) == Cardinality(Units(f, S))

\* How often x occurs in a sequence.
Occurrences(seq, x) == Cardinality({i \in DOMAIN seq : seq[i] = x})
=============================================================================
