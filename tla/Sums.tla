--------------------------------- MODULE Sums ---------------------------------
(***************************************************************************)
(* The sum of a function over a finite set, as the size of a disjoint      *)
(* union: a definition without recursion, so that facts about sums can be  *)
(* proved where induction over data cannot.                                *)
(***************************************************************************)
EXTENDS Integers, FiniteSets

Units(f, S) == UNION {{x} \X (1..f[x]) : x \in S}

SumOver(f, S) == Cardinality(Units(f, S))

=============================================================================
