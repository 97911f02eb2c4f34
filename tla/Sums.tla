---------------------------------- MODULE Sums ----------------------------------
(***************************************************************************)
(* SQL's SUM over rows with natural amounts, as the number of units in     *)
(* them: the theorems about cardinality then speak about sums.             *)
(***************************************************************************)
EXTENDS Integers, FiniteSets

\* The units that x in S contributes are the pairs <<x, 1>> to <<x, f[x]>>.
Units(f, S) == UNION {{x} \X (1..f[x]) : x \in S}

SumOver(f, S) == Cardinality(Units(f, S))

\* The same over rows whose amounts may be negative.
NetOver(f, S) == SumOver([x \in S |-> IF f[x] > 0 THEN f[x] ELSE 0], S)
                   - SumOver([x \in S |-> IF f[x] < 0 THEN -f[x] ELSE 0], S)
=================================================================================
