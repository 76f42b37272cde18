------------------------------- MODULE Tally -------------------------------
(***************************************************************************)
(* The sum of a function's values, as the SQL aggregates of the engine     *)
(* compute it (_sum of a column).  Each unit counts as one element of a    *)
(* set, so a sum is a cardinality and can be reasoned about as one.        *)
(***************************************************************************)
EXTENDS Integers, FiniteSets

\* One element for every unit of every value of h on X; no value exceeds N.
UnitsOf(X, N, h) == {u \in X \X (1 .. N) : u[2] <= h[u[1]]}

Tally(X, N, h) == Cardinality(UnitsOf(X, N, h))

=============================================================================
