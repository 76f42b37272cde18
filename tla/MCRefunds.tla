----------------------------- MODULE MCRefunds -----------------------------
(* Instances of Refunds for TLC.                                           *)
EXTENDS Refunds, TLC, Functions

\* A tally is the sum of the values.
ASSUME TallyIsSum ==
  \A h \in [1 .. 3 -> 0 .. 3] : Tally(1 .. 3, 3, h) = FoldFunction(+, 0, h)

Webhook == {"webhook"}
AnyGateway == {"sync", "webhook"}
Nowhere == {}
Anywhere == {"call", "delivery"}

Symmetric == Permutations(Keys) \cup Permutations(Calls) \cup Permutations(Deliveries)

=============================================================================
