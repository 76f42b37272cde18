-------------------------- MODULE MCOrderLifecycle --------------------------
(* Instances of OrderLifecycle for TLC.                                    *)
EXTENDS OrderLifecycle, TLC

Two == [v \in Variants |-> 2]
Tracked == [v \in Variants |-> "tracked"]
Printed == [v \in Variants |-> "in_stock"]
NoWrites == {}
AfterSale == {"shipped", "delivered", "cancelled"}
ResyncToZero == {<<"tracked", 0>>}
AllStatuses == {"processing", "shipped", "delivered", "cancelled", "failed"}

Symmetric == Permutations(Orders) \cup Permutations(Requests) \cup Permutations(Settlers)

=============================================================================
