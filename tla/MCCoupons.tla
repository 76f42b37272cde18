----------------------------- MODULE MCCoupons -----------------------------
(* Instances of Coupons for TLC.                                           *)
EXTENDS Coupons, TLC

TightLimits == {<<1, 2>>, <<2, 1>>}

Symmetric == Permutations(Orders) \cup Permutations(Tabs) \cup Permutations(Customers)

=============================================================================
