----------------------------- MODULE MCCheckout -----------------------------
(***************************************************************************)
(* Shop for TLC.  Its two parts share no state, so one of them moves at a  *)
(* time: "part" says which, and the state spaces add up.                   *)
(***************************************************************************)
EXTENDS Shop, TLC

VARIABLE part

\* The two orders go by the names of the two tokens, to share their symmetry.
Symmetric == Permutations(Tokens) \cup Permutations(Tabs) \cup Permutations(Deliveries)

\* A tee and a pin: the tee has a recorded cost, and a margin that a coupon of 9 would
\* break at its lower price; the pin is out of promotions and is 5 from two on.
PerPiece(tee, pin) == [v \in Variants |-> IF v = "tee" THEN tee ELSE pin]

Costs == PerPiece(10, 0)
TwoForFive == {<<2, 5>>}
NineOff == [type |-> "fixed", amount |-> 9]
PriceLists == {PerPiece(20, 7), PerPiece(16, 7)}
SomeBaskets == {PerPiece(2, 0), PerPiece(1, 2)}

-----------------------------------------------------------------------------
\* The part that does not move stands at one of its initial states.
MCInit ==
  /\ part \in {"payments", "race", "calm"}
  /\ ShopInit
  /\ part # "calm" => c_price = PerPiece(20, 7) /\ c_taxPct = 10

Editing(t) == c_call[t].pc = "save"

\* Checkouts that overlap, with the prices at rest; and checkouts one after the other,
\* between which the prices move.  An edit of the cart is written as soon as it is read:
\* one that writes later leaves a cart as possible as any, or brings back a paid one.
MCNext ==
  \/ part = "payments" /\ PaymentsMove /\ UNCHANGED part
  \/ /\ part \in {"race", "calm"} /\ CheckoutMoves /\ UNCHANGED part
     /\ (\E t \in Tabs : Editing(t)) => \A t \in Tabs : ~Editing(t)'
     /\ part = "race" => UNCHANGED c_price
     /\ part = "calm" => c_calm'

MCSpec == MCInit /\ [][MCNext]_<<part, all>>

=============================================================================
