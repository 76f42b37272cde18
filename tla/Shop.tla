-------------------------------- MODULE Shop --------------------------------
(***************************************************************************)
(* From the cart to the money: what a cart shows and its order charges     *)
(* (Checkout), and how an order gets paid (Payments).  Checkout knows of a *)
(* payment only that it came and Payments no amounts, so they share no     *)
(* variable: their steps interleave and each leaves the other alone.       *)
(***************************************************************************)
EXTENDS Payments

CONSTANTS
  Variants, Cost, OptedOut, Pins, Bundles, MarginPct, MemberPct, Coupon, TaxRates, Shipping,
  Prices, Baskets, Orders, NoOrder   \* see Checkout

\* Amounts are whole cents and quantities are counted; a membership takes a hundred
\* percent at most (milieu.schema.ts:9); a bundle is a count and a price each.
ASSUME ShopAssumption ==
  /\ IsFiniteSet(Variants) /\ OptedOut \subseteq Variants /\ Pins \subseteq Variants
  /\ Cost \in [Variants -> Nat]
  /\ Prices \subseteq [Variants -> Nat] /\ Baskets \subseteq [Variants -> Nat]
  /\ Bundles \subseteq Nat \X Nat
  /\ MarginPct \in Nat /\ MemberPct \in 0 .. 100
  /\ Coupon \in [type : {"percent", "fixed"}, amount : Nat]
  /\ TaxRates \subseteq Nat /\ Shipping \in Nat
  /\ NoOrder \notin Orders

VARIABLES c_price, c_taxPct, c_cart, c_order, c_keyed, c_call, c_calm

cvars == <<c_price, c_taxPct, c_cart, c_order, c_keyed, c_call, c_calm>>
all == <<vars, cvars>>

Cart ==
  INSTANCE Checkout WITH
    price <- c_price, taxPct <- c_taxPct, cart <- c_cart, order <- c_order,
    keyed <- c_keyed, call <- c_call, calm <- c_calm

-----------------------------------------------------------------------------
ShopInit == Init /\ Cart!Init

PaymentsMove == Next /\ UNCHANGED cvars
CheckoutMoves == Cart!Next /\ UNCHANGED vars

ShopNext == PaymentsMove \/ CheckoutMoves

ShopSpec == ShopInit /\ [][ShopNext]_all

-----------------------------------------------------------------------------
\* Checkout: the figures of an order add up and keep the margin, and a checkout that
\* nothing disturbs charges what its cart showed.  (The types ride along.)
CheckoutPriced == Cart!TypeOK /\ Cart!CheckoutPriced

=============================================================================
