--------------------------- MODULE CheckoutProofs ---------------------------
(***************************************************************************)
(* Theorems about Checkout, in the shop: for any catalogue, prices,        *)
(* baskets, discounts and tabs, the figures of every order add up, and     *)
(* what a cart shows is what its order charges.                            *)
(*                                                                         *)
(* The money is a sum over the lines, a fold over a finite set.  What is   *)
(* true of a sum is proved by a smallest counterexample: of the parts of   *)
(* the set where it fails one has no smaller one below it.                 *)
(***************************************************************************)
EXTENDS Shop, FiniteSetTheorems, TLAPS

-----------------------------------------------------------------------------
(* Sums                                                                    *)

\* Among sets of parts of a finite set there is one with no other below it: what
\* fails somewhere fails first somewhere.
LEMMA Minimal ==
  ASSUME NEW D, IsFiniteSet(D), NEW B \in SUBSET (SUBSET D), B # {}
  PROVE  \E s \in B : \A t \in SUBSET s : t # s => t \notin B
<1>1. IsWellFoundedOn(StrictSubsetOrdering(D), FiniteSubsetsOf(D)) /\ FiniteSubsetsOf(D) = SUBSET D
  BY FS_StrictSubsetOrderingWellFounded, FS_FiniteSubsetsOfFinite
<1>2. PICK s \in B : \A t \in B : ~(<<t, s>> \in StrictSubsetOrdering(D))
  BY <1>1, WFMin
<1> QED
  BY <1>2 DEF StrictSubsetOrdering

Pick(s) == CHOOSE x \in s : TRUE

\* "it" adds up f over every part of D, as a fold does.
Adds(f, D, it) ==
  it = [s \in SUBSET D |-> IF s = {} THEN 0 ELSE f[Pick(s)] + it[s \ {Pick(s)}]]

LEMMA PickIn == ASSUME NEW s, s # {} PROVE Pick(s) \in s
  BY DEF Pick

LEMMA AddsAt ==
  ASSUME NEW f, NEW D, NEW it, Adds(f, D, it), NEW s \in SUBSET D
  PROVE  it[s] = IF s = {} THEN 0 ELSE f[Pick(s)] + it[s \ {Pick(s)}]
  BY DEF Adds

\* Two functions that agree add up to the same.
LEMMA AddsAgree ==
  ASSUME NEW D, IsFiniteSet(D), NEW E, NEW f, NEW g, NEW it, NEW jt,
         Adds(f, D, it), Adds(g, E, jt), NEW T \in SUBSET D, T \subseteq E,
         \A x \in T : f[x] = g[x]
  PROVE  it[T] = jt[T]
<1> DEFINE B == {s \in SUBSET T : it[s] # jt[s]}
<1>1. IsFiniteSet(T) /\ B \in SUBSET (SUBSET T)
  BY FS_Subset
<1>2. ASSUME B # {} PROVE FALSE
  <2>1. \E s \in B : \A t \in SUBSET s : t # s => t \notin B
    <3> HIDE DEF B
    <3> QED
      BY <1>1, <1>2, Minimal
  <2>2. PICK s \in SUBSET T : it[s] # jt[s] /\ \A t \in SUBSET s : t # s => it[t] = jt[t]
    BY <2>1
  <2>3. s # {}
    <3>1. it[{}] = 0
      BY AddsAt
    <3>2. jt[{}] = 0
      BY AddsAt
    <3> QED
      BY <2>2, <3>1, <3>2
  <2>4. Pick(s) \in s /\ s \ {Pick(s)} \in SUBSET s /\ s \ {Pick(s)} # s
    BY <2>3, PickIn
  <2>5. it[s \ {Pick(s)}] = jt[s \ {Pick(s)}]
    BY <2>2, <2>4
  <2>6. it[s] = f[Pick(s)] + it[s \ {Pick(s)}]
    BY <2>2, <2>3, AddsAt
  <2>7. jt[s] = g[Pick(s)] + jt[s \ {Pick(s)}]
    <3>1. s \in SUBSET E
      BY <2>2
    <3> QED
      BY <2>3, <3>1, AddsAt
  <2> QED
    BY <2>2, <2>4, <2>5, <2>6, <2>7
<1> QED
  BY <1>2

\* A sum exists.
LEMMA AddsExists ==
  ASSUME NEW D, IsFiniteSet(D), NEW f
  PROVE  \E it : Adds(f, D, it)
<1> DEFINE B == {s \in SUBSET D : ~\E it : Adds(f, s, it)}
<1>1. ASSUME B # {} PROVE FALSE
  <2>1. \E s \in B : \A t \in SUBSET s : t # s => t \notin B
    <3>1. B \in SUBSET (SUBSET D)
      OBVIOUS
    <3> HIDE DEF B
    <3> QED
      BY <1>1, <3>1, Minimal
  <2>2. PICK s \in SUBSET D : /\ ~\E it : Adds(f, s, it)
                             /\ \A t \in SUBSET s : t # s => \E it : Adds(f, t, it)
    BY <2>1
  <2>3. IsFiniteSet(s)
    BY FS_Subset
  <2> DEFINE Of(t) == CHOOSE it : Adds(f, t, it)
             h == [t \in SUBSET s |->
                     IF t = {} THEN 0 ELSE f[Pick(t)] + Of(t \ {Pick(t)})[t \ {Pick(t)}]]
  <2>4. \A t \in SUBSET s : t # s => Adds(f, t, Of(t))
    BY <2>2
  <2> HIDE DEF Of
  <2>5. ASSUME NEW t \in SUBSET s, t # {}
        PROVE  Of(t \ {Pick(t)})[t \ {Pick(t)}] = h[t \ {Pick(t)}]
    <3> DEFINE u == t \ {Pick(t)}
               w == u \ {Pick(u)}
    <3>1. Pick(t) \in t
      BY <2>5, PickIn
    <3>2. u \in SUBSET s /\ u # s
      BY <3>1
    <3>3. Adds(f, u, Of(u))
      BY <2>4, <3>2
    <3>4. Of(u)[u] = IF u = {} THEN 0 ELSE f[Pick(u)] + Of(u)[w]
      <4>1. u \in SUBSET u
        OBVIOUS
      <4> HIDE DEF u
      <4> QED
        BY <3>3, <4>1, AddsAt
    <3>5. ASSUME u # {} PROVE Of(u)[w] = Of(w)[w]
      <4>1. Pick(u) \in u
        BY <3>5, PickIn
      <4>2. w \in SUBSET s /\ w # s /\ w \subseteq u
        BY <3>2, <4>1
      <4>3. Adds(f, w, Of(w))
        BY <2>4, <4>2
      <4>4. IsFiniteSet(u)
        BY <2>3, <3>2, FS_Subset
      <4>5. w \in SUBSET u /\ w \subseteq w /\ \A x \in w : f[x] = f[x]
        BY <4>2
      <4> HIDE DEF u, w
      <4> QED
        BY <3>3, <4>3, <4>4, <4>5, AddsAgree
    <3>6. h[u] = IF u = {} THEN 0 ELSE f[Pick(u)] + Of(w)[w]
      BY <3>2
    <3> HIDE DEF u, w, h
    <3>7. Of(u)[u] = h[u]
      BY <3>4, <3>5, <3>6
    <3> QED
      BY <3>7 DEF u
  <2>6. h = [t \in SUBSET s |-> IF t = {} THEN 0 ELSE f[Pick(t)] + h[t \ {Pick(t)}]]
    BY <2>5
  <2>7. Adds(f, s, h)
    BY <2>6 DEF Adds
  <2> QED
    BY <2>2, <2>7
<1> QED
  BY <1>1

\* The sum of f over a part of its domain.
Sums(f) == CHOOSE it : Adds(f, DOMAIN f, it)
Sum(f, T) == Sums(f)[T]

LEMMA SumsAdd ==
  ASSUME NEW f, IsFiniteSet(DOMAIN f)
  PROVE  Adds(f, DOMAIN f, Sums(f))
  BY AddsExists DEF Sums

LEMMA TotalIsSum ==
  ASSUME NEW f
  PROVE  Cart!Total(f) = Sum(f, DOMAIN f)
<1>1. Cart!Total(f) = (CHOOSE it : it = [s \in SUBSET (DOMAIN f) |->
                     IF s = {} THEN 0 ELSE f[Pick(s)] + it[s \ {Pick(s)}]])[DOMAIN f]
  BY DEF Cart!Total, Cart!FoldFunction, Cart!FoldFunctionOnSet, Cart!MapThenFoldSet, Pick
<1> QED
  BY <1>1 DEF Sum, Sums, Adds

LEMMA SumAt ==
  ASSUME NEW f, IsFiniteSet(DOMAIN f), NEW s \in SUBSET (DOMAIN f)
  PROVE  Sum(f, s) = IF s = {} THEN 0 ELSE f[Pick(s)] + Sum(f, s \ {Pick(s)})
  BY SumsAdd, AddsAt DEF Sum

\* Sums of functions that agree on a part are the same there, whatever else they are.
LEMMA SumAgree ==
  ASSUME NEW f, NEW g, IsFiniteSet(DOMAIN f), IsFiniteSet(DOMAIN g),
         NEW T, T \subseteq DOMAIN f, T \subseteq DOMAIN g, \A x \in T : f[x] = g[x]
  PROVE  Sum(f, T) = Sum(g, T)
<1>1. Adds(f, DOMAIN f, Sums(f)) /\ Adds(g, DOMAIN g, Sums(g)) /\ T \in SUBSET (DOMAIN f)
  BY SumsAdd
<1> QED
  BY <1>1, AddsAgree DEF Sum

\* What fails for a part of D fails for one all whose own parts are fine.
LEMMA SumNat ==
  ASSUME NEW D, IsFiniteSet(D), NEW f \in [D -> Nat], NEW T \in SUBSET D
  PROVE  Sum(f, T) \in Nat
<1> DEFINE B == {s \in SUBSET D : Sum(f, s) \notin Nat}
<1>1. ASSUME B # {} PROVE FALSE
  <2>1. \E s \in B : \A t \in SUBSET s : t # s => t \notin B
    <3>1. B \in SUBSET (SUBSET D)
      OBVIOUS
    <3> HIDE DEF B
    <3> QED
      BY <1>1, <3>1, Minimal
  <2>2. PICK s \in SUBSET D : Sum(f, s) \notin Nat /\ \A t \in SUBSET s : t # s => Sum(f, t) \in Nat
    BY <2>1
  <2>3. Sum(f, s) = IF s = {} THEN 0 ELSE f[Pick(s)] + Sum(f, s \ {Pick(s)})
    BY SumAt
  <2>4. s # {}
    BY <2>2, <2>3
  <2>5. Pick(s) \in s /\ f[Pick(s)] \in Nat
    BY <2>4, PickIn
  <2>6. Sum(f, s \ {Pick(s)}) \in Nat
    BY <2>2, <2>5
  <2> QED
    BY <2>2, <2>3, <2>4, <2>5, <2>6
<1> QED
  BY <1>1

\* A sum may be taken in any order.
LEMMA SumWithout ==
  ASSUME NEW D, IsFiniteSet(D), NEW f \in [D -> Nat], NEW T \in SUBSET D, NEW x \in T
  PROVE  Sum(f, T) = f[x] + Sum(f, T \ {x})
<1> DEFINE B == {s \in SUBSET D : \E y \in s : Sum(f, s) # f[y] + Sum(f, s \ {y})}
<1>1. ASSUME B # {} PROVE FALSE
  <2>1. \E s \in B : \A t \in SUBSET s : t # s => t \notin B
    <3>1. B \in SUBSET (SUBSET D)
      OBVIOUS
    <3> HIDE DEF B
    <3> QED
      BY <1>1, <3>1, Minimal
  <2>2. PICK s \in SUBSET D :
           /\ \E y \in s : Sum(f, s) # f[y] + Sum(f, s \ {y})
           /\ \A t \in SUBSET s : t # s => \A y \in t : Sum(f, t) = f[y] + Sum(f, t \ {y})
    <3>1. PICK s \in B : \A t \in SUBSET s : t # s => t \notin B
      BY <2>1
    <3>2. s \in SUBSET D /\ \E y \in s : Sum(f, s) # f[y] + Sum(f, s \ {y})
      OBVIOUS
    <3>3. ASSUME NEW t \in SUBSET s, t # s, NEW y \in t
          PROVE  Sum(f, t) = f[y] + Sum(f, t \ {y})
      <4>1. t \in SUBSET D /\ t \notin B
        BY <3>1, <3>2, <3>3
      <4> QED
        BY <4>1
    <3> QED
      BY <3>2, <3>3
  <2>3. PICK y \in s : Sum(f, s) # f[y] + Sum(f, s \ {y})
    BY <2>2
  <2> DEFINE p == Pick(s)
             u == s \ {p, y}
  <2>4. p \in s /\ Sum(f, s) = f[p] + Sum(f, s \ {p})
    BY <2>3, SumAt, PickIn
  <2>5. p # y
    BY <2>3, <2>4
  <2> HIDE DEF p
  <2>6. Sum(f, s \ {p}) = f[y] + Sum(f, u)
    <3>1. s \ {p} \in SUBSET s /\ s \ {p} # s /\ y \in s \ {p} /\ (s \ {p}) \ {y} = u
      BY <2>3, <2>4, <2>5
    <3> HIDE DEF u
    <3> QED
      BY <2>2, <3>1
  <2>7. Sum(f, s \ {y}) = f[p] + Sum(f, u)
    <3>1. s \ {y} \in SUBSET s /\ s \ {y} # s /\ p \in s \ {y} /\ (s \ {y}) \ {p} = u
      BY <2>3, <2>4, <2>5
    <3> HIDE DEF u
    <3> QED
      BY <2>2, <3>1
  <2>8. u \in SUBSET D
    OBVIOUS
  <2> HIDE DEF u
  <2>9. Sum(f, u) \in Nat /\ f[p] \in Nat /\ f[y] \in Nat
    BY <2>4, <2>8, SumNat
  <2> QED
    BY <2>3, <2>4, <2>6, <2>7, <2>9
<1> QED
  BY <1>1

\* A part adds up to no more than the whole.
LEMMA SumPart ==
  ASSUME NEW D, IsFiniteSet(D), NEW f \in [D -> Nat], NEW T \in SUBSET D
  PROVE  Sum(f, T) <= Sum(f, D)
<1> DEFINE B == {s \in SUBSET D : T \subseteq s /\ ~(Sum(f, T) <= Sum(f, s))}
<1>1. ASSUME B # {} PROVE FALSE
  <2>1. \E s \in B : \A t \in SUBSET s : t # s => t \notin B
    <3>1. B \in SUBSET (SUBSET D)
      OBVIOUS
    <3> HIDE DEF B
    <3> QED
      BY <1>1, <3>1, Minimal
  <2>2. PICK s \in SUBSET D :
           /\ T \subseteq s /\ ~(Sum(f, T) <= Sum(f, s))
           /\ \A t \in SUBSET s : t # s => (T \subseteq t => Sum(f, T) <= Sum(f, t))
    BY <2>1
  <2>3. Sum(f, T) \in Nat
    BY SumNat
  <2>4. PICK x \in s : x \notin T
    <3>1. s # T
      BY <2>2, <2>3
    <3> QED
      BY <2>2, <3>1
  <2>5. Sum(f, s) = f[x] + Sum(f, s \ {x})
    BY SumWithout
  <2>6. Sum(f, T) <= Sum(f, s \ {x})
    BY <2>2, <2>4
  <2>7. Sum(f, s \ {x}) \in Nat /\ f[x] \in Nat
    BY SumNat
  <2> QED
    BY <2>2, <2>3, <2>5, <2>6, <2>7
<1>2. D \notin B
  BY <1>1
<1> QED
  BY <1>2

\* What is at most k times as much everywhere adds up to at most k times as much.
LEMMA SumScaled ==
  ASSUME NEW D, IsFiniteSet(D), NEW f \in [D -> Nat], NEW g \in [D -> Nat], NEW k \in Nat,
         \A x \in D : g[x] <= k * f[x]
  PROVE  Sum(g, D) <= k * Sum(f, D)
<1> DEFINE B == {s \in SUBSET D : ~(Sum(g, s) <= k * Sum(f, s))}
<1>1. ASSUME B # {} PROVE FALSE
  <2>1. \E s \in B : \A t \in SUBSET s : t # s => t \notin B
    <3>1. B \in SUBSET (SUBSET D)
      OBVIOUS
    <3> HIDE DEF B
    <3> QED
      BY <1>1, <3>1, Minimal
  <2>2. PICK s \in SUBSET D :
           /\ ~(Sum(g, s) <= k * Sum(f, s))
           /\ \A t \in SUBSET s : t # s => Sum(g, t) <= k * Sum(f, t)
    BY <2>1
  <2> DEFINE p == Pick(s)
             u == s \ {p}
  <2>3. /\ Sum(f, s) = IF s = {} THEN 0 ELSE f[p] + Sum(f, u)
        /\ Sum(g, s) = IF s = {} THEN 0 ELSE g[p] + Sum(g, u)
    BY SumAt
  <2>4. s # {}
    BY <2>2, <2>3
  <2>5. p \in s
    BY <2>4, PickIn
  <2>6. u \in SUBSET s /\ u # s /\ u \in SUBSET D
    BY <2>5
  <2> HIDE DEF p, u
  <2>7. /\ Sum(f, u) \in Nat /\ Sum(g, u) \in Nat
        /\ f[p] \in Nat /\ g[p] \in Nat /\ g[p] <= k * f[p]
    BY <2>5, <2>6, SumNat
  <2>8. Sum(g, u) <= k * Sum(f, u)
    BY <2>2, <2>6
  <2>9. k * (f[p] + Sum(f, u)) = k * f[p] + k * Sum(f, u) /\ k * f[p] \in Nat /\ k * Sum(f, u) \in Nat
    BY <2>7
  <2> QED
    BY <2>2, <2>3, <2>4, <2>7, <2>8, <2>9
<1>2. D \notin B
  BY <1>1
<1> QED
  BY <1>2

-----------------------------------------------------------------------------
(* Money                                                                   *)

Amounts == [Variants -> Nat]

LEMMA MaxOfTwo ==
  ASSUME NEW x \in Int, NEW y \in Int
  PROVE  Cart!Max({x, y}) = IF x >= y THEN x ELSE y
  BY DEF Cart!Max

LEMMA MaxOfThree ==
  ASSUME NEW x \in Int, NEW y \in Int, NEW z \in Int
  PROVE  /\ Cart!Max({x, y, z}) \in {x, y, z}
         /\ Cart!Max({x, y, z}) >= x /\ Cart!Max({x, y, z}) >= y /\ Cart!Max({x, y, z}) >= z
  BY DEF Cart!Max

LEMMA MinOfTwo ==
  ASSUME NEW x \in Int, NEW y \in Int
  PROVE  Cart!Min({x, y}) = IF x <= y THEN x ELSE y
  BY DEF Cart!Min

LEMMA MinNat ==
  ASSUME NEW S \in SUBSET Nat, S # {}
  PROVE  Cart!Min(S) \in S
<1>1. IsWellFoundedOn(OpToRel(<, Nat), Nat)
  BY NatLessThanWellFounded
<1>2. PICK x \in S : \A y \in S : ~(<<y, x>> \in OpToRel(<, Nat))
  BY <1>1, WFMin
<1>3. ASSUME NEW y \in S PROVE x <= y
  <2>1. <<y, x>> \in Nat \X Nat /\ <<y, x>>[1] = y /\ <<y, x>>[2] = x
    OBVIOUS
  <2>2. ~(y < x)
    BY <1>2, <2>1 DEF OpToRel
  <2> QED
    BY <2>2
<1> QED
  BY <1>3 DEF Cart!Min

LEMMA WorthType ==
  ASSUME ShopAssumption, NEW b \in Amounts, NEW p \in Amounts, NEW V \in SUBSET Variants
  PROVE  Cart!Worth(b, p, V) \in Nat /\ Cart!Worth(b, p, V) <= Cart!Worth(b, p, Variants)
<1> DEFINE f == [v \in Variants |-> b[v] * p[v]]
           g == [v \in V |-> b[v] * p[v]]
<1>1. f \in [Variants -> Nat] /\ g \in [V -> Nat] /\ IsFiniteSet(V) /\ IsFiniteSet(Variants)
  BY FS_Subset DEF ShopAssumption, Amounts
<1>2. DOMAIN f = Variants /\ DOMAIN g = V /\ \A v \in V : f[v] = g[v]
  OBVIOUS
<1>3. Cart!Worth(b, p, V) = Cart!Total(g) /\ Cart!Worth(b, p, Variants) = Cart!Total(f)
  BY DEF Cart!Worth
<1> HIDE DEF f, g
<1>4. Cart!Worth(b, p, V) = Sum(g, V) /\ Cart!Worth(b, p, Variants) = Sum(f, Variants)
  BY <1>2, <1>3, TotalIsSum
<1>5. Sum(g, V) = Sum(f, V)
  BY <1>1, <1>2, SumAgree
<1>6. Sum(f, V) \in Nat /\ Sum(f, V) <= Sum(f, Variants)
  BY <1>1, SumNat, SumPart
<1> QED
  BY <1>4, <1>5, <1>6

LEMMA PercentType ==
  ASSUME NEW n \in Nat, NEW pct \in Nat
  PROVE  Cart!Percent(n, pct) \in Nat /\ (pct <= 100 => Cart!Percent(n, pct) <= n)
<1> DEFINE m == 2 * n * pct
<1>1. m \in Nat
  OBVIOUS
<1>2. pct <= 100 => m <= 200 * n
  <2>1. pct <= 100 => n * pct <= n * 100
    OBVIOUS
  <2> QED
    BY <2>1
<1>3. Cart!Percent(n, pct) = (m + 100) \div 200
  BY DEF Cart!Percent
<1> HIDE DEF m
<1> QED
  BY <1>1, <1>2, <1>3

LEMMA EligibleType ==
  ASSUME ShopAssumption, NEW b \in Amounts, NEW p \in Amounts
  PROVE  Cart!Eligible(b, p) \in Nat /\ Cart!Eligible(b, p) <= Cart!Worth(b, p, Variants)
  BY WorthType DEF Cart!Eligible, ShopAssumption

LEMMA BundleType ==
  ASSUME ShopAssumption, NEW b \in Amounts, NEW p \in Amounts
  PROVE  Cart!BundleOff(b, p) \in Int
<1> DEFINE f == [v \in Pins |-> b[v]]
           pins == Cart!Total(f)
           filled == {x \in Bundles : x[1] <= pins}
           least == {x[2] : x \in filled}
<1>1. pins \in Nat
  <2>1. f \in [Pins -> Nat] /\ DOMAIN f = Pins /\ IsFiniteSet(Pins)
    BY FS_Subset DEF ShopAssumption, Amounts
  <2> HIDE DEF f
  <2> QED
    BY <2>1, TotalIsSum, SumNat
<1>2. Cart!Worth(b, p, Pins) \in Nat
  BY WorthType DEF ShopAssumption
<1>3. filled # {} => Cart!Min(least) \in Nat
  <2>1. least \in SUBSET Nat
    BY DEF ShopAssumption
  <2>2. filled # {} => least # {}
    OBVIOUS
  <2> HIDE DEF least, filled
  <2> QED
    BY <2>1, <2>2, MinNat
<1>4. Cart!BundleOff(b, p) = IF filled = {} THEN 0 ELSE Cart!Worth(b, p, Pins) - pins * Cart!Min(least)
  BY DEF Cart!BundleOff
<1> HIDE DEF pins, filled, least
<1> QED
  BY <1>1, <1>2, <1>3, <1>4

LEMMA CouponType ==
  ASSUME ShopAssumption, NEW b \in Amounts, NEW p \in Amounts
  PROVE  Cart!CouponOff(b, p) \in Nat /\ Cart!CouponOff(b, p) <= Cart!Eligible(b, p)
<1> DEFINE x == IF Coupon.type = "percent" THEN Cart!Percent(Cart!Eligible(b, p), Coupon.amount)
                                          ELSE Coupon.amount
<1>1. Cart!Eligible(b, p) \in Nat /\ Coupon.amount \in Nat
  BY EligibleType DEF ShopAssumption
<1>2. x \in Nat
  BY <1>1, PercentType
<1>3. Cart!CouponOff(b, p) = Cart!Min({Cart!Eligible(b, p), x})
  BY DEF Cart!CouponOff
<1> HIDE DEF x
<1> QED
  BY <1>1, <1>2, <1>3, MinOfTwo

LEMMA OwnType ==
  ASSUME ShopAssumption, NEW b \in Amounts, NEW p \in Amounts, NEW member \in BOOLEAN
  PROVE  /\ Cart!OwnOff(b, p, member) \in Nat
         /\ Cart!OwnOff(b, p, member) <= Cart!Max({Cart!Eligible(b, p), Cart!BundleOff(b, p)})
<1> DEFINE x == IF member THEN Cart!MemberOff(b, p) ELSE 0
<1>1. Cart!Eligible(b, p) \in Nat /\ Cart!BundleOff(b, p) \in Int
  BY EligibleType, BundleType
<1>2. x \in Nat /\ x <= Cart!Eligible(b, p)
  <2>1. MemberPct \in Nat /\ MemberPct <= 100
    BY DEF ShopAssumption
  <2>2. Cart!MemberOff(b, p) \in Nat /\ Cart!MemberOff(b, p) <= Cart!Eligible(b, p)
    BY <1>1, <2>1, PercentType DEF Cart!MemberOff
  <2> QED
    BY <1>1, <2>2
<1>3. Cart!OwnOff(b, p, member) = Cart!Max({0, Cart!BundleOff(b, p), x})
  BY DEF Cart!OwnOff
<1> HIDE DEF x
<1>4. /\ Cart!Max({0, Cart!BundleOff(b, p), x}) \in {0, Cart!BundleOff(b, p), x}
      /\ Cart!Max({0, Cart!BundleOff(b, p), x}) >= 0
  <2>1. 0 \in Int /\ Cart!BundleOff(b, p) \in Int /\ x \in Int
    BY <1>1, <1>2
  <2> QED
    BY ONLY <2>1, MaxOfThree
<1>5. /\ Cart!Max({Cart!Eligible(b, p), Cart!BundleOff(b, p)}) >= Cart!Eligible(b, p)
      /\ Cart!Max({Cart!Eligible(b, p), Cart!BundleOff(b, p)}) >= Cart!BundleOff(b, p)
      /\ Cart!Max({Cart!Eligible(b, p), Cart!BundleOff(b, p)}) \in Int
  BY <1>1, MaxOfTwo
<1> QED
  BY <1>1, <1>2, <1>3, <1>4, <1>5

-----------------------------------------------------------------------------
(* The margin floor                                                        *)

Priced(b) == {v \in Variants : Cost[v] > 0 /\ b[v] > 0}
Line(b, v) == Cost[v] * b[v] * (100 + MarginPct)
Cents(n) == (n + 99) \div 100
Least(b) == [v \in Priced(b) |-> Cents(Line(b, v))]
Exact(b) == [v \in Priced(b) |-> Line(b, v)]

\* Rounded up to whole cents line by line, the floor covers the exact one.
LEMMA FloorCovers ==
  ASSUME ShopAssumption, NEW b \in Amounts
  PROVE  /\ Cart!Total(Least(b)) \in Nat /\ Cart!Total(Exact(b)) \in Nat
         /\ Cart!Total(Exact(b)) <= 100 * Cart!Total(Least(b))
<1>1. IsFiniteSet(Priced(b))
  BY FS_Subset DEF Priced, ShopAssumption
<1>2. ASSUME NEW v \in Priced(b)
      PROVE  /\ Line(b, v) \in Nat /\ Cents(Line(b, v)) \in Nat
             /\ Line(b, v) <= 100 * Cents(Line(b, v))
  <2>1. Line(b, v) \in Nat
    <3>1. Cost[v] \in Nat /\ b[v] \in Nat /\ 100 + MarginPct \in Nat
      BY DEF Priced, ShopAssumption, Amounts
    <3>2. Cost[v] * b[v] \in Nat
      BY <3>1
    <3> QED
      BY <3>1, <3>2 DEF Line
  <2> QED
    BY <2>1 DEF Cents
<1>3. /\ Exact(b) \in [Priced(b) -> Nat] /\ Least(b) \in [Priced(b) -> Nat]
      /\ DOMAIN Exact(b) = Priced(b) /\ DOMAIN Least(b) = Priced(b)
      /\ \A v \in Priced(b) : Exact(b)[v] <= 100 * Least(b)[v]
  BY <1>2 DEF Exact, Least
<1>4. /\ Cart!Total(Exact(b)) = Sum(Exact(b), Priced(b))
      /\ Cart!Total(Least(b)) = Sum(Least(b), Priced(b))
      /\ Sum(Exact(b), Priced(b)) \in Nat /\ Sum(Least(b), Priced(b)) \in Nat
  BY <1>1, <1>3, TotalIsSum, SumNat
<1>5. Sum(Exact(b), Priced(b)) <= 100 * Sum(Least(b), Priced(b))
  BY <1>1, <1>3, SumScaled
<1> QED
  BY <1>4, <1>5

LEMMA HeadroomType ==
  ASSUME ShopAssumption, NEW b \in Amounts, NEW p \in Amounts
  PROVE  /\ Cart!Headroom(b, p) \in Nat
         /\ \/ Cart!Headroom(b, p) = 0
            \/ Cart!Headroom(b, p) = Cart!Worth(b, p, Priced(b)) - Cart!Total(Least(b))
<1>1. Cart!Worth(b, p, Priced(b)) \in Nat /\ Cart!Total(Least(b)) \in Nat
  BY WorthType, FloorCovers DEF Priced
<1>2. Cart!Headroom(b, p) = Cart!Max({0, Cart!Worth(b, p, Priced(b)) - Cart!Total(Least(b))})
  BY DEF Cart!Headroom, Priced, Least, Line, Cents
<1> QED
  BY <1>1, <1>2, MaxOfTwo

\* A discount that the floor let through, and any smaller one, leaves the margin.
Fits(b, p, off) == off = 0 \/ Cart!LeavesMargin(b, p, off)

LEMMA FitsLess ==
  ASSUME ShopAssumption, NEW b \in Amounts, NEW p \in Amounts, NEW x \in Nat, NEW y \in Nat,
         y <= x, Fits(b, p, x)
  PROVE  Fits(b, p, y)
<1>1. Cart!Worth(b, p, Priced(b)) \in Nat /\ Cart!Total(Exact(b)) \in Nat
  BY WorthType, FloorCovers DEF Priced
<1>2. \A n : Cart!LeavesMargin(b, p, n) <=>
             (Cart!HasFloor(b) => 100 * (Cart!Worth(b, p, Priced(b)) - n) >= Cart!Total(Exact(b)))
  BY DEF Cart!LeavesMargin, Priced, Exact, Line
<1> QED
  BY <1>1, <1>2 DEF Fits

\* No discount that the floor let through, of any basket at any prices, takes the lines
\* with a cost below their cost and margin, and the floor adds to no discount.
THEOREM FloorHolds ==
  ASSUME ShopAssumption, NEW b \in Amounts, NEW p \in Amounts, NEW n \in Nat
  PROVE  /\ Cart!Clamped(n, b, p) \in Nat /\ Cart!Clamped(n, b, p) <= n
         /\ Fits(b, p, Cart!Clamped(n, b, p))
<1> DEFINE h == Cart!Headroom(b, p)
           off == Cart!Clamped(n, b, p)
<1>1. h \in Nat /\ (h = 0 \/ h = Cart!Worth(b, p, Priced(b)) - Cart!Total(Least(b)))
  BY HeadroomType
<1>2. /\ Cart!Worth(b, p, Priced(b)) \in Nat
      /\ Cart!Total(Least(b)) \in Nat /\ Cart!Total(Exact(b)) \in Nat
      /\ Cart!Total(Exact(b)) <= 100 * Cart!Total(Least(b))
  BY WorthType, FloorCovers DEF Priced
<1>3. off = IF Cart!HasFloor(b) THEN Cart!Min({n, h}) ELSE n
  BY DEF Cart!Clamped
<1>4. Cart!LeavesMargin(b, p, off) <=>
        (Cart!HasFloor(b) => 100 * (Cart!Worth(b, p, Priced(b)) - off) >= Cart!Total(Exact(b)))
  BY DEF Cart!LeavesMargin, Priced, Exact, Line
<1> HIDE DEF h, off
<1>5. off \in Nat /\ off <= n /\ (Cart!HasFloor(b) => off <= h)
  BY <1>1, <1>3, MinOfTwo
<1>6. Fits(b, p, off)
  BY <1>1, <1>2, <1>4, <1>5 DEF Fits
<1> QED
  BY <1>5, <1>6 DEF off
-----------------------------------------------------------------------------
(* The invariant                                                           *)

Docs == [items : Baskets \cup {Cart!Nothing}, coupon : BOOLEAN]
QuoteType ==
  [items : Baskets \cup {Cart!Nothing}, code : BOOLEAN, own : Nat, off : Nat, tax : Nat, total : Nat]
RowType ==
  [status : {"none", "pending", "paid", "failed"}, items : Baskets \cup {Cart!Nothing},
   price : Prices \cup {Cart!Nothing}, tax : Nat, off : Nat, total : Nat, own : Nat, code : BOOLEAN]
CheckType ==
  [pc : {"idle", "save", "find", "rebuild", "insert", "spend", "read", "write", "answer"},
   doc : Docs, shown : QuoteType, order : Orders \cup {NoOrder}, won : BOOLEAN,
   read : [total : Nat, off : Nat]]

Typed ==
  /\ c_price \in Prices /\ c_taxPct \in TaxRates /\ c_calm \in BOOLEAN
  /\ c_cart \in Docs /\ c_keyed \in Orders \cup {NoOrder}
  /\ c_order \in [Orders -> RowType] /\ c_call \in [Tabs -> CheckType]
  
\* The discount that a basket may have at most.
Ceiling(b, p) == Cart!Max({Cart!Eligible(b, p), Cart!BundleOff(b, p)})
Allowed(b, p, off) == Fits(b, p, off) /\ off <= Ceiling(b, p)

\* What the code takes from a basket.
CodeOff(b, p) == Cart!Clamped(Cart!CouponOff(b, p), b, p)

\* What a cart shows at some prices: one discount, that of the code or the own one.
Quoted(q, p) ==
  /\ q.code => /\ q.own = 0 /\ q.off = CodeOff(q.items, p)
               /\ q.off <= Cart!Worth(q.items, p, Variants)
  /\ ~q.code => q.own = q.off
  /\ q.total = Cart!Max({0, Cart!Worth(q.items, p, Variants) - q.off}) + Shipping + q.tax
  /\ Allowed(q.items, p, q.off)

\* What an order costs before its discount.
Due(r) == Cart!Worth(r.items, r.price, Variants) + Shipping + r.tax

\* The figures of a row add up, and without a code its discount is the own one.
Figures(r) ==
  r.status # "none" =>
    /\ r.total + r.off = Due(r)
    /\ ~r.code => r.off = Cart!Min({r.own, Cart!Worth(r.items, r.price, Variants)})

\* A call that has an order has one that was made, and what it read of it adds up; only a
\* code that was shown is written, and it is had before.
Handed == {"rebuild", "spend", "read", "write", "answer"}
ReadRight(c) ==
  /\ c.pc \in Handed => c.order \in Orders /\ c_order[c.order].status # "none"
  /\ c.pc = "write" => c.read.total + c.read.off = Due(c_order[c.order])
  /\ c.pc \in {"read", "write"} => c.shown.code
  /\ c.won => c.pc \in {"read", "write", "answer"}

Sound ==
  /\ \A o \in Orders : Figures(c_order[o])
  /\ \A t \in Tabs : ReadRight(c_call[t])
  /\ c_keyed \in Orders => c_order[c_keyed].status # "none"

\* While nothing disturbs the checkouts: there is one; it shows what the prices say; it
\* makes an order when there is none under the key; and the order it is about to
\* charge, as long as it is open, is the basket it shows, at those prices, with the code
\* if the call has had it.
Alone == \A t, u \in Tabs : Cart!Checking(t) /\ Cart!Checking(u) => t = u
Current == \A o \in Orders : c_order[o].status = "pending" => c_order[o].price = c_price
Shows == \A t \in Tabs : Cart!Checking(t) => Quoted(c_call[t].shown, c_price)
Keys ==
  \A t \in Tabs : /\ Cart!At(t, "insert") => c_keyed = NoOrder
                  /\ Cart!At(t, "rebuild") => c_keyed = c_call[t].order
Matches(r, q) == r.items = q.items /\ r.tax = q.tax /\ r.price = c_price
Charges(c) ==
  LET r == c_order[c.order] IN
  /\ c.pc \in {"spend", "read", "answer"} /\ r.status = "pending" => Matches(r, c.shown)
  /\ c.pc = "write" => Matches(r, c.shown)
  /\ c.pc = "answer" /\ c.won /\ r.status = "pending" => r.code
Lawful(r) ==
  r.status # "none" => /\ Allowed(r.items, r.price, r.off)
                       /\ r.code => r.off = CodeOff(r.items, r.price)

Undisturbed ==
  /\ Alone /\ Current /\ Shows /\ Keys
  /\ \A t \in Tabs : Charges(c_call[t])
  /\ \A o \in Orders : Lawful(c_order[o])

Inv == Typed /\ Sound /\ (c_calm => Undisturbed)

-----------------------------------------------------------------------------
(* What a cart shows, and what an order is made with                       *)

LEMMA AmountsOf ==
  ASSUME ShopAssumption
  PROVE  /\ \A b \in Baskets \cup {Cart!Nothing} : b \in Amounts
         /\ \A p \in Prices \cup {Cart!Nothing} : p \in Amounts
  BY DEF ShopAssumption, Amounts, Cart!Nothing

LEMMA CeilingType ==
  ASSUME ShopAssumption, NEW b \in Amounts, NEW p \in Amounts
  PROVE  Ceiling(b, p) \in Int /\ Ceiling(b, p) >= Cart!Eligible(b, p) /\ Cart!Eligible(b, p) >= 0
<1>1. Cart!Eligible(b, p) \in Nat /\ Cart!BundleOff(b, p) \in Int
  BY EligibleType, BundleType
<1> QED
  BY <1>1, MaxOfTwo DEF Ceiling

\* A smaller discount is allowed where a larger one is.
LEMMA AllowedLess ==
  ASSUME ShopAssumption, NEW b \in Amounts, NEW p \in Amounts, NEW x \in Nat, NEW y \in Nat,
         y <= x, Allowed(b, p, x)
  PROVE  Allowed(b, p, y)
<1>1. Fits(b, p, y)
  BY FitsLess DEF Allowed
<1> QED
  BY <1>1, CeilingType DEF Allowed

\* A cart shows one discount, of the code or its own; it is no more than the cart may
\* have, leaves the margin, and the total is what it leaves with the shipping and the tax.
THEOREM CartIsPriced ==
  ASSUME ShopAssumption, c_taxPct \in TaxRates,
         NEW doc \in Docs, NEW p \in Prices, NEW member \in BOOLEAN
  PROVE  Cart!Shown(doc, p, member) \in QuoteType /\ Quoted(Cart!Shown(doc, p, member), p)
<1> DEFINE b    == doc.items
           code == doc.coupon /\ ~Cart!OwnPrice(b, p, member)
           own  == Cart!Clamped(Cart!OwnOff(b, p, member), b, p)
           cut  == Cart!Clamped(Cart!CouponOff(b, p), b, p)
           off  == IF code THEN cut ELSE own
           left == Cart!Max({0, Cart!Worth(b, p, Variants) - off})
           tax  == Cart!Percent(left, c_taxPct)
           q    == Cart!Shown(doc, p, member)
<1>1. b \in Amounts /\ p \in Amounts /\ b \in Baskets \cup {Cart!Nothing}
  BY AmountsOf DEF Docs
<1>2. code \in BOOLEAN
  BY DEF Docs, Cart!OwnPrice
<1>3. q = [items |-> b, code |-> code, own |-> IF code THEN 0 ELSE own, off |-> off, tax |-> tax,
           total |-> left + Shipping + tax]
  BY DEF Cart!Shown
<1>4. Cart!OwnOff(b, p, member) \in Nat /\ Cart!OwnOff(b, p, member) <= Ceiling(b, p)
  BY <1>1, OwnType DEF Ceiling
<1>5. own \in Nat /\ own <= Cart!OwnOff(b, p, member) /\ Fits(b, p, own)
  BY <1>1, <1>4, FloorHolds
<1>6. Cart!CouponOff(b, p) \in Nat /\ Cart!CouponOff(b, p) <= Cart!Eligible(b, p)
  BY <1>1, CouponType
<1>7. cut \in Nat /\ cut <= Cart!CouponOff(b, p) /\ Fits(b, p, cut)
  BY <1>1, <1>6, FloorHolds
<1>8. Ceiling(b, p) \in Int /\ Ceiling(b, p) >= Cart!Eligible(b, p)
  BY <1>1, CeilingType
<1>9. Cart!Eligible(b, p) \in Nat /\ Cart!Worth(b, p, Variants) \in Nat
      /\ Cart!Eligible(b, p) <= Cart!Worth(b, p, Variants)
  BY <1>1, EligibleType, WorthType
<1>10. /\ off \in Nat /\ Fits(b, p, off) /\ off <= Ceiling(b, p)
       /\ code => off <= Cart!Worth(b, p, Variants)
  BY <1>4, <1>5, <1>6, <1>7, <1>8, <1>9
<1>11. left \in Nat
  BY <1>9, <1>10, MaxOfTwo
<1>12. tax \in Nat /\ Shipping \in Nat
  BY <1>11, PercentType DEF ShopAssumption
<1>13. left = Cart!Max({0, Cart!Worth(b, p, Variants) - off})
  OBVIOUS
<1>14. off = IF code THEN cut ELSE own
  OBVIOUS
<1>15. cut = CodeOff(b, p)
  BY DEF CodeOff
<1> HIDE DEF b, code, own, cut, off, left, tax, q
<1>16. q \in QuoteType
  BY <1>1, <1>2, <1>3, <1>5, <1>10, <1>11, <1>12 DEF QuoteType
<1>17. q.items = b /\ q.code = code /\ q.own = (IF code THEN 0 ELSE own) /\ q.off = off
       /\ q.tax = tax /\ q.total = left + Shipping + tax
  BY <1>3
<1>18. Quoted(q, p)
  BY <1>2, <1>10, <1>13, <1>14, <1>15, <1>17 DEF Quoted, Allowed
<1> QED
  BY <1>16, <1>18 DEF q

\* A new order has the prices of its making and the cart's own discount.
LEMMA RowMade ==
  ASSUME ShopAssumption, c_price \in Prices, NEW q \in QuoteType
  PROVE  /\ Cart!NewRow(q) \in RowType /\ Figures(Cart!NewRow(q))
         /\ Cart!NewRow(q).status = "pending" /\ Matches(Cart!NewRow(q), q)
         /\ Quoted(q, c_price) => Lawful(Cart!NewRow(q))
<1> DEFINE worth == Cart!Worth(q.items, c_price, Variants)
           off   == Cart!Min({q.own, worth})
           r     == Cart!NewRow(q)
<1>1. q.items \in Amounts /\ c_price \in Amounts /\ q.items \in Baskets \cup {Cart!Nothing}
  BY AmountsOf DEF QuoteType
<1>2. worth \in Nat /\ q.own \in Nat /\ q.off \in Nat /\ q.tax \in Nat /\ Shipping \in Nat
      /\ q.code \in BOOLEAN
  BY <1>1, WorthType DEF QuoteType, ShopAssumption
<1>3. off \in Nat /\ off <= worth /\ off <= q.own
  BY <1>2, MinOfTwo
<1>4. r = [status |-> "pending", items |-> q.items, price |-> c_price, tax |-> q.tax, off |-> off,
           total |-> worth - off + Shipping + q.tax, own |-> q.own, code |-> FALSE]
  BY DEF Cart!NewRow
<1>5. worth = Cart!Worth(q.items, c_price, Variants) /\ off = Cart!Min({q.own, worth})
  OBVIOUS
<1> HIDE DEF worth, off, r
<1>6. worth - off + Shipping + q.tax \in Nat
  BY <1>2, <1>3
<1>7. r \in RowType
  BY <1>1, <1>2, <1>3, <1>4, <1>6 DEF RowType
<1>8. r.status = "pending" /\ r.items = q.items /\ r.price = c_price /\ r.tax = q.tax /\ r.off = off
      /\ r.total = worth - off + Shipping + q.tax /\ r.own = q.own /\ r.code = FALSE
  BY <1>4
<1>9. r.total + r.off = worth + Shipping + q.tax
  BY <1>2, <1>3, <1>8
<1>10. Figures(r)
  BY <1>5, <1>8, <1>9 DEF Figures, Due
<1>11. Matches(r, q)
  BY <1>8 DEF Matches
<1>12. Quoted(q, c_price) => Allowed(q.items, c_price, q.own)
  <2>1. CASE q.code
    <3>1. Allowed(q.items, c_price, 0)
      BY <1>1, EligibleType, CeilingType DEF Allowed, Fits
    <3> QED
      BY <2>1, <3>1 DEF Quoted
  <2>2. CASE ~q.code
    BY <2>2 DEF Quoted
  <2> QED
    BY <2>1, <2>2
<1>13. Quoted(q, c_price) => Allowed(q.items, c_price, off)
  BY <1>1, <1>2, <1>3, <1>12, AllowedLess
<1> QED
  BY <1>7, <1>8, <1>10, <1>11, <1>13 DEF Lawful, r

-----------------------------------------------------------------------------
(* What one step does to the calls and to the orders                       *)

Steps == {"idle", "save", "find", "rebuild", "insert", "spend", "read", "write", "answer"}

\* Call t has become c, and the other calls are untouched.
Becomes(t, c) ==
  c_call' \in [Tabs -> CheckType] /\ c_call'[t] = c /\ \A u \in Tabs \ {t} : c_call'[u] = c_call[u]
     
LEMMA Sets ==
  ASSUME Typed, NEW t \in Tabs, NEW c \in CheckType, c_call' = [c_call EXCEPT ![t] = c]
  PROVE  Becomes(t, c)
  BY DEF Typed, Becomes

LEMMA Goes ==
  ASSUME Typed, NEW t \in Tabs, NEW pc \in Steps, Cart!Goto(t, pc)
  PROVE  Becomes(t, [c_call[t] EXCEPT !.pc = pc])
<1>1. [c_call[t] EXCEPT !.pc = pc] \in CheckType
  BY DEF Typed, CheckType, Steps
<1>2. c_call' = [c_call EXCEPT ![t] = [c_call[t] EXCEPT !.pc = pc]]
  BY DEF Typed, CheckType, Cart!Goto
<1> QED
  BY <1>1, <1>2, Sets

LEMMA Takes ==
  ASSUME Typed, NEW t \in Tabs, NEW pc \in Steps, NEW o \in Orders \cup {NoOrder}, Cart!With(t, pc, o)
  PROVE  Becomes(t, [c_call[t] EXCEPT !.pc = pc, !.order = o])
<1>1. [c_call[t] EXCEPT !.pc = pc, !.order = o] \in CheckType
  BY DEF Typed, CheckType, Steps
<1>2. c_call' = [c_call EXCEPT ![t] = [c_call[t] EXCEPT !.pc = pc, !.order = o]]
  BY DEF Typed, CheckType, Cart!With
<1> QED
  BY <1>1, <1>2, Sets

LEMMA IdleType == Cart!Idle \in CheckType
  BY DEF Cart!Idle, CheckType, Cart!NoQuote, QuoteType, Cart!NoRead, Docs, Cart!Empty

LEMMA Ends ==
  ASSUME Typed, NEW t \in Tabs, Cart!Done(t)
  PROVE  Becomes(t, Cart!Idle)
  BY Sets, IdleType DEF Cart!Done

\* A step of call t that leaves the rest alone keeps the invariant if call t does.
LEMMA CallOnly ==
  ASSUME Inv, NEW t \in Tabs, NEW c \in CheckType, Becomes(t, c), c_cart' \in Docs,
         UNCHANGED <<c_price, c_taxPct, c_order, c_keyed, c_calm>>,
         ReadRight(c),
         c_calm /\ c.pc \notin {"idle", "save"} => Cart!Checking(t) /\ c.shown = c_call[t].shown,
         c_calm => /\ c.pc = "insert" => c_keyed = NoOrder
                   /\ c.pc = "rebuild" => c_keyed = c.order
                   /\ Charges(c)
  PROVE  Inv'
<1>1. \A u \in Tabs : c_call'[u] = IF u = t THEN c ELSE c_call[u]
  BY DEF Becomes
<1>2. Typed'
  BY DEF Inv, Typed, Becomes
<1>3. Sound'
  <2>1. ASSUME NEW u \in Tabs PROVE ReadRight(c_call[u])'
    BY <1>1 DEF Inv, Sound, ReadRight
  <2> QED
    BY <2>1 DEF Inv, Sound
<1>4. ASSUME c_calm PROVE Undisturbed'
  <2>1. Undisturbed
    BY <1>4 DEF Inv
  <2>2. ASSUME NEW u \in Tabs, Cart!Checking(u)'
        PROVE  Cart!Checking(u) /\ c_call'[u].shown = c_call[u].shown
    BY <1>1, <1>4, <2>2 DEF Cart!Checking
  <2>3. Alone'
    BY <2>1, <2>2 DEF Undisturbed, Alone
  <2>4. Shows'
    <3>1. ASSUME NEW u \in Tabs, Cart!Checking(u)' PROVE Quoted(c_call'[u].shown, c_price')
      BY <2>1, <2>2, <3>1 DEF Undisturbed, Shows
    <3> QED
      BY <3>1 DEF Shows
  <2>5. Keys'
    BY <1>1, <1>4, <2>1 DEF Undisturbed, Keys, Cart!At
  <2>6. ASSUME NEW u \in Tabs PROVE Charges(c_call[u])'
    BY <1>1, <1>4, <2>1 DEF Undisturbed, Charges, Matches
  <2> QED
    BY <2>1, <2>3, <2>4, <2>5, <2>6 DEF Undisturbed, Current
<1> QED
  BY <1>2, <1>3, <1>4 DEF Inv

\* While nothing disturbs the checkouts, the other calls are not checking out.
LEMMA OthersRest ==
  ASSUME Inv, c_calm, NEW t \in Tabs, Cart!Checking(t), NEW u \in Tabs, u # t
  PROVE  c_call[u].pc \in {"idle", "save"}
  BY DEF Inv, Undisturbed, Alone, Cart!Checking

\* A step of call t that changes the one order it has.
LEMMA OrderOnly ==
  ASSUME ShopAssumption, Inv, NEW t \in Tabs, NEW c \in CheckType,
         Becomes(t, c), Cart!Checking(t), c.shown = c_call[t].shown,
         UNCHANGED <<c_price, c_taxPct, c_cart, c_calm>>, c_keyed' \in Orders \cup {NoOrder},
         NEW o \in Orders, NEW r \in RowType, c_order' = [c_order EXCEPT ![o] = r],
         r.status # "none", Figures(r), c_order[o].status # "none" => Due(r) = Due(c_order[o]),
         c_keyed' \in {c_keyed, o, NoOrder}, c.order \in {o, NoOrder},
         c.pc \in {"insert", "spend", "answer"},
         c.pc = "insert" <=> c.order = NoOrder, c.won => c.pc = "answer",
         c_calm => /\ c.pc = "insert" => c_keyed' = NoOrder
                   /\ r.status = "pending" => Matches(r, c.shown)
                   /\ c.pc = "answer" /\ c.won /\ r.status = "pending" => r.code
                   /\ Lawful(r)
  PROVE  Inv'
<1>1. \A u \in Tabs : c_call'[u] = IF u = t THEN c ELSE c_call[u]
  BY DEF Becomes
<1>2. \A x \in Orders : c_order'[x] = IF x = o THEN r ELSE c_order[x]
  BY DEF Inv, Typed
<1>3. c_order' \in [Orders -> RowType]
  BY DEF Inv, Typed
<1>4. Typed'
  BY <1>3 DEF Inv, Typed, Becomes
<1>5. Sound'
  <2>1. ASSUME NEW x \in Orders PROVE Figures(c_order'[x])
    BY <1>2 DEF Inv, Sound
  <2>2. ReadRight(c)'
    BY <1>2 DEF ReadRight, Handed
  <2>3. ASSUME NEW u \in Tabs, u # t PROVE ReadRight(c_call[u])'
    <3>1. ReadRight(c_call[u]) /\ c_call'[u] = c_call[u]
      BY <1>1, <2>3 DEF Inv, Sound
    <3>2. c_call[u].pc \in Handed => Due(c_order'[c_call[u].order]) = Due(c_order[c_call[u].order])
                                   /\ c_order'[c_call[u].order].status # "none"
      BY <1>2, <3>1 DEF ReadRight
    <3> QED
      BY <3>1, <3>2 DEF ReadRight, Handed
  <2>4. c_keyed' \in Orders => c_order'[c_keyed'].status # "none"
    BY <1>2 DEF Inv, Sound, ShopAssumption
  <2>5. ASSUME NEW u \in Tabs PROVE ReadRight(c_call[u])'
    BY <1>1, <2>2, <2>3
  <2> QED
    BY <2>1, <2>4, <2>5 DEF Sound
<1>6. ASSUME c_calm PROVE Undisturbed'
  <2>1. Undisturbed
    BY <1>6 DEF Inv
  <2>2. ASSUME NEW u \in Tabs, u # t PROVE c_call'[u] = c_call[u] /\ c_call[u].pc \in {"idle", "save"}
    BY <1>1, <1>6, <2>2, OthersRest
  <2>3. Alone'
    BY <2>2 DEF Alone, Cart!Checking
  <2>4. Current'
    BY <1>2, <1>6, <2>1 DEF Undisturbed, Current, Matches
  <2>5. Shows'
    <3>1. ASSUME NEW u \in Tabs, Cart!Checking(u)' PROVE Quoted(c_call'[u].shown, c_price')
      <4>1. u = t
        BY <2>2, <3>1 DEF Cart!Checking
      <4> QED
        BY <1>1, <2>1, <4>1 DEF Undisturbed, Shows
    <3> QED
      BY <3>1 DEF Shows
  <2>6. Keys'
    <3>1. ASSUME NEW u \in Tabs
          PROVE  (c_call'[u].pc = "insert" => c_keyed' = NoOrder) /\ c_call'[u].pc # "rebuild"
      BY <1>1, <1>6, <2>2
    <3> QED
      BY <3>1 DEF Keys, Cart!At
  <2>7. ASSUME NEW u \in Tabs PROVE Charges(c_call[u])'
    <3>1. Charges(c)'
      BY <1>2, <1>6 DEF Charges, Matches
    <3> QED
      BY <1>1, <2>2, <3>1 DEF Charges
  <2>8. ASSUME NEW x \in Orders PROVE Lawful(c_order'[x])
    BY <1>2, <1>6, <2>1 DEF Undisturbed
  <2> QED
    BY <2>3, <2>4, <2>5, <2>6, <2>7, <2>8 DEF Undisturbed
<1> QED
  BY <1>4, <1>5, <1>6 DEF Inv

-----------------------------------------------------------------------------
(* The actions                                                             *)

LEMMA DocsAreClosed ==
  ASSUME Typed
  PROVE  Cart!Edits(c_cart) \subseteq Docs /\ Cart!Cleared \in Docs
  BY DEF Typed, Docs, Cart!Edits, Cart!Cleared, Cart!OwnPrice

LEMMA LoadStep ==
  ASSUME Inv, NEW t \in Tabs, Cart!Load(t)
  PROVE  Inv'
<1>1. PICK doc \in Cart!Edits(c_cart) : c_call' = [c_call EXCEPT ![t].pc = "save", ![t].doc = doc]
  BY DEF Cart!Load
<1> DEFINE c == [c_call[t] EXCEPT !.pc = "save", !.doc = doc]
<1>2. Typed /\ doc \in Docs
  BY DocsAreClosed DEF Inv
<1>3. c \in CheckType
  BY <1>2 DEF Typed, CheckType
<1>4. c_call' = [c_call EXCEPT ![t] = c]
  BY <1>1, <1>2 DEF Typed, CheckType
<1>5. c.pc = "save"
  BY <1>2 DEF Typed, CheckType
<1> HIDE DEF c
<1>6. Becomes(t, c)
  BY <1>2, <1>3, <1>4, Sets
<1>7. ReadRight(c) /\ Charges(c)
  <2>1. ReadRight(c_call[t]) /\ c_call[t].pc = "idle" /\ c.won = c_call[t].won
    BY <1>2 DEF c, Inv, Sound, Cart!Load, Cart!At, Typed, CheckType
  <2> QED
    BY <1>5, <2>1 DEF ReadRight, Charges, Handed
<1>8. c_cart' \in Docs
  BY <1>2 DEF Cart!Load, Typed
<1> QED
  BY <1>3, <1>5, <1>6, <1>7, <1>8, CallOnly DEF Cart!Load

LEMMA IdleRests == Cart!Idle.pc = "idle" /\ ReadRight(Cart!Idle) /\ Charges(Cart!Idle)
  BY DEF Cart!Idle, ReadRight, Charges, Handed

\* A call that ends, whatever it has written in the cart.
LEMMA EndStep ==
  ASSUME Inv, NEW t \in Tabs, Cart!Done(t), c_cart' \in Docs,
         UNCHANGED <<c_price, c_taxPct, c_order, c_keyed, c_calm>>
  PROVE  Inv'
<1>1. Becomes(t, Cart!Idle)
  BY Ends DEF Inv
<1> QED
  BY <1>1, IdleType, IdleRests, CallOnly

LEMMA SaveStep ==
  ASSUME Inv, NEW t \in Tabs, Cart!Save(t)
  PROVE  Inv'
  BY EndStep DEF Cart!Save, Inv, Typed, CheckType

LEMMA BeginStep ==
  ASSUME ShopAssumption, Inv, NEW t \in Tabs, NEW member \in BOOLEAN, Cart!Begin(t, member)
  PROVE  Inv'
<1> DEFINE q == Cart!Shown(c_cart, c_price, member)
           c == [Cart!Idle EXCEPT !.pc = "find", !.shown = q]
<1>1. Typed
  BY DEF Inv
<1>2. q \in QuoteType /\ Quoted(q, c_price)
  BY <1>1, CartIsPriced DEF Typed
<1>3. c_call' = [c_call EXCEPT ![t] = c]
  BY DEF Cart!Begin
<1> HIDE DEF q
<1>4. c \in CheckType /\ c.pc = "find" /\ c.shown = q /\ ~c.won
  BY <1>2, IdleType DEF CheckType, Cart!Idle
<1> HIDE DEF c
<1>5. Becomes(t, c)
  BY <1>1, <1>3, <1>4, Sets
<1>6. \A u \in Tabs : c_call'[u] = IF u = t THEN c ELSE c_call[u]
  BY <1>5 DEF Becomes
<1>7. Typed'
  BY <1>1, <1>5 DEF Typed, Becomes, Cart!Begin
<1>8. Sound'
  <2>1. ASSUME NEW u \in Tabs PROVE ReadRight(c_call[u])'
    BY <1>4, <1>6 DEF Inv, Sound, ReadRight, Cart!Begin, Handed
  <2> QED
    BY <2>1 DEF Inv, Sound, Cart!Begin
<1>9. ASSUME c_calm' PROVE Undisturbed'
  <2>1. c_calm /\ Undisturbed /\ \A u \in Tabs : ~Cart!Checking(u)
    BY <1>1, <1>9 DEF Inv, Cart!Begin, Typed
  <2>2. UNCHANGED <<c_price, c_order, c_keyed>>
    BY DEF Cart!Begin
  <2>3. ASSUME NEW u \in Tabs, u # t PROVE c_call'[u] = c_call[u] /\ c_call[u].pc \in {"idle", "save"}
    BY <1>6, <2>1, <2>3 DEF Cart!Checking
  <2>4. Alone'
    BY <2>3 DEF Alone, Cart!Checking
  <2>5. Shows'
    <3>1. ASSUME NEW u \in Tabs, Cart!Checking(u)' PROVE Quoted(c_call'[u].shown, c_price')
      <4>1. u = t
        BY <2>3, <3>1 DEF Cart!Checking
      <4> QED
        BY <1>2, <1>4, <1>6, <2>2, <4>1
    <3> QED
      BY <3>1 DEF Shows
  <2>6. ASSUME NEW u \in Tabs PROVE c_call'[u].pc \in {"idle", "save", "find"}
    BY <1>4, <1>6, <2>3
  <2>7. Keys' /\ \A u \in Tabs : Charges(c_call[u])'
    BY <2>6 DEF Keys, Cart!At, Charges
  <2> QED
    BY <2>1, <2>2, <2>4, <2>5, <2>7 DEF Undisturbed, Current
<1> QED
  BY <1>7, <1>8, <1>9 DEF Inv

LEMMA FindStep ==
  ASSUME ShopAssumption, Inv, NEW t \in Tabs, Cart!Find(t)
  PROVE  Inv'
<1> DEFINE kept == \/ c_order[c_keyed].status # "pending"
                   \/ Cart!SameLineup(c_order[c_keyed], c_call[t].shown)
<1>1. Typed /\ c_call[t] \in CheckType /\ c_call[t].pc = "find" /\ Cart!Checking(t)
  BY DEF Inv, Typed, Cart!Find, Cart!At, Cart!Checking
<1>2. c_cart' \in Docs /\ UNCHANGED <<c_price, c_taxPct, c_order, c_keyed, c_calm>>
  BY DEF Inv, Typed, Cart!Find
<1>3. ~c_call[t].won
  BY <1>1 DEF Inv, Sound, ReadRight
<1>4. CASE c_keyed = NoOrder
  <2> DEFINE c == [c_call[t] EXCEPT !.pc = "insert"]
  <2>1. Becomes(t, c)
    BY <1>1, <1>4, Goes DEF Cart!Find, Steps
  <2>2. c \in CheckType /\ c.pc = "insert" /\ c.won = c_call[t].won /\ c.shown = c_call[t].shown
    BY <1>1 DEF CheckType
  <2> HIDE DEF c
  <2>3. ReadRight(c) /\ Charges(c)
    BY <1>3, <2>2 DEF ReadRight, Charges, Handed
  <2> QED
    BY <1>1, <1>2, <1>4, <2>1, <2>2, <2>3, CallOnly
<1>5. CASE c_keyed # NoOrder /\ kept
  <2> DEFINE c == [c_call[t] EXCEPT !.pc = "spend", !.order = c_keyed]
  <2>1. c_keyed \in Orders /\ Cart!With(t, "spend", c_keyed)
    BY <1>1, <1>5 DEF Cart!Find, Typed
  <2>2. Becomes(t, c)
    BY <1>1, <2>1, Takes DEF Steps
  <2>3. c \in CheckType /\ c.pc = "spend" /\ c.order = c_keyed /\ c.won = c_call[t].won /\ c.shown = c_call[t].shown
    BY <1>1, <2>1 DEF CheckType
  <2> HIDE DEF c
  <2>4. ReadRight(c)
    BY <1>3, <2>1, <2>3 DEF ReadRight, Inv, Sound
  <2>5. c_calm => Charges(c)
    BY <1>5, <2>1, <2>3 DEF Charges, Matches, Cart!SameLineup, Inv, Undisturbed, Current
  <2> QED
    BY <1>1, <1>2, <2>2, <2>3, <2>4, <2>5, CallOnly
<1>6. CASE c_keyed # NoOrder /\ ~kept
  <2> DEFINE c == [c_call[t] EXCEPT !.pc = "rebuild", !.order = c_keyed]
  <2>1. c_keyed \in Orders /\ Cart!With(t, "rebuild", c_keyed)
    BY <1>1, <1>6 DEF Cart!Find, Typed
  <2>2. Becomes(t, c)
    BY <1>1, <2>1, Takes DEF Steps
  <2>3. c \in CheckType /\ c.pc = "rebuild" /\ c.order = c_keyed /\ c.won = c_call[t].won /\ c.shown = c_call[t].shown
    BY <1>1, <2>1 DEF CheckType
  <2> HIDE DEF c
  <2>4. ReadRight(c) /\ Charges(c)
    BY <1>3, <2>1, <2>3 DEF ReadRight, Charges, Inv, Sound
  <2> QED
    BY <1>1, <1>2, <2>2, <2>3, <2>4, CallOnly
<1> QED
  BY <1>4, <1>5, <1>6

LEMMA RebuildStep ==
  ASSUME ShopAssumption, Inv, NEW t \in Tabs, Cart!Rebuild(t)
  PROVE  Inv'
<1> DEFINE o == c_call[t].order
<1>1. Typed /\ c_call[t] \in CheckType /\ c_call[t].pc = "rebuild" /\ Cart!Checking(t)
  BY DEF Inv, Typed, Cart!Rebuild, Cart!At, Cart!Checking
<1>2. c_cart' \in Docs /\ UNCHANGED <<c_price, c_taxPct, c_cart, c_calm>>
  BY DEF Inv, Typed, Cart!Rebuild
<1>3. ~c_call[t].won
  BY <1>1 DEF Inv, Sound, ReadRight
<1>4. o \in Orders /\ c_order[o].status # "none"
  BY <1>1 DEF Inv, Sound, ReadRight, Handed
<1> HIDE DEF o
<1>5. CASE c_order[o].status = "paid"
  <2> DEFINE c == [c_call[t] EXCEPT !.pc = "spend"]
  <2>1. Becomes(t, c) /\ UNCHANGED <<c_order, c_keyed>>
    BY <1>1, <1>5, Goes DEF Cart!Rebuild, Steps, o
  <2>2. c \in CheckType /\ c.pc = "spend" /\ c.won = c_call[t].won /\ c.shown = c_call[t].shown /\ c.order = o
    BY <1>1 DEF CheckType, o
  <2> HIDE DEF c
  <2>3. ReadRight(c) /\ Charges(c)
    BY <1>4, <1>5, <1>3, <2>2 DEF ReadRight, Charges
  <2> QED
    BY <1>1, <1>2, <2>1, <2>2, <2>3, CallOnly
<1>6. CASE c_order[o].status # "paid"
  <2> DEFINE c == [c_call[t] EXCEPT !.pc = "insert", !.order = NoOrder]
             r == [c_order[o] EXCEPT !.status = "failed"]
  <2>1. /\ c_order' = [c_order EXCEPT ![o].status = "failed"]
        /\ c_keyed' = IF c_keyed = o THEN NoOrder ELSE c_keyed
        /\ Cart!With(t, "insert", NoOrder)
    BY <1>6 DEF Cart!Rebuild, o
  <2>2. Becomes(t, c)
    BY <1>1, <2>1, Takes DEF Steps
  <2>3. c \in CheckType /\ c.pc = "insert" /\ c.won = c_call[t].won /\ c.shown = c_call[t].shown /\ c.order = NoOrder
    BY <1>1 DEF CheckType
  <2>4. c_order[o] \in RowType /\ c_order' = [c_order EXCEPT ![o] = r]
    BY <1>1, <1>4, <2>1 DEF Typed
  <2>5. /\ r \in RowType /\ r.status = "failed"
        /\ r.items = c_order[o].items /\ r.price = c_order[o].price
        /\ r.tax = c_order[o].tax /\ r.off = c_order[o].off /\ r.total = c_order[o].total
        /\ r.own = c_order[o].own /\ r.code = c_order[o].code
    BY <2>4 DEF RowType
  <2> HIDE DEF c, r
  <2>6. Due(r) = Due(c_order[o])
    BY <2>5 DEF Due
  <2>7. Figures(r)
    <3>1. Figures(c_order[o])
      BY <1>4 DEF Inv, Sound
    <3> QED
      BY <1>4, <2>5, <2>6, <3>1 DEF Figures
  <2>8. c_calm => Lawful(r)
    <3>1. c_calm => Lawful(c_order[o])
      BY <1>4 DEF Inv, Undisturbed
    <3> QED
      BY <1>4, <2>5, <3>1 DEF Lawful
  <2>9. c_keyed' \in {c_keyed, o, NoOrder} /\ c_keyed' \in Orders \cup {NoOrder}
    BY <1>1, <2>1 DEF Typed
  <2>10. c_calm => c_keyed' = NoOrder
    BY <1>1, <2>1 DEF Inv, Undisturbed, Keys, Cart!At, o
  <2> QED
    BY <1>1, <1>2, <1>3, <1>4, <2>2, <2>3, <2>4, <2>5, <2>6, <2>7, <2>8, <2>9, <2>10, OrderOnly
<1> QED
  BY <1>5, <1>6

LEMMA InsertStep ==
  ASSUME ShopAssumption, Inv, NEW t \in Tabs, Cart!Insert(t)
  PROVE  Inv'
<1>1. Typed /\ c_call[t] \in CheckType /\ c_call[t].pc = "insert" /\ Cart!Checking(t)
  BY DEF Inv, Typed, Cart!Insert, Cart!At, Cart!Checking
<1>2. c_cart' \in Docs /\ UNCHANGED <<c_price, c_taxPct, c_cart, c_calm>>
  BY DEF Inv, Typed, Cart!Insert
<1>3. ~c_call[t].won
  BY <1>1 DEF Inv, Sound, ReadRight
<1>4. CASE c_keyed # NoOrder
  <2> DEFINE c == [c_call[t] EXCEPT !.pc = "spend", !.order = c_keyed]
  <2>1. c_keyed \in Orders /\ Cart!With(t, "spend", c_keyed) /\ UNCHANGED <<c_order, c_keyed>>
    BY <1>1, <1>4 DEF Cart!Insert, Typed
  <2>2. Becomes(t, c)
    BY <1>1, <2>1, Takes DEF Steps
  <2>3. c \in CheckType /\ c.pc = "spend" /\ c.order = c_keyed /\ c.won = c_call[t].won /\ c.shown = c_call[t].shown
    BY <1>1, <2>1 DEF CheckType
  <2> HIDE DEF c
  <2>4. ReadRight(c)
    BY <1>3, <2>1, <2>3 DEF ReadRight, Inv, Sound
  <2>5. ~c_calm
    BY <1>1, <1>4 DEF Inv, Undisturbed, Keys, Cart!At
  <2> QED
    BY <1>2, <2>1, <2>2, <2>3, <2>4, <2>5, CallOnly
<1>5. CASE c_keyed = NoOrder
  <2> DEFINE r == Cart!NewRow(c_call[t].shown)
  <2>1. PICK o \in Orders : /\ c_order[o].status = "none" /\ c_order' = [c_order EXCEPT ![o] = r]
                            /\ c_keyed' = o /\ Cart!With(t, "spend", o)
    BY <1>5 DEF Cart!Insert
  <2>2. c_price \in Prices /\ c_call[t].shown \in QuoteType
    BY <1>1 DEF Typed, CheckType
  <2>3. r \in RowType /\ Figures(r) /\ r.status = "pending" /\ Matches(r, c_call[t].shown)
        /\ (Quoted(c_call[t].shown, c_price) => Lawful(r))
    BY <2>2, RowMade
  <2> DEFINE c == [c_call[t] EXCEPT !.pc = "spend", !.order = o]
  <2> HIDE DEF r
  <2>4. Becomes(t, c)
    BY <1>1, <2>1, Takes DEF Steps
  <2>5. c \in CheckType /\ c.pc = "spend" /\ c.order = o /\ c.won = c_call[t].won /\ c.shown = c_call[t].shown /\ o # NoOrder
    BY <1>1, <2>1 DEF CheckType, ShopAssumption
  <2> HIDE DEF c
  <2>6. c_calm => Quoted(c_call[t].shown, c_price)
    BY <1>1 DEF Inv, Undisturbed, Shows
  <2> QED
    BY <1>1, <1>2, <1>3, <2>1, <2>3, <2>4, <2>5, <2>6, OrderOnly
<1> QED
  BY <1>4, <1>5

LEMMA SpendStep ==
  ASSUME Inv, NEW t \in Tabs, Cart!Spend(t)
  PROVE  Inv'
<1>1. Typed /\ c_call[t] \in CheckType /\ c_call[t].pc = "spend" /\ Cart!Checking(t)
  BY DEF Inv, Typed, Cart!Spend, Cart!At, Cart!Checking
<1>2. c_cart' \in Docs /\ UNCHANGED <<c_price, c_taxPct, c_order, c_keyed, c_calm>>
  BY DEF Inv, Typed, Cart!Spend
<1>3. ReadRight(c_call[t]) /\ (c_calm => Charges(c_call[t]))
  BY DEF Inv, Sound, Undisturbed
<1>4. CASE /\ c_call[t].shown.code
           /\ c_call' = [c_call EXCEPT ![t].pc = "read", ![t].won = TRUE]
  <2> DEFINE c == [c_call[t] EXCEPT !.pc = "read", !.won = TRUE]
  <2>1. /\ c \in CheckType /\ c.pc = "read" /\ c.order = c_call[t].order
        /\ c.shown = c_call[t].shown /\ c.won
    BY <1>1 DEF CheckType
  <2>2. c_call' = [c_call EXCEPT ![t] = c]
    BY <1>1, <1>4 DEF Typed, CheckType
  <2> HIDE DEF c
  <2>3. Becomes(t, c)
    BY <1>1, <2>1, <2>2, Sets
  <2>4. ReadRight(c) /\ (c_calm => Charges(c))
    BY <1>1, <1>3, <1>4, <2>1 DEF ReadRight, Handed, Charges
  <2> QED
    BY <1>1, <1>2, <2>1, <2>3, <2>4, CallOnly
<1>5. CASE Cart!Goto(t, "answer")
  <2> DEFINE c == [c_call[t] EXCEPT !.pc = "answer"]
  <2>1. Becomes(t, c)
    BY <1>1, <1>5, Goes DEF Steps
  <2>2. /\ c \in CheckType /\ c.pc = "answer" /\ c.order = c_call[t].order
        /\ c.shown = c_call[t].shown /\ c.won = c_call[t].won
    BY <1>1 DEF CheckType
  <2> HIDE DEF c
  <2>3. ReadRight(c) /\ (c_calm => Charges(c))
    BY <1>1, <1>3, <2>2 DEF ReadRight, Handed, Charges
  <2> QED
    BY <1>1, <1>2, <2>1, <2>2, <2>3, CallOnly
<1> QED
  BY <1>4, <1>5 DEF Cart!Spend

LEMMA ReadStep ==
  ASSUME Inv, NEW t \in Tabs, Cart!Read(t)
  PROVE  Inv'
<1> DEFINE o == c_call[t].order
           q == c_call[t].shown
<1>1. Typed /\ c_call[t] \in CheckType /\ c_call[t].pc = "read" /\ Cart!Checking(t)
  BY DEF Inv, Typed, Cart!Read, Cart!At, Cart!Checking
<1>2. c_cart' \in Docs /\ UNCHANGED <<c_price, c_taxPct, c_order, c_keyed, c_calm>>
  BY DEF Inv, Typed, Cart!Read
<1>3. /\ o \in Orders /\ c_order[o].status # "none" /\ q.code
      /\ c_calm => Charges(c_call[t])
  BY <1>1 DEF Inv, Sound, ReadRight, Handed, Undisturbed
<1>4. CASE c_order[o].status = "pending"
  <2> DEFINE c == [c_call[t] EXCEPT !.pc = "write",
                                    !.read = [total |-> c_order[o].total, off |-> c_order[o].off]]
  <2>1. c_order[o] \in RowType /\ Figures(c_order[o])
    BY <1>1, <1>3 DEF Typed, Inv, Sound
  <2>2. [total |-> c_order[o].total, off |-> c_order[o].off] \in [total : Nat, off : Nat]
    BY <2>1 DEF RowType
  <2>3. /\ c \in CheckType /\ c.pc = "write" /\ c.order = o /\ c.shown = q
        /\ c.read.total = c_order[o].total /\ c.read.off = c_order[o].off
    BY <1>1, <2>2 DEF CheckType
  <2>4. c_call' = [c_call EXCEPT ![t] = c]
    BY <1>1, <1>4 DEF Typed, CheckType, Cart!Read
  <2> HIDE DEF c, o, q
  <2>5. Becomes(t, c)
    BY <1>1, <2>3, <2>4, Sets
  <2>6. ReadRight(c)
    BY <1>3, <2>1, <2>3 DEF ReadRight, Figures
  <2>7. c_calm => Charges(c)
    BY <1>1, <1>3, <1>4, <2>3 DEF Charges, o, q
  <2> QED
    BY <1>1, <1>2, <2>3, <2>5, <2>6, <2>7, CallOnly DEF q
<1>5. CASE c_order[o].status # "pending"
  BY <1>2, <1>5, EndStep DEF Cart!Read
<1> QED
  BY <1>4, <1>5

\* The discount that is written is the code's, as the cart showed it, of an order that is
\* its basket at its prices: it is allowed, and all of it is taken.
LEMMA WriteStep ==
  ASSUME ShopAssumption, Inv, NEW t \in Tabs, Cart!Write(t)
  PROVE  Inv'
<1> DEFINE o == c_call[t].order
           q == c_call[t].shown
           base == c_call[t].read.total + c_call[t].read.off
           off == Cart!Min({q.off, base})
           r == [c_order[o] EXCEPT !.off = off, !.total = base - off, !.code = TRUE]
           c == [c_call[t] EXCEPT !.pc = "answer"]
<1>1. Typed /\ c_call[t] \in CheckType /\ c_call[t].pc = "write" /\ Cart!Checking(t)
  BY DEF Inv, Typed, Cart!Write, Cart!At, Cart!Checking
<1>2. /\ UNCHANGED <<c_price, c_taxPct, c_cart, c_calm>>
      /\ c_keyed' \in Orders \cup {NoOrder} /\ c_keyed' = c_keyed
  BY DEF Inv, Typed, Cart!Write
<1>3. o \in Orders /\ c_order[o].status # "none" /\ base = Due(c_order[o])
  BY <1>1 DEF Inv, Sound, ReadRight, Handed
<1>4. c_order[o] \in RowType /\ q \in QuoteType /\ q.off \in Nat /\ base \in Nat
  BY <1>1, <1>3 DEF Typed, CheckType, QuoteType
<1>5. Becomes(t, c)
  BY <1>1, Goes DEF Cart!Write, Steps
<1>6. c \in CheckType /\ c.pc = "answer" /\ c.order = o /\ c.shown = q
  BY <1>1 DEF CheckType
<1>7. c_order' = [c_order EXCEPT ![o] = r]
  BY <1>1, <1>3 DEF Typed, RowType, Cart!Write
<1>8. off = Cart!Min({q.off, base})
  OBVIOUS
<1>9. r = [c_order[o] EXCEPT !.off = off, !.total = base - off, !.code = TRUE]
  OBVIOUS
<1>10. c_calm => Charges(c_call[t]) /\ Quoted(q, c_price)
  BY <1>1 DEF Inv, Undisturbed, Shows
<1>11. c_call[t].order = o /\ c_call[t].shown = q
  OBVIOUS
<1> HIDE DEF o, q, base, off, r, c
<1>12. off \in Nat /\ off <= q.off /\ off <= base
  BY <1>4, <1>8, MinOfTwo
<1>13. /\ r \in RowType /\ r.status = c_order[o].status /\ r.items = c_order[o].items
       /\ r.price = c_order[o].price /\ r.tax = c_order[o].tax /\ r.off = off /\ r.total = base - off
       /\ r.own = c_order[o].own /\ r.code = TRUE
  <2>1. base - off \in Nat
    BY <1>4, <1>12
  <2> QED
    BY <1>4, <1>9, <1>12, <2>1 DEF RowType
<1>14. Due(r) = Due(c_order[o])
  BY <1>13 DEF Due
<1>15. Figures(r)
  <2>1. r.total + r.off = base
    BY <1>4, <1>12, <1>13
  <2> QED
    BY <1>3, <1>13, <1>14, <2>1 DEF Figures
<1>16. ASSUME c_calm
       PROVE  Matches(r, q) /\ Lawful(r)
  <2>1. c_order[o].items = q.items /\ c_order[o].tax = q.tax /\ c_order[o].price = c_price
    BY <1>1, <1>10, <1>11, <1>16 DEF Charges, Matches
  <2>2. q.items \in Amounts /\ c_price \in Amounts
    BY <1>1, <1>4, AmountsOf DEF QuoteType, Typed
  <2>3. Allowed(q.items, c_price, off)
    BY <1>4, <1>10, <1>12, <1>16, <2>2, AllowedLess DEF Quoted
  <2>4. Cart!Worth(q.items, c_price, Variants) \in Nat /\ Shipping \in Nat /\ q.tax \in Nat
    BY <1>4, <2>2, WorthType DEF ShopAssumption, QuoteType
  <2>5. base = Cart!Worth(q.items, c_price, Variants) + Shipping + q.tax
    BY <1>3, <2>1 DEF Due
  <2>6. off = CodeOff(q.items, c_price)
    <3>1. /\ q.off <= Cart!Worth(q.items, c_price, Variants)
          /\ q.off = CodeOff(q.items, c_price)
      BY <1>1, <1>10, <1>11, <1>16 DEF Quoted, Inv, Sound, ReadRight
    <3> QED
      BY <1>4, <1>8, <2>4, <2>5, <3>1, MinOfTwo
  <2> QED
    BY <1>13, <2>1, <2>3, <2>6 DEF Matches, Lawful
<1>17. c.order \in {o, NoOrder} /\ c.order # NoOrder /\ c_keyed' \in {c_keyed, o, NoOrder}
  BY <1>2, <1>3, <1>6 DEF ShopAssumption
<1>18. r.status # "none" /\ (c_order[o].status # "none" => Due(r) = Due(c_order[o]))
  BY <1>3, <1>13, <1>14
<1>19. c_calm => /\ r.status = "pending" => Matches(r, c.shown)
                 /\ r.code
                 /\ Lawful(r)
  BY <1>6, <1>13, <1>16
<1> QED
  BY <1>1, <1>2, <1>3, <1>5, <1>6, <1>7, <1>11, <1>13, <1>15, <1>17, <1>18, <1>19, OrderOnly

LEMMA AnswerStep ==
  ASSUME Inv, NEW t \in Tabs, Cart!Answer(t) \/ Cart!Die(t)
  PROVE  Inv'
  BY EndStep DEF Cart!Answer, Cart!Die, Inv, Typed

\* An open order that is settled or failed: what it costs is what it cost.
LEMMA CloseStep ==
  ASSUME Inv, NEW o \in Orders, NEW s \in {"paid", "failed"}, c_order[o].status = "pending",
         c_order' = [c_order EXCEPT ![o].status = s], c_cart' \in Docs,
         UNCHANGED <<c_price, c_taxPct, c_keyed, c_call, c_calm>>
  PROVE  Inv'
<1> DEFINE r == [c_order[o] EXCEPT !.status = s]
<1>1. Typed /\ c_order[o] \in RowType
  BY DEF Inv, Typed
<1>2. /\ r \in RowType /\ r.status = s /\ r.items = c_order[o].items /\ r.price = c_order[o].price
      /\ r.tax = c_order[o].tax /\ r.off = c_order[o].off /\ r.total = c_order[o].total
      /\ r.own = c_order[o].own /\ r.code = c_order[o].code
  BY <1>1 DEF RowType
<1>3. c_order' = [c_order EXCEPT ![o] = r]
  BY <1>1 DEF Typed
<1> HIDE DEF r
<1>4. /\ c_order' \in [Orders -> RowType]
      /\ \A x \in Orders : c_order'[x] = IF x = o THEN r ELSE c_order[x]
  BY <1>1, <1>2, <1>3 DEF Typed
<1>5. Due(r) = Due(c_order[o])
  BY <1>2 DEF Due
<1>6. Typed'
  BY <1>1, <1>4 DEF Typed
<1>7. Sound'
  <2>1. ASSUME NEW x \in Orders PROVE Figures(c_order'[x])
    <3>1. Figures(c_order[x]) /\ Figures(c_order[o])
      BY DEF Inv, Sound
    <3>2. Figures(r)
      BY <1>2, <1>5, <3>1 DEF Figures
    <3> QED
      BY <1>4, <3>1, <3>2
  <2>2. ASSUME NEW u \in Tabs PROVE ReadRight(c_call[u])'
    <3>1. ReadRight(c_call[u])
      BY DEF Inv, Sound
    <3> QED
      BY <1>2, <1>4, <1>5, <3>1 DEF ReadRight, Handed
  <2>3. c_keyed' \in Orders => c_order'[c_keyed'].status # "none"
    BY <1>2, <1>4 DEF Inv, Sound
  <2> QED
    BY <2>1, <2>2, <2>3 DEF Sound
<1>8. ASSUME c_calm PROVE Undisturbed'
  <2>1. Undisturbed
    BY <1>8 DEF Inv
  <2>2. Current'
    BY <1>2, <1>4, <2>1 DEF Undisturbed, Current
  <2>3. Alone' /\ Shows' /\ Keys'
    BY <2>1 DEF Undisturbed, Alone, Shows, Keys, Cart!Checking, Cart!At
  <2>4. ASSUME NEW u \in Tabs PROVE Charges(c_call[u])'
    <3>1. Charges(c_call[u]) /\ ReadRight(c_call[u])
      BY <2>1 DEF Undisturbed, Inv, Sound
    <3>2. c_call[u].pc \in Handed => c_call[u].order \in Orders
      BY <3>1 DEF ReadRight
    <3> QED
      BY <1>2, <1>4, <3>1, <3>2 DEF Charges, Matches, Handed
  <2>5. ASSUME NEW x \in Orders PROVE Lawful(c_order'[x])
    <3>1. Lawful(c_order[x]) /\ Lawful(c_order[o])
      BY <2>1 DEF Undisturbed
    <3> QED
      BY <1>2, <1>4, <3>1 DEF Lawful
  <2> QED
    BY <2>2, <2>3, <2>4, <2>5 DEF Undisturbed
<1> QED
  BY <1>6, <1>7, <1>8 DEF Inv

LEMMA PaySweepStep ==
  ASSUME Inv, NEW o \in Orders, Cart!Pay(o) \/ Cart!Sweep(o)
  PROVE  Inv'
<1>1. c_cart \in Docs /\ Cart!Cleared \in Docs
  BY DocsAreClosed DEF Inv, Typed
<1>2. CASE Cart!Pay(o)
  BY <1>1, <1>2, CloseStep DEF Cart!Pay
<1>3. CASE Cart!Sweep(o)
  BY <1>1, <1>3, CloseStep DEF Cart!Sweep
<1> QED
  BY <1>2, <1>3

\* No price moves under a checkout or its open order while they are undisturbed.
LEMMA RepriceStep ==
  ASSUME Inv, Cart!Reprice
  PROVE  Inv'
<1>1. Typed'
  BY DEF Inv, Typed, Cart!Reprice
<1>2. Sound'
  <2>1. ASSUME NEW u \in Tabs PROVE ReadRight(c_call[u])'
    BY DEF Inv, Sound, ReadRight, Cart!Reprice
  <2> QED
    BY <2>1 DEF Inv, Sound, Cart!Reprice
<1>3. ASSUME c_calm' PROVE Undisturbed'
  <2>1. /\ Undisturbed /\ \A u \in Tabs : c_call[u].pc \in {"idle", "save"}
        /\ \A o \in Orders : c_order[o].status # "pending"
    BY <1>3 DEF Inv, Typed, Cart!Reprice, Cart!Checking
  <2>2. UNCHANGED <<c_order, c_keyed, c_call>>
    BY DEF Cart!Reprice
  <2>3. Alone' /\ Shows' /\ Keys' /\ Current'
    BY <2>1, <2>2 DEF Alone, Shows, Keys, Current, Cart!Checking, Cart!At
  <2>4. \A u \in Tabs : Charges(c_call[u])'
    BY <2>1, <2>2 DEF Charges
  <2> QED
    BY <2>1, <2>2, <2>3, <2>4 DEF Undisturbed
<1> QED
  BY <1>1, <1>2, <1>3 DEF Inv

-----------------------------------------------------------------------------
(* The theorems                                                            *)

LEMMA InvInit ==
  ASSUME ShopAssumption, Cart!Init
  PROVE  Inv
<1>1. Cart!NoRow \in RowType /\ Cart!NoRow.status = "none"
  BY DEF Cart!NoRow, RowType
<1>2. \A o \in Orders : c_order[o] = Cart!NoRow
  BY DEF Cart!Init
<1>3. \A t \in Tabs : c_call[t] = Cart!Idle /\ Cart!Idle.pc = "idle"
  BY DEF Cart!Init, Cart!Idle
<1>4. Typed
  BY <1>1, IdleType DEF Cart!Init, Typed, Docs, Cart!Empty
<1>5. Sound
  BY <1>1, <1>2, <1>3, IdleRests DEF Sound, Figures, Cart!Init, ShopAssumption
<1>6. Undisturbed
  <2>1. \A t \in Tabs : c_call[t].pc = "idle" /\ Charges(c_call[t])
    BY <1>3, IdleRests
  <2>2. Alone /\ Shows /\ Keys /\ Current
    BY <1>1, <1>2, <2>1 DEF Alone, Shows, Keys, Current, Cart!Checking, Cart!At
  <2>3. \A o \in Orders : Lawful(c_order[o])
    BY <1>1, <1>2 DEF Lawful
  <2> QED
    BY <2>1, <2>2, <2>3 DEF Undisturbed
<1> QED
  BY <1>4, <1>5, <1>6 DEF Inv

LEMMA InvStep ==
  ASSUME ShopAssumption, Inv, [Cart!Next]_(Cart!vars)
  PROVE  Inv'
<1>1. ASSUME NEW t \in Tabs, Cart!Step(t) PROVE Inv'
  BY <1>1, LoadStep, SaveStep, BeginStep, FindStep, RebuildStep, InsertStep, SpendStep, ReadStep,
     WriteStep, AnswerStep DEF Cart!Step
<1>2. CASE UNCHANGED Cart!vars
  BY <1>2 DEF Cart!vars, Inv, Typed, Sound, Undisturbed, Alone, Current, Shows, Keys, Matches, Charges,
              ReadRight, Cart!Checking, Cart!At
<1> QED
  BY <1>1, <1>2, PaySweepStep, RepriceStep DEF Cart!Next

\* The invariant keeps the types ...
LEMMA InvTypes ==
  ASSUME Inv
  PROVE  Cart!TypeOK
<1>1. Typed
  BY DEF Inv
<1>2. ASSUME NEW o \in Orders
      PROVE  /\ c_order[o].status \in {"none", "pending", "paid", "failed"}
             /\ c_order[o].items \in Baskets \cup {Cart!Nothing}
             /\ c_order[o].price \in Prices \cup {Cart!Nothing}
             /\ {c_order[o].tax, c_order[o].off, c_order[o].total, c_order[o].own} \subseteq Nat
             /\ c_order[o].code \in BOOLEAN
  BY <1>1 DEF Typed, RowType
<1>3. ASSUME NEW t \in Tabs
      PROVE  /\ c_call[t].pc \in Steps /\ c_call[t].doc \in Docs
             /\ c_call[t].order \in Orders \cup {NoOrder} /\ c_call[t].won \in BOOLEAN
  BY <1>1 DEF Typed, CheckType, Steps
<1> QED
  BY <1>1, <1>2, <1>3 DEF Cart!TypeOK, Typed, Docs, Steps

\* ... the figures of every order ...
LEMMA InvPrices ==
  ASSUME ShopAssumption, Inv
  PROVE  Cart!OrderPriced
<1> SUFFICES ASSUME NEW o \in Orders, c_order[o].status # "none"
             PROVE  LET b == c_order[o].items p == c_order[o].price IN
                    /\ c_order[o].total + c_order[o].off
                         = Cart!Worth(b, p, Variants) + Shipping + c_order[o].tax
                    /\ c_calm => /\ c_order[o].off = 0 \/ Cart!LeavesMargin(b, p, c_order[o].off)
                                 /\ c_order[o].off <= Cart!Max({Cart!Eligible(b, p), Cart!BundleOff(b, p)})
  BY DEF Cart!OrderPriced
<1>1. c_order[o].total + c_order[o].off = Due(c_order[o])
  BY DEF Inv, Sound, Figures
<1>2. c_calm => Allowed(c_order[o].items, c_order[o].price, c_order[o].off)
  BY DEF Inv, Undisturbed, Lawful
<1> QED
  BY <1>1, <1>2 DEF Due, Allowed, Fits, Ceiling

\* ... and what an undisturbed checkout charges.
LEMMA InvCharges ==
  ASSUME ShopAssumption, Inv
  PROVE  Cart!ChargedAsShown
<1> SUFFICES ASSUME NEW t \in Tabs, Cart!At(t, "answer"), c_calm,
                    c_order[c_call[t].order].status = "pending",
                    c_order[c_call[t].order].own = c_call[t].shown.own,
                    c_order[c_call[t].order].code => c_call[t].shown.code
             PROVE  LET lost == c_call[t].shown.code /\ ~c_order[c_call[t].order].code IN
                    /\ lost => ~c_call[t].won
                    /\ c_order[c_call[t].order].total
                         = c_call[t].shown.total + (IF lost THEN c_call[t].shown.off ELSE 0)
  BY DEF Cart!ChargedAsShown
<1> DEFINE r == c_order[c_call[t].order]
           q == c_call[t].shown
<1>1. Typed /\ Charges(c_call[t]) /\ ReadRight(c_call[t]) /\ Cart!Checking(t)
  BY DEF Inv, Sound, Undisturbed, Cart!Checking, Cart!At
<1>2. c_call[t].order \in Orders /\ r \in RowType /\ Figures(r)
  BY <1>1 DEF ReadRight, Handed, Cart!At, Inv, Sound, Typed
<1>3. Quoted(q, c_price) /\ q \in QuoteType
  BY <1>1 DEF Inv, Undisturbed, Shows, Typed, CheckType
<1>4. Matches(r, q) /\ (c_call[t].won => r.code) /\ Lawful(r)
  BY <1>1, <1>2 DEF Charges, Cart!At, Inv, Undisturbed
<1>5. r.status = "pending" /\ r.own = q.own /\ (r.code => q.code)
  OBVIOUS
<1> DEFINE worth == Cart!Worth(q.items, c_price, Variants)
<1> HIDE DEF r, q
<1>6. q.items \in Amounts /\ c_price \in Amounts
  BY <1>1, <1>3, AmountsOf DEF QuoteType, Typed
<1>7. /\ worth \in Nat /\ q.off \in Nat /\ q.tax \in Nat /\ Shipping \in Nat
      /\ q.own \in Nat /\ r.total \in Nat /\ r.off \in Nat /\ q.code \in BOOLEAN
  BY <1>2, <1>3, <1>6, WorthType DEF QuoteType, RowType, ShopAssumption
<1>8. /\ r.total + r.off = worth + Shipping + q.tax
      /\ ~r.code => r.off = Cart!Min({q.own, worth})
      /\ r.code => r.off = CodeOff(q.items, c_price)
  BY <1>2, <1>4, <1>5 DEF Figures, Due, Matches, Lawful
<1>9. /\ q.total = Cart!Max({0, worth - q.off}) + Shipping + q.tax
      /\ q.code => q.own = 0 /\ q.off = CodeOff(q.items, c_price) /\ q.off <= worth
      /\ ~q.code => q.own = q.off
  BY <1>3 DEF Quoted
<1> HIDE DEF worth
<1>10. Cart!Max({0, worth - q.off}) = IF 0 >= worth - q.off THEN 0 ELSE worth - q.off
  BY <1>7, MaxOfTwo
<1>11. Cart!Min({q.own, worth}) = IF q.own <= worth THEN q.own ELSE worth
  BY <1>7, MinOfTwo
<1>12. CASE ~q.code
  BY <1>5, <1>7, <1>8, <1>9, <1>10, <1>11, <1>12 DEF r, q
<1>13. CASE q.code /\ r.code
  BY <1>7, <1>8, <1>9, <1>10, <1>13 DEF r, q
<1>14. CASE q.code /\ ~r.code
  BY <1>4, <1>7, <1>8, <1>9, <1>10, <1>11, <1>14 DEF r, q
<1> QED
  BY <1>7, <1>12, <1>13, <1>14

\* The inductive invariant of Checkout: figures that add up whatever overlaps, and while
\* nothing disturbs the checkouts an order that is what its cart showed.
THEOREM CheckoutInvariant == Cart!Spec => []Inv
<1>1. Cart!Init => Inv
  BY InvInit, ShopAssumption
<1>2. Inv /\ [Cart!Next]_(Cart!vars) => Inv'
  BY InvStep, ShopAssumption
<1> QED
  BY <1>1, <1>2, PTL DEF Cart!Spec

\* Checkout is a part of the shop, and so is Payments: what PaymentsProofs proves holds
\* in the shop as well.
LEMMA CheckoutIsAPart == ShopSpec => Cart!Spec
<1>1. ShopInit => Cart!Init
  BY DEF ShopInit
<1>2. [ShopNext]_all => [Cart!Next]_(Cart!vars)
  BY DEF ShopNext, PaymentsMove, CheckoutMoves, all, cvars, Cart!vars
<1> QED
  BY <1>1, <1>2, PTL DEF ShopSpec, Cart!Spec

THEOREM PaymentsAreAPart == ShopSpec => Spec
<1>1. ShopInit => Init
  BY DEF ShopInit
<1>2. [ShopNext]_all => [Next]_vars
  BY DEF ShopNext, PaymentsMove, CheckoutMoves, all
<1> QED
  BY <1>1, <1>2, PTL DEF ShopSpec, Spec

\* The figures of every order add up, whatever checkouts overlap; and while nothing
\* disturbs them, an order keeps the margin and a checkout charges what its cart showed:
\* for any catalogue, any prices, discounts and baskets, and any number of tabs.
THEOREM ChargedAsThePriceSays == ShopSpec => []CheckoutPriced
<1>1. Inv => CheckoutPriced
  BY InvTypes, InvPrices, InvCharges, ShopAssumption DEF CheckoutPriced, Cart!CheckoutPriced
<1> QED
  BY <1>1, CheckoutIsAPart, CheckoutInvariant, PTL

=============================================================================
