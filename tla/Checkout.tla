------------------------------ MODULE Checkout ------------------------------
(***************************************************************************)
(* What the shopper is shown and what the order charges:                   *)
(* src/src/services/cart.service.ts, the money of create() and             *)
(* applyDiscount() in src/src/services/order.service.ts, and               *)
(* src/src/counter/totalsPipeline.ts and marginFloor.ts.  A cart holds     *)
(* intent only and is priced on every read; a checkout prices it, makes or *)
(* finds the order under the cart's key, and writes the coupon's discount  *)
(* on it afterwards.                                                       *)
(*                                                                         *)
(* One cart, one destination and one way of shipping.  A call works on the *)
(* document it loaded and writes all of it back.  computeTotals() reads    *)
(* the prices with the cart, and create() reads them as it inserts.  The   *)
(* steps that fail a drifted order and free its key are one here;          *)
(* OrderLifecycle has each, with the stock, and Coupons the slots.         *)
(***************************************************************************)
EXTENDS Integers, FiniteSets, FiniteSetsExt, Functions

CONSTANTS
  Variants,
  Cost,        \* the recorded cost of each variant, 0 for none
  OptedOut,    \* variants no promotion touches (meta.noMemberDiscount)
  Pins,        \* variants with a bundle price ...
  Bundles,     \* ... and the prices: <<from this quantity, price each>>
  MarginPct, MemberPct,
  Coupon,      \* [type, amount]: "percent" or "fixed"
  TaxRates, Shipping,
  Prices,      \* the price lists the catalogue may go through
  Baskets,     \* the baskets considered
  Orders, NoOrder, Tabs

VARIABLES
  price,   \* the price of each variant
  taxPct,  \* the tax rate
  cart,    \* the document in Redis: [items, coupon], or Cleared
  order,   \* the order rows; own and code, which are no columns, say which discount the
           \* row was made with and whether a coupon's was written since
  keyed,   \* the order that holds the cart's key
  call,    \* the calls: cart edits and checkouts
  calm     \* history: no checkouts overlapped, and no price moved under one or its order

vars == <<price, taxPct, cart, order, keyed, call, calm>>

Nothing == [v \in Variants |-> 0]
Empty == [items |-> Nothing, coupon |-> FALSE]
Cleared == [items |-> Nothing, coupon |-> TRUE]

-----------------------------------------------------------------------------
(* computeTotals(): the pipeline and the margin floor                      *)

Total(f) == FoldFunction(+, 0, f)
Worth(b, p, V) == Total([v \in V |-> b[v] * p[v]])

\* Math.round(n * pct / 100).
Percent(n, pct) == (2 * n * pct + 100) \div 200

\* Mutant: a line without a cost lends its price to the others (audit C16).
HeadroomAll(b, p) ==
  LET priced == {v \in Variants : Cost[v] > 0 /\ b[v] > 0}
      AtLeast(v) == (Cost[v] * b[v] * (100 + MarginPct) + 99) \div 100 IN
  Max({0, Worth(b, p, Variants) - Total([v \in priced |-> AtLeast(v)])})

\* maxDiscountForMargin(): what the lines with a cost leave above cost and margin.
Headroom(b, p) ==
  LET priced == {v \in Variants : Cost[v] > 0 /\ b[v] > 0}
      AtLeast(v) == (Cost[v] * b[v] * (100 + MarginPct) + 99) \div 100 IN
  Max({0, Worth(b, p, priced) - Total([v \in priced |-> AtLeast(v)])})

HasFloor(b) == MarginPct > 0 /\ \E v \in Variants : Cost[v] > 0 /\ b[v] > 0
Clamped(n, b, p) == IF HasFloor(b) THEN Min({n, Headroom(b, p)}) ELSE n

Eligible(b, p) == Worth(b, p, Variants \ OptedOut)
MemberOff(b, p) == Percent(Eligible(b, p), MemberPct)

\* Many pins at once: the price each of the largest bundle they fill.
BundleOff(b, p) ==
  LET pins == Total([v \in Pins |-> b[v]])
      filled == {f \in Bundles : f[1] <= pins} IN
  IF filled = {} THEN 0
  ELSE Worth(b, p, Pins) - pins * Min({f[2] : f \in filled})

CouponOff(b, p) ==
  Min({Eligible(b, p),
       IF Coupon.type = "percent" THEN Percent(Eligible(b, p), Coupon.amount) ELSE Coupon.amount})

\* A member's price or a bundle's, whichever saves more, is a floor: no code stacks.
OwnPrice(b, p, member) == member \/ BundleOff(b, p) > 0
OwnOff(b, p, member) == Max({0, BundleOff(b, p), IF member THEN MemberOff(b, p) ELSE 0})

\* What the cart shows: one discount, before the tax on what it leaves.
Shown(doc, p, member) ==
  LET b    == doc.items
      code == doc.coupon /\ ~OwnPrice(b, p, member)
      own  == Clamped(OwnOff(b, p, member), b, p)
      off  == IF code THEN Clamped(CouponOff(b, p), b, p) ELSE own
      left == Max({0, Worth(b, p, Variants) - off})
      tax  == Percent(left, taxPct) IN
  [items |-> b, code |-> code, own |-> IF code THEN 0 ELSE own, off |-> off, tax |-> tax,
   total |-> left + Shipping + tax]

-----------------------------------------------------------------------------
NoQuote == [items |-> Nothing, code |-> FALSE, own |-> 0, off |-> 0, tax |-> 0, total |-> 0]
NoRow ==
  [status |-> "none", items |-> Nothing, price |-> Nothing, tax |-> 0, off |-> 0, total |-> 0,
   own |-> 0, code |-> FALSE]
NoRead == [total |-> 0, off |-> 0]
Idle == [pc |-> "idle", doc |-> Empty, shown |-> NoQuote, order |-> NoOrder, won |-> FALSE,
         read |-> NoRead]

TypeOK ==
  /\ price \in Prices /\ taxPct \in TaxRates /\ calm \in BOOLEAN
  /\ cart \in [items : Baskets \cup {Nothing}, coupon : BOOLEAN]
  /\ keyed \in Orders \cup {NoOrder}
  /\ \A o \in Orders :
       /\ order[o].status \in {"none", "pending", "paid", "failed"}
       /\ order[o].items \in Baskets \cup {Nothing} /\ order[o].price \in Prices \cup {Nothing}
       /\ {order[o].tax, order[o].off, order[o].total, order[o].own} \subseteq Nat
       /\ order[o].code \in BOOLEAN
  /\ \A t \in Tabs :
       /\ call[t].pc \in {"idle", "save", "find", "rebuild", "insert", "spend", "read", "write",
                          "answer"}
       /\ call[t].doc \in [items : Baskets \cup {Nothing}, coupon : BOOLEAN]
       /\ call[t].order \in Orders \cup {NoOrder} /\ call[t].won \in BOOLEAN

Init ==
  /\ price \in Prices /\ taxPct \in TaxRates
  /\ cart = Empty
  /\ order = [o \in Orders |-> NoRow]
  /\ keyed = NoOrder
  /\ call = [t \in Tabs |-> Idle]
  /\ calm = TRUE

At(t, pc) == call[t].pc = pc
Goto(t, pc) == call' = [call EXCEPT ![t].pc = pc]
With(t, pc, o) == call' = [call EXCEPT ![t].pc = pc, ![t].order = o]
Checking(t) == call[t].pc \notin {"idle", "save"}
Done(t) == call' = [call EXCEPT ![t] = Idle]

-----------------------------------------------------------------------------
(* The cart                                                                *)

\* addItem(), setQuantity(), applyCoupon(), which refuses a code beside an own price,
\* removeCoupon(), and get(), which writes back what it read to keep the cart alive, as
\* the sweep of abandoned carts does to stamp it.
Edits(doc) ==
  {[doc EXCEPT !.items = b] : b \in Baskets \cup {Nothing}}
    \cup {[doc EXCEPT !.coupon = code] :
            code \in IF OwnPrice(doc.items, price, FALSE) THEN {FALSE} ELSE BOOLEAN}

Load(t) ==
  /\ At(t, "idle") /\ cart # Cleared
  /\ \E doc \in Edits(cart) : call' = [call EXCEPT ![t].pc = "save", ![t].doc = doc]
  /\ UNCHANGED <<price, taxPct, cart, order, keyed, calm>>

Save(t) ==
  /\ At(t, "save") /\ Done(t)
  /\ cart' = call[t].doc
  /\ UNCHANGED <<price, taxPct, order, keyed, calm>>

-----------------------------------------------------------------------------
(* checkout()                                                              *)

\* The shopper, signed in as a member or not, checks out what the cart shows.
Begin(t, member) ==
  /\ At(t, "idle") /\ cart # Cleared /\ cart.items # Nothing
  /\ call' = [call EXCEPT ![t] = [Idle EXCEPT !.pc = "find", !.shown = Shown(cart, price, member)]]
  /\ calm' = (calm /\ \A u \in Tabs : ~Checking(u))
  /\ UNCHANGED <<price, taxPct, cart, order, keyed>>

\* Mutant: an order under the key is the order (audit C1, C2).
SameLineupAlways(row, shown) == TRUE

\* The discount is not compared.
SameLineup(row, shown) == row.items = shown.items /\ row.tax = shown.tax

\* The order under the cart's key is handed back when it is settled or the same
\* basket, and failed when the cart has changed since.
Find(t) ==
  /\ At(t, "find")
  /\ IF keyed = NoOrder THEN Goto(t, "insert")
     ELSE IF order[keyed].status # "pending" \/ SameLineup(order[keyed], call[t].shown)
          THEN With(t, "spend", keyed)
          ELSE With(t, "rebuild", keyed)
  /\ UNCHANGED <<price, taxPct, cart, order, keyed, calm>>

\* transition(failed), the re-read, and the key freed; an order paid meanwhile is kept.
Rebuild(t) ==
  LET o == call[t].order IN
  /\ At(t, "rebuild")
  /\ IF order[o].status = "paid"
     THEN Goto(t, "spend") /\ UNCHANGED <<order, keyed>>
     ELSE /\ order' = [order EXCEPT ![o].status = "failed"]
          /\ keyed' = IF keyed = o THEN NoOrder ELSE keyed
          /\ With(t, "insert", NoOrder)
  /\ UNCHANGED <<price, taxPct, cart, calm>>

\* Mutant: the coupon's amount is on the order from the start.
NewRowCouponed(shown) ==
  LET worth == Worth(shown.items, price, Variants)
      off == Min({shown.off, worth}) IN
  [status |-> "pending", items |-> shown.items, price |-> price, tax |-> shown.tax,
   off |-> off, total |-> worth - shown.own + Shipping + shown.tax, own |-> shown.own, code |-> FALSE]

\* The member's or the bundle's discount comes from the cart; the prices are read anew.
NewRow(shown) ==
  LET worth == Worth(shown.items, price, Variants)
      off == Min({shown.own, worth}) IN
  [status |-> "pending", items |-> shown.items, price |-> price, tax |-> shown.tax,
   off |-> off, total |-> worth - off + Shipping + shown.tax, own |-> shown.own, code |-> FALSE]

\* Whoever loses the key is handed the winner's order, whatever is in it.
Insert(t) ==
  /\ At(t, "insert")
  /\ IF keyed # NoOrder
     THEN With(t, "spend", keyed) /\ UNCHANGED <<order, keyed>>
     ELSE \E o \in Orders :
            /\ order[o].status = "none"
            /\ order' = [order EXCEPT ![o] = NewRow(call[t].shown)]
            /\ keyed' = o /\ With(t, "spend", o)
  /\ UNCHANGED <<price, taxPct, cart, calm>>

\* The code the cart showed is quoted once more and its slot claimed for the order.
\* Either may be refused, of a code that is used up by now, capped without anybody to
\* count it for, or not for so large a basket: the order stays at full price.
Spend(t) ==
  /\ At(t, "spend")
  /\ \/ call[t].shown.code /\ call' = [call EXCEPT ![t].pc = "read", ![t].won = TRUE]
     \/ Goto(t, "answer")
  /\ UNCHANGED <<price, taxPct, cart, order, keyed, calm>>

\* applyDiscount() reads, without a lock; the checkout of a settled order fails.
Read(t) ==
  LET row == order[call[t].order] IN
  /\ At(t, "read")
  /\ IF row.status = "pending"
     THEN call' = [call EXCEPT ![t].pc = "write", ![t].read = [total |-> row.total, off |-> row.off]]
     ELSE Done(t)
  /\ UNCHANGED <<price, taxPct, cart, order, keyed, calm>>

\* Mutant: the discount comes on top of what was there.
WriteOnTop(t) ==
  LET base == call[t].read.total
      off == Min({call[t].shown.off, base}) IN
  /\ At(t, "write") /\ Goto(t, "answer")
  /\ order' = [order EXCEPT ![call[t].order].off = off, ![call[t].order].total = base - off,
                             ![call[t].order].code = TRUE]
  /\ UNCHANGED <<price, taxPct, cart, keyed, calm>>

\* The discount replaces the one that was read, and is taken from what was read.
Write(t) ==
  LET base == call[t].read.total + call[t].read.off
      off == Min({call[t].shown.off, base}) IN
  /\ At(t, "write") /\ Goto(t, "answer")
  /\ order' = [order EXCEPT ![call[t].order].off = off, ![call[t].order].total = base - off,
                             ![call[t].order].code = TRUE]
  /\ UNCHANGED <<price, taxPct, cart, keyed, calm>>

\* The order's total is handed back; or the process has died on the way.
Answer(t) == At(t, "answer") /\ Done(t) /\ UNCHANGED <<price, taxPct, cart, order, keyed, calm>>
Die(t) == Checking(t) /\ Done(t) /\ UNCHANGED <<price, taxPct, cart, order, keyed, calm>>

-----------------------------------------------------------------------------
(* The rest of the system                                                  *)

\* The payment settles the order, and the cart is cleared.
Pay(o) ==
  /\ order[o].status = "pending"
  /\ order' = [order EXCEPT ![o].status = "paid"] /\ cart' = Cleared
  /\ UNCHANGED <<price, taxPct, keyed, call, calm>>

\* The sweep fails an order that nobody pays.
Sweep(o) ==
  /\ order[o].status = "pending"
  /\ order' = [order EXCEPT ![o].status = "failed"]
  /\ UNCHANGED <<price, taxPct, cart, keyed, call, calm>>

Reprice ==
  /\ price' \in Prices \ {price}
  /\ calm' = (calm /\ (\A t \in Tabs : ~Checking(t)) /\ \A o \in Orders : order[o].status # "pending")
  /\ UNCHANGED <<taxPct, cart, order, keyed, call>>

Step(t) ==
  \/ Load(t) \/ Save(t) \/ (\E member \in BOOLEAN : Begin(t, member)) \/ Find(t) \/ Rebuild(t)
  \/ Insert(t) \/ Spend(t) \/ Read(t) \/ Write(t) \/ Answer(t) \/ Die(t)

Next ==
  \/ \E t \in Tabs : Step(t)
  \/ \E o \in Orders : Pay(o) \/ Sweep(o)
  \/ Reprice

Spec == Init /\ [][Next]_vars

-----------------------------------------------------------------------------
(* Properties                                                              *)

\* The lines with a recorded cost still bring it in, with the margin.
LeavesMargin(b, p, off) ==
  LET priced == {v \in Variants : Cost[v] > 0 /\ b[v] > 0} IN
  HasFloor(b) => 100 * (Worth(b, p, priced) - off)
                   >= Total([v \in priced |-> Cost[v] * b[v] * (100 + MarginPct)])

\* The figures of an order add up, whatever checkouts write their discounts on it; and
\* while no two checkouts overlap and no price moves under one, its discount leaves the
\* lines with a cost their cost and margin, however the cart was edited, retried and
\* rebuilt ("a discount can never fall below the amount the cart showed",
\* marginFloor.ts:2), and takes nothing from a line that opted out.
OrderPriced ==
  \A o \in Orders : order[o].status # "none" =>
    LET b == order[o].items p == order[o].price IN
    /\ order[o].total + order[o].off = Worth(b, p, Variants) + Shipping + order[o].tax
    /\ calm => /\ order[o].off = 0 \/ LeavesMargin(b, p, order[o].off)
               /\ order[o].off <= Max({Eligible(b, p), BundleOff(b, p)})

\* A checkout that nothing disturbs hands back an order that charges what its cart
\* showed, whether it made the order, rebuilt it or found it ("so the order charges
\* exactly the [...] figure the cart displayed", order.schema.ts:62); where the code that
\* was shown could not be had, all but its discount ("the order stays at full price",
\* cart.service.ts:639), and a code that was had is never left out.  Excepted is an order
\* made for another standing: with another own price, or with a code that is gone.
ChargedAsShown ==
  \A t \in Tabs :
    LET row == order[call[t].order] shown == call[t].shown
        lost == shown.code /\ ~row.code IN
    (At(t, "answer") /\ calm /\ row.status = "pending" /\ row.own = shown.own
       /\ (row.code => shown.code)) =>
      /\ lost => ~call[t].won
      /\ row.total = shown.total + (IF lost THEN shown.off ELSE 0)

\* What a checkout charges: the figures of its order, and those of its cart.
CheckoutPriced == OrderPriced /\ ChargedAsShown

=============================================================================
