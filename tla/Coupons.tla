------------------------------ MODULE Coupons ------------------------------
(***************************************************************************)
(* src/src/services/coupon.service.ts with the part of checkout() in       *)
(* cart.service.ts that spends a coupon and applyDiscount() of             *)
(* order.service.ts: one coupon with a limit of uses and a limit per       *)
(* customer, the orders that carry it, the checkouts that race for it, the *)
(* releases that give its slots back and the admin who removes it.         *)
(*                                                                         *)
(* One action is one database statement or one transaction.  The           *)
(* transaction of reserveForOrder is one step: its first statement locks   *)
(* the coupon row until it commits.                                        *)
(*                                                                         *)
(* "processing" stands for every status of a paid order.  The limits are   *)
(* those the coupon was created with; no edit of them is modelled.         *)
(***************************************************************************)
EXTENDS Integers, FiniteSets

CONSTANTS
  Orders,     \* orders of carts that carry the code
  Tabs,       \* checkout requests
  Customers,  \* who a redemption is counted for: customerId, or the email of a guest
  Limits      \* the limits the coupon may have: <<usageLimit, usageLimitPerUser>>

ASSUME CouponAssumption ==
  /\ IsFiniteSet(Orders) /\ Orders # {}
  /\ Customers # {}
  /\ Limits \subseteq (Nat \ {0}) \X (Nat \ {0})

VARIABLES
  limit,      \* coupon.usageLimit
  perUser,    \* coupon.usageLimitPerUser
  coupon,     \* "active", "inactive", or "deleted" with its redemptions
  usage,      \* coupon.usageCount
  redeemed,   \* the redemption row of each order: state and customer
  order,      \* order.status
  discounted, \* does order.discountAmount hold the coupon's amount?
  tab,        \* checkout(): program counter and locals
  release,    \* the calls of releaseForOrder for an order that "ended" or was "refunded"
  admin       \* remove(): what it has decided

terms == <<limit, perUser>>
vars == <<terms, coupon, usage, redeemed, order, discounted, tab, release, admin>>

Causes == {"ended", "refunded"}
Ended == {"failed", "cancelled"}

NoRow == [state |-> "none"]
RowType == [state : {"none"}] \cup [state : {"held", "released"}, by : Customers]

\* A request that died stays in the books as "dead": it takes no further step.
IdleTab == [pc |-> "idle"]
Working == {"quote", "lookup", "claim", "read", "write"}
TabType == [pc : {"idle"}] \cup [pc : Working \cup {"dead"}, order : Orders]

TypeOK ==
  /\ {limit, perUser} \subseteq Nat \ {0}
  /\ coupon \in {"active", "inactive", "deleted"}
  /\ usage \in Nat
  /\ redeemed \in [Orders -> RowType]
  /\ order \in [Orders -> {"pending", "processing"} \cup Ended]
  /\ discounted \in [Orders -> BOOLEAN]
  /\ tab \in [Tabs -> TabType]
  /\ release \in [Orders \X Causes -> {"none", "due", "found", "over"}]
  /\ admin \in {"idle", "retire", "delete"}

\* checkout() has created the orders; none is discounted yet.
Init ==
  /\ \E p \in Limits : limit = p[1] /\ perUser = p[2]
  /\ coupon = "active"
  /\ usage = 0
  /\ redeemed = [o \in Orders |-> NoRow]
  /\ order = [o \in Orders |-> "pending"]
  /\ discounted = [o \in Orders |-> FALSE]
  /\ tab = [t \in Tabs |-> IdleTab]
  /\ release = [r \in Orders \X Causes |-> "none"]
  /\ admin = "idle"

Held == {o \in Orders : redeemed[o].state = "held"}
HeldBy(u) == {o \in Held : redeemed[o].by = u}

-----------------------------------------------------------------------------
(* checkout(): quote, reserve, discount                                    *)

Goto(t, pc) == tab' = [tab EXCEPT ![t].pc = pc]
Return(t) == tab' = [tab EXCEPT ![t] = IdleTab]

\* A checkout of a cart with the code, whose order create() made or handed back.
Begin(t, o) ==
  /\ tab[t].pc = "idle"
  /\ tab' = [tab EXCEPT ![t] = [pc |-> "quote", order |-> o]]
  /\ UNCHANGED <<terms, coupon, usage, redeemed, order, discounted, release, admin>>

\* quoteOrNull: a code that is retired or used up is dropped.  Dates, subtotal
\* gates and a cap counted by typed email may drop one that is not.
Quote(t) ==
  /\ tab[t].pc = "quote"
  /\ \/ coupon = "active" /\ usage < limit /\ Goto(t, "lookup")
     \/ Return(t)
  /\ UNCHANGED <<terms, coupon, usage, redeemed, order, discounted, release, admin>>

\* The row of a retry, released ones included.
Lookup(t) ==
  /\ tab[t].pc = "lookup"
  /\ Goto(t, IF redeemed[tab[t].order].state # "none" THEN "read" ELSE "claim")
  /\ UNCHANGED <<terms, coupon, usage, redeemed, order, discounted, release, admin>>

\* Mutant: the usage limit is the one that was quoted.
ClaimableQuoted(u) == coupon # "deleted" /\ Cardinality(HeldBy(u)) < perUser

\* The conditional increment and the count of the customer's unreleased rows.
Claimable(u) ==
  /\ coupon # "deleted" /\ usage < limit
  /\ Cardinality(HeldBy(u)) < perUser

\* A second row for the order breaks the unique key, which aborts the
\* transaction and fails the checkout.
Wins(o, u) == Claimable(u) /\ redeemed[o].state = "none"

Reserve(o, u) ==
  IF Wins(o, u)
  THEN usage' = usage + 1 /\ redeemed' = [redeemed EXCEPT ![o] = [state |-> "held", by |-> u]]
  ELSE UNCHANGED <<usage, redeemed>>

\* Mutant: the discount is given although the slot was lost.
ClaimAnyway(t, u) ==
  /\ tab[t].pc = "claim"
  /\ Reserve(tab[t].order, u)
  /\ Goto(t, "read")
  /\ UNCHANGED <<terms, coupon, order, discounted, release, admin>>

\* Mutant: the winner of the slot does not discount its order.
ClaimOnly(t, u) ==
  /\ tab[t].pc = "claim"
  /\ Reserve(tab[t].order, u)
  /\ Return(t)
  /\ UNCHANGED <<terms, coupon, order, discounted, release, admin>>

\* The transaction of reserveForOrder, for the customer u of the request.
Claim(t, u) ==
  /\ tab[t].pc = "claim"
  /\ Reserve(tab[t].order, u)
  /\ IF Wins(tab[t].order, u) THEN Goto(t, "read") ELSE Return(t)
  /\ UNCHANGED <<terms, coupon, order, discounted, release, admin>>

\* applyDiscount reads the order, throws if it is not pending, and writes the
\* new total; the row is not locked in between.
ReadOrder(t) ==
  /\ tab[t].pc = "read"
  /\ IF order[tab[t].order] = "pending" THEN Goto(t, "write") ELSE Return(t)
  /\ UNCHANGED <<terms, coupon, usage, redeemed, order, discounted, release, admin>>

WriteDiscount(t) ==
  /\ tab[t].pc = "write"
  /\ discounted' = [discounted EXCEPT ![tab[t].order] = TRUE]
  /\ Return(t)
  /\ UNCHANGED <<terms, coupon, usage, redeemed, order, release, admin>>

\* The process dies during the request.
Die(t) ==
  /\ tab[t].pc \in Working
  /\ Goto(t, "dead")
  /\ UNCHANGED <<terms, coupon, usage, redeemed, order, discounted, release, admin>>

-----------------------------------------------------------------------------
(* The order, and the release of its slot                                  *)

Pay(o) ==
  /\ order[o] = "pending"
  /\ order' = [order EXCEPT ![o] = "processing"]
  /\ UNCHANGED <<terms, coupon, usage, redeemed, discounted, tab, release, admin>>

\* transition() starts a release it does not wait for.
End(o, st) ==
  /\ order[o] = "pending" \/ (order[o] = "processing" /\ st = "cancelled")
  /\ order' = [order EXCEPT ![o] = st]
  /\ release' = [release EXCEPT ![<<o, "ended">>] = "due"]
  /\ UNCHANGED <<terms, coupon, usage, redeemed, discounted, tab, admin>>

\* The whole total of a paid order is confirmed as returned.
Refund(o) ==
  /\ order[o] \in {"processing", "cancelled"} /\ release[<<o, "refunded">>] = "none"
  /\ release' = [release EXCEPT ![<<o, "refunded">>] = "due"]
  /\ UNCHANGED <<terms, coupon, usage, redeemed, order, discounted, tab, admin>>

\* releaseForOrder: the rows not released, then each in a transaction.
FindHeld(r) ==
  /\ release[r] = "due"
  /\ release' = [release EXCEPT ![r] = IF r[1] \in Held THEN "found" ELSE "over"]
  /\ UNCHANGED <<terms, coupon, usage, redeemed, order, discounted, tab, admin>>

\* Mutant: the slot is given back by every release that found the row.
FreeSlotTwice(r) ==
  /\ release[r] = "found"
  /\ release' = [release EXCEPT ![r] = "over"]
  /\ IF redeemed[r[1]].state # "none"
     THEN /\ redeemed' = [redeemed EXCEPT ![r[1]].state = "released"]
          /\ usage' = usage - 1
     ELSE UNCHANGED <<redeemed, usage>>
  /\ UNCHANGED <<terms, coupon, order, discounted, tab, admin>>

\* Only the release that flips the row takes one use off the coupon.
FreeSlot(r) ==
  /\ release[r] = "found"
  /\ release' = [release EXCEPT ![r] = "over"]
  /\ IF r[1] \in Held
     THEN /\ redeemed' = [redeemed EXCEPT ![r[1]].state = "released"]
          /\ usage' = usage - 1
     ELSE UNCHANGED <<redeemed, usage>>
  /\ UNCHANGED <<terms, coupon, order, discounted, tab, admin>>

\* A release that nothing waits for dies with its process, or fails.
LoseRelease(r) ==
  /\ release[r] \in {"due", "found"}
  /\ release' = [release EXCEPT ![r] = "over"]
  /\ UNCHANGED <<terms, coupon, usage, redeemed, order, discounted, tab, admin>>

-----------------------------------------------------------------------------
(* The admin                                                               *)

\* update() switches the code on and off.
Switch ==
  /\ coupon # "deleted"
  /\ coupon' \in {"active", "inactive"} \ {coupon}
  /\ UNCHANGED <<terms, usage, redeemed, order, discounted, tab, release, admin>>

\* remove() counts the redemptions, and later retires or deletes the coupon.
CountRedemptions ==
  /\ admin = "idle" /\ coupon # "deleted"
  /\ admin' = IF \E o \in Orders : redeemed[o].state # "none" THEN "retire" ELSE "delete"
  /\ UNCHANGED <<terms, coupon, usage, redeemed, order, discounted, tab, release>>

Retire ==
  /\ admin = "retire"
  /\ coupon' = "inactive" /\ admin' = "idle"
  /\ UNCHANGED <<terms, usage, redeemed, order, discounted, tab, release>>

\* The delete cascades to the redemptions.
Delete ==
  /\ admin = "delete"
  /\ coupon' = "deleted" /\ admin' = "idle"
  /\ usage' = 0 /\ redeemed' = [o \in Orders |-> NoRow]
  /\ UNCHANGED <<terms, order, discounted, tab, release>>

TabStep(t) ==
  \/ Quote(t) \/ Lookup(t) \/ (\E u \in Customers : Claim(t, u)) \/ ReadOrder(t) \/ WriteDiscount(t) \/ Die(t)

OrderStep(o) == Pay(o) \/ Refund(o) \/ \E st \in Ended : End(o, st)

ReleaseStep(r) == FindHeld(r) \/ FreeSlot(r) \/ LoseRelease(r)

Next ==
  \/ \E t \in Tabs, o \in Orders : Begin(t, o)
  \/ \E t \in Tabs : TabStep(t)
  \/ \E o \in Orders : OrderStep(o)
  \/ \E r \in Orders \X Causes : ReleaseStep(r)
  \/ Switch \/ CountRedemptions \/ Retire \/ Delete

Spec == Init /\ [][Next]_vars

-----------------------------------------------------------------------------
(* Properties                                                              *)

\* usageCount is exactly the number of orders that hold a slot: two releases of
\* one order give one slot back (audit F5), and a lost claim takes none.
UsageExact == usage = Cardinality(Held)

\* However many checkouts race, the code is never spent beyond its limit, nor by
\* one customer beyond the limit per customer (audits F1, F2, F4, C15).
CapsKept ==
  /\ Cardinality(Held) <= limit
  /\ \A u \in Customers : Cardinality(HeldBy(u)) <= perUser

\* No order that is still to be paid, or was paid and not returned, carries a
\* discount whose slot is not counted, while the coupon exists.
DiscountCounted ==
  coupon # "deleted" =>
    \A o \in Orders :
      discounted[o] /\ order[o] \notin Ended /\ release[<<o, "refunded">>] = "none" => o \in Held

\* A pending order that holds a slot gets the discount, unless the checkout that
\* took the slot died before it wrote it.
SlotIsSpent ==
  \A o \in Held :
    order[o] = "pending" /\ ~discounted[o] =>
      \E t \in Tabs : tab[t].pc \in {"read", "write", "dead"} /\ tab[t].order = o

\* Slot and discount of a live order go together, in both directions, although
\* they are taken and written in three steps.
DiscountMatchesSlot == DiscountCounted /\ SlotIsSpent

=============================================================================
