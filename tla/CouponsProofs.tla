--------------------------- MODULE CouponsProofs ---------------------------
(***************************************************************************)
(* Theorems about Coupons, for any limits and any number of orders,        *)
(* customers and concurrent checkouts, with lost releases, requests that   *)
(* die and a coupon that is removed meanwhile.                             *)
(***************************************************************************)
EXTENDS Coupons, FiniteSetTheorems, TLAPS

USE DEF terms, Causes, Ended, NoRow

-----------------------------------------------------------------------------
(* The invariant                                                           *)

\* A request past the claim, and a discount, have a redemption behind them, and
\* a slot is released only for an order that ended or was returned.
Backed ==
  /\ coupon # "deleted" =>
       /\ \A t \in Tabs : tab[t].pc \in {"read", "write"} => redeemed[tab[t].order].state # "none"
       /\ \A o \in Orders : discounted[o] => redeemed[o].state # "none"
  /\ \A o \in Orders : release[<<o, "ended">>] # "none" => order[o] \in Ended
  /\ \A o \in Orders : redeemed[o].state = "released" =>
       order[o] \in Ended \/ release[<<o, "refunded">>] # "none"
  /\ admin # "idle" => coupon # "deleted"

Inv == TypeOK /\ UsageExact /\ CapsKept /\ Backed /\ SlotIsSpent

-----------------------------------------------------------------------------
(* Updates of one field                                                    *)

LEMMA GotoType ==
  ASSUME tab \in [Tabs -> TabType], NEW t \in Tabs, tab[t].pc \in Working,
         NEW pc \in Working \cup {"dead"}, Goto(t, pc)
  PROVE  /\ tab' \in [Tabs -> TabType]
         /\ tab'[t].pc = pc /\ tab'[t].order = tab[t].order
         /\ \A s \in Tabs : s # t => tab'[s] = tab[s]
  BY DEF Goto, TabType, Working

LEMMA IdleTypes == NoRow \in RowType /\ IdleTab \in TabType
  BY DEF RowType, TabType, IdleTab

LEMMA ReturnType ==
  ASSUME tab \in [Tabs -> TabType], NEW t \in Tabs, Return(t)
  PROVE  /\ tab' \in [Tabs -> TabType]
         /\ tab'[t].pc = "idle"
         /\ \A s \in Tabs : s # t => tab'[s] = tab[s]
  BY DEF Return, TabType, IdleTab

\* The order of a request at work.
LEMMA TabOrder ==
  ASSUME TypeOK, NEW t \in Tabs, tab[t].pc # "idle"
  PROVE  tab[t].order \in Orders
  BY DEF TypeOK, TabType

-----------------------------------------------------------------------------
(* Counting slots                                                          *)

LEMMA HeldFinite ==
  /\ IsFiniteSet(Held) /\ Cardinality(Held) \in Nat
  /\ \A u \in Customers : IsFiniteSet(HeldBy(u)) /\ Cardinality(HeldBy(u)) \in Nat
<1>1. IsFiniteSet(Orders) /\ Held \subseteq Orders /\ \A u \in Customers : HeldBy(u) \subseteq Orders
  BY CouponAssumption DEF Held, HeldBy
<1> QED
  BY <1>1, FS_Subset, FS_CardinalityType

\* Winning the claim adds the order to the slots held, and to those of its
\* customer alone.
LEMMA TakeSlot ==
  ASSUME TypeOK, UsageExact, CapsKept, NEW o \in Orders, NEW u \in Customers, Wins(o, u),
         Reserve(o, u)
  PROVE  /\ redeemed' \in [Orders -> RowType] /\ redeemed'[o].state = "held"
         /\ \A p \in Orders : p # o => redeemed'[p] = redeemed[p]
         /\ usage' \in Nat /\ usage' = Cardinality(Held')
         /\ Cardinality(Held') <= limit
         /\ \A v \in Customers : Cardinality(HeldBy(v)') <= perUser
         /\ Held' = Held \cup {o}
<1> DEFINE r == [state |-> "held", by |-> u]
<1>1. redeemed' = [redeemed EXCEPT ![o] = r] /\ usage' = usage + 1
  BY DEF Reserve
<1>2. r \in RowType
  BY DEF RowType
<1>3. /\ redeemed' \in [Orders -> RowType] /\ redeemed'[o] = r
      /\ \A p \in Orders : p # o => redeemed'[p] = redeemed[p]
  BY <1>1, <1>2 DEF TypeOK
<1>4. o \notin Held /\ usage < limit /\ Cardinality(HeldBy(u)) < perUser
  BY DEF Wins, Claimable, Held
<1>5. Held' = Held \cup {o}
  BY <1>3 DEF Held
<1>6. Cardinality(Held') = Cardinality(Held) + 1
  BY <1>4, <1>5, HeldFinite, FS_AddElement
<1>7. ASSUME NEW v \in Customers
      PROVE  Cardinality(HeldBy(v)') <= perUser
  <2>1. CASE v = u
    <3>1. HeldBy(v)' = HeldBy(v) \cup {o} /\ o \notin HeldBy(v)
      BY <1>3, <1>4, <1>5, <2>1 DEF HeldBy, Held
    <3>2. Cardinality(HeldBy(v)') = Cardinality(HeldBy(v)) + 1
      BY <3>1, HeldFinite, FS_AddElement
    <3> QED
      BY <1>4, <2>1, <3>2, HeldFinite DEF TypeOK
  <2>2. CASE v # u
    <3>1. HeldBy(v)' = HeldBy(v)
      BY <1>3, <1>4, <1>5, <2>2 DEF HeldBy, Held
    <3> QED
      BY <3>1 DEF CapsKept
  <2> QED
    BY <2>1, <2>2
<1> QED
  BY <1>1, <1>3, <1>4, <1>5, <1>6, <1>7, HeldFinite DEF UsageExact, TypeOK

\* Releasing a slot takes the order from the slots held.
LEMMA GiveSlot ==
  ASSUME TypeOK, UsageExact, CapsKept, NEW o \in Held, UNCHANGED terms,
         redeemed' = [redeemed EXCEPT ![o].state = "released"], usage' = usage - 1
  PROVE  /\ redeemed' \in [Orders -> RowType] /\ redeemed'[o].state = "released"
         /\ \A p \in Orders : p # o => redeemed'[p] = redeemed[p]
         /\ usage' \in Nat /\ UsageExact' /\ CapsKept'
         /\ Held' = Held \ {o}
<1>0. o \in Orders /\ redeemed[o] \in RowType /\ redeemed[o].state = "held"
  BY DEF Held, TypeOK
<1>1. /\ redeemed' \in [Orders -> RowType] /\ redeemed'[o].state = "released"
      /\ \A p \in Orders : p # o => redeemed'[p] = redeemed[p]
  BY <1>0 DEF TypeOK, RowType
<1>2. Held' = Held \ {o}
  BY <1>0, <1>1 DEF Held
<1>3. Cardinality(Held') = Cardinality(Held) - 1
  BY <1>2, HeldFinite, FS_RemoveElement
<1>4. Held # {}
  OBVIOUS
<1>5. usage' \in Nat /\ UsageExact'
  <2>1. Cardinality(Held') \in Nat
    BY <1>2, HeldFinite, FS_Subset, FS_CardinalityType
  <2> QED
    BY <1>3, <2>1, HeldFinite DEF UsageExact
<1>6. CapsKept'
  <2>1. Cardinality(Held') <= limit'
    BY <1>3, HeldFinite DEF CapsKept, TypeOK
  <2>2. ASSUME NEW v \in Customers
        PROVE  Cardinality(HeldBy(v)') <= perUser'
    <3>1. HeldBy(v)' \subseteq HeldBy(v)
      BY <1>0, <1>1, <1>2 DEF HeldBy, Held
    <3>2. Cardinality(HeldBy(v)') <= Cardinality(HeldBy(v)) /\ Cardinality(HeldBy(v)') \in Nat
      BY <3>1, HeldFinite, FS_Subset, FS_CardinalityType
    <3> QED
      BY <3>2, HeldFinite DEF CapsKept, TypeOK
  <2> QED
    BY <2>1, <2>2 DEF CapsKept
<1> QED
  BY <1>1, <1>2, <1>5, <1>6

\* A step that leaves the redemptions and the terms alone keeps the count.
LEMMA SameSlots ==
  ASSUME UsageExact, CapsKept, UNCHANGED <<terms, usage, redeemed>>
  PROVE  UsageExact' /\ CapsKept'
  BY DEF UsageExact, CapsKept, Held, HeldBy

-----------------------------------------------------------------------------
(* Preservation                                                            *)

LEMMA InvInit == Init => Inv
<1> SUFFICES ASSUME Init PROVE Inv
  OBVIOUS
<1>0. /\ limit \in Nat \ {0} /\ perUser \in Nat \ {0}
      /\ redeemed \in [Orders -> RowType] /\ tab \in [Tabs -> TabType]
  BY CouponAssumption, IdleTypes DEF Init
<1>1. TypeOK
  BY <1>0 DEF Init, TypeOK
<1>2. Held = {} /\ \A u \in Customers : HeldBy(u) = {}
  BY DEF Init, Held, HeldBy
<1>3. UsageExact /\ CapsKept
  <2>1. Cardinality({}) = 0
    BY FS_EmptySet
  <2>2. Cardinality(Held) = 0 /\ \A u \in Customers : Cardinality(HeldBy(u)) = 0
    BY <1>2, <2>1
  <2> QED
    BY <1>0, <2>2 DEF UsageExact, CapsKept, Init
<1>4. Backed /\ SlotIsSpent
  BY <1>2 DEF Init, Backed, SlotIsSpent, IdleTab
<1> QED
  BY <1>1, <1>3, <1>4 DEF Inv

\* A request that starts, goes on, returns or dies without touching a row.
LEMMA QuietTab ==
  ASSUME Inv, NEW t \in Tabs, NEW o \in Orders,
         \/ Begin(t, o) \/ Quote(t) \/ Lookup(t) \/ ReadOrder(t) \/ Die(t)
  PROVE  Inv'
<1>1. UNCHANGED <<terms, coupon, usage, redeemed, order, discounted, release, admin>>
  BY DEF Begin, Quote, Lookup, ReadOrder, Die
<1>2. tab \in [Tabs -> TabType] /\ tab[t] \in TabType
  BY DEF Inv, TypeOK
<1>3. PICK pc \in Working \cup {"idle", "dead"} :
        \/ pc = "idle" /\ Return(t)
        \/ pc \in Working \cup {"dead"} /\ tab[t].pc \in Working /\ Goto(t, pc)
        \/ pc = "quote" /\ tab[t].pc = "idle"
           /\ tab' = [tab EXCEPT ![t] = [pc |-> "quote", order |-> o]]
  BY DEF Begin, Quote, Lookup, ReadOrder, Die, Working
<1>4. /\ tab' \in [Tabs -> TabType] /\ tab'[t].pc = pc
      /\ \A s \in Tabs : s # t => tab'[s] = tab[s]
      /\ tab[t].pc # "idle" /\ pc # "idle" => tab'[t].order = tab[t].order
  <2>1. CASE pc = "idle" /\ Return(t)
    BY <1>2, <2>1, ReturnType
  <2>2. CASE pc \in Working \cup {"dead"} /\ tab[t].pc \in Working /\ Goto(t, pc)
    BY <1>2, <2>2, GotoType
  <2>3. CASE /\ pc = "quote" /\ tab[t].pc = "idle"
             /\ tab' = [tab EXCEPT ![t] = [pc |-> "quote", order |-> o]]
    BY <1>2, <2>3 DEF TabType, Working
  <2> QED
    BY <1>3, <2>1, <2>2, <2>3
<1>5. TypeOK'
  BY <1>1, <1>4 DEF Inv, TypeOK
<1>6. UsageExact' /\ CapsKept'
  BY <1>1, SameSlots DEF Inv
<1>7. /\ pc = "read" => redeemed[tab[t].order].state # "none" /\ tab[t].pc = "lookup"
      /\ pc = "write" => tab[t].pc = "read"
  <2>1. tab'[t].pc = "read" => Lookup(t) /\ redeemed[tab[t].order].state # "none"
    BY <1>2, <1>4 DEF Begin, Quote, Lookup, ReadOrder, Die, Goto, Return, IdleTab, TabType
  <2>2. tab'[t].pc = "write" => ReadOrder(t)
    BY <1>2, <1>4 DEF Begin, Quote, Lookup, ReadOrder, Die, Goto, Return, IdleTab, TabType
  <2> QED
    BY <1>4, <2>1, <2>2 DEF Lookup, ReadOrder
<1>8. Backed'
  BY <1>1, <1>4, <1>7 DEF Inv, Backed
<1>9. SlotIsSpent'
  <2>1. /\ tab[t].pc \in {"read", "write", "dead"} => ReadOrder(t) \/ Die(t)
        /\ Die(t) => pc = "dead" /\ tab[t].pc # "idle"
        /\ ReadOrder(t) /\ order[tab[t].order] = "pending" => pc = "write" /\ tab[t].pc = "read"
    BY <1>2, <1>4 DEF Begin, Quote, Lookup, ReadOrder, Die, Goto, Return, IdleTab, TabType, Working
  <2>2. tab[t].pc \in {"read", "write", "dead"} /\ order[tab[t].order] = "pending" =>
          pc \in {"write", "dead"} /\ tab'[t].order = tab[t].order
    BY <1>4, <2>1
  <2> QED
    BY <1>1, <1>4, <2>2 DEF Inv, SlotIsSpent, Held
<1> QED
  BY <1>5, <1>6, <1>8, <1>9 DEF Inv

LEMMA ClaimKeeps ==
  ASSUME Inv, NEW t \in Tabs, NEW u \in Customers, Claim(t, u)
  PROVE  Inv'
<1> DEFINE o == tab[t].order
<1>1. /\ tab[t].pc = "claim" /\ tab[t].pc \in Working /\ o \in Orders /\ Reserve(o, u)
      /\ UNCHANGED <<terms, coupon, order, discounted, release, admin>>
  BY TabOrder DEF Claim, Inv, Working
<1>2. tab \in [Tabs -> TabType]
  BY DEF Inv, TypeOK
<1>3. CASE Wins(o, u)
  <2>1. /\ tab' \in [Tabs -> TabType] /\ tab'[t].pc = "read" /\ tab'[t].order = o
        /\ \A s \in Tabs : s # t => tab'[s] = tab[s]
    BY <1>1, <1>2, <1>3, GotoType DEF Claim, Working
  <2>2. /\ redeemed' \in [Orders -> RowType] /\ redeemed'[o].state = "held"
        /\ \A p \in Orders : p # o => redeemed'[p] = redeemed[p]
        /\ usage' \in Nat /\ usage' = Cardinality(Held')
        /\ Cardinality(Held') <= limit
        /\ \A v \in Customers : Cardinality(HeldBy(v)') <= perUser
        /\ Held' = Held \cup {o}
    BY <1>1, <1>3, TakeSlot DEF Inv
  <2>3. TypeOK'
    BY <1>1, <2>1, <2>2 DEF Inv, TypeOK
  <2>4. UsageExact' /\ CapsKept'
    BY <1>1, <2>2 DEF UsageExact, CapsKept
  <2>5. redeemed[o].state = "none"
    BY <1>3 DEF Wins
  <2>6. Backed'
    <3>1. \A s \in Tabs : tab'[s].pc \in {"read", "write"} => tab'[s].order \in Orders
      BY <2>3, TabOrder DEF TypeOK, TabType
    <3> QED
      BY <1>1, <2>1, <2>2, <2>5, <3>1 DEF Inv, Backed
  <2>7. SlotIsSpent'
    BY <1>1, <2>1, <2>2 DEF Inv, SlotIsSpent
  <2> QED
    BY <2>3, <2>4, <2>6, <2>7 DEF Inv
<1>4. CASE ~Wins(o, u)
  <2>1. Return(t) /\ UNCHANGED <<terms, usage, redeemed>>
    BY <1>1, <1>4 DEF Claim, Reserve
  <2>2. /\ tab' \in [Tabs -> TabType] /\ tab'[t].pc = "idle"
        /\ \A s \in Tabs : s # t => tab'[s] = tab[s]
    BY <1>2, <2>1, ReturnType
  <2>3. TypeOK' /\ UsageExact' /\ CapsKept'
    BY <1>1, <2>1, <2>2, SameSlots DEF Inv, TypeOK
  <2>4. Backed' /\ SlotIsSpent'
    BY <1>1, <2>1, <2>2 DEF Inv, Backed, SlotIsSpent, Held
  <2> QED
    BY <2>3, <2>4 DEF Inv
<1> QED
  BY <1>3, <1>4

LEMMA WriteKeeps ==
  ASSUME Inv, NEW t \in Tabs, WriteDiscount(t)
  PROVE  Inv'
<1> DEFINE o == tab[t].order
<1>1. /\ tab[t].pc = "write" /\ o \in Orders /\ Return(t)
      /\ discounted' = [discounted EXCEPT ![o] = TRUE]
      /\ UNCHANGED <<terms, coupon, usage, redeemed, order, release, admin>>
  BY TabOrder DEF WriteDiscount, Inv
<1>2. /\ tab' \in [Tabs -> TabType] /\ tab'[t].pc = "idle"
      /\ \A s \in Tabs : s # t => tab'[s] = tab[s]
  BY <1>1, ReturnType DEF Inv, TypeOK
<1>3. /\ discounted' \in [Orders -> BOOLEAN] /\ discounted'[o]
      /\ \A p \in Orders : p # o => discounted'[p] = discounted[p]
  BY <1>1 DEF Inv, TypeOK
<1>4. TypeOK' /\ UsageExact' /\ CapsKept'
  BY <1>1, <1>2, <1>3, SameSlots DEF Inv, TypeOK
<1>5. Backed'
  BY <1>1, <1>2, <1>3 DEF Inv, Backed
<1>6. SlotIsSpent'
  BY <1>1, <1>2, <1>3 DEF Inv, SlotIsSpent, Held
<1> QED
  BY <1>4, <1>5, <1>6 DEF Inv

LEMMA OrderKeeps ==
  ASSUME Inv, NEW o \in Orders, OrderStep(o)
  PROVE  Inv'
<1>1. UNCHANGED <<terms, coupon, usage, redeemed, discounted, tab, admin>>
  BY DEF OrderStep, Pay, Refund, End
<1>2. UsageExact' /\ CapsKept'
  BY <1>1, SameSlots DEF Inv
<1>3. /\ order' \in [Orders -> {"pending", "processing"} \cup Ended]
      /\ release' \in [Orders \X Causes -> {"none", "due", "found", "over"}]
      /\ \A p \in Orders : order'[p] = "pending" => order[p] = "pending"
      /\ \A p \in Orders : order[p] \in Ended => order'[p] \in Ended
      /\ \A p \in Orders : release'[<<p, "ended">>] # "none" =>
           release[<<p, "ended">>] # "none" \/ order'[p] \in Ended
      /\ \A p \in Orders : release[<<p, "refunded">>] # "none" => release'[<<p, "refunded">>] # "none"
  <2>1. CASE Pay(o)
    BY <2>1 DEF Pay, Inv, TypeOK
  <2>2. CASE Refund(o)
    BY <2>2 DEF Refund, Inv, TypeOK
  <2>3. ASSUME NEW st \in Ended, End(o, st)
        PROVE  <1>3
    BY <2>3 DEF End, Inv, TypeOK
  <2> QED
    BY <2>1, <2>2, <2>3 DEF OrderStep
<1>4. TypeOK'
  BY <1>1, <1>3 DEF Inv, TypeOK
<1>5. Backed'
  BY <1>1, <1>3 DEF Inv, Backed
<1>6. SlotIsSpent'
  BY <1>1, <1>3 DEF Inv, SlotIsSpent, Held
<1> QED
  BY <1>2, <1>4, <1>5, <1>6 DEF Inv

LEMMA ReleaseKeeps ==
  ASSUME Inv, NEW r \in Orders \X Causes, ReleaseStep(r)
  PROVE  Inv'
<1>1. /\ UNCHANGED <<terms, coupon, order, discounted, tab, admin>>
      /\ release[r] # "none"
      /\ \E st \in {"found", "over"} : release' = [release EXCEPT ![r] = st]
  BY DEF ReleaseStep, FindHeld, FreeSlot, LoseRelease
<1>2. /\ release' \in [Orders \X Causes -> {"none", "due", "found", "over"}]
      /\ \A q \in Orders \X Causes : (release'[q] = "none") <=> (release[q] = "none")
  BY <1>1 DEF Inv, TypeOK
<1>3. \A o \in Orders : <<o, "ended">> \in Orders \X Causes /\ <<o, "refunded">> \in Orders \X Causes
  OBVIOUS
<1>4. CASE UNCHANGED <<usage, redeemed>>
  <2>1. TypeOK' /\ UsageExact' /\ CapsKept'
    BY <1>1, <1>2, <1>4, SameSlots DEF Inv, TypeOK
  <2>2. Backed' /\ SlotIsSpent'
    BY <1>1, <1>2, <1>3, <1>4 DEF Inv, Backed, SlotIsSpent, Held
  <2> QED
    BY <2>1, <2>2 DEF Inv
<1>5. CASE /\ r[1] \in Held
           /\ redeemed' = [redeemed EXCEPT ![r[1]].state = "released"]
           /\ usage' = usage - 1
  <2> DEFINE o == r[1]
  <2>1. /\ redeemed' \in [Orders -> RowType] /\ redeemed'[o].state = "released"
        /\ \A p \in Orders : p # o => redeemed'[p] = redeemed[p]
        /\ usage' \in Nat /\ UsageExact' /\ CapsKept'
        /\ Held' = Held \ {o}
    BY <1>1, <1>5, GiveSlot DEF Inv
  <2>2. TypeOK'
    BY <1>1, <1>2, <2>1 DEF Inv, TypeOK
  <2>3. \A p \in Orders : (redeemed'[p].state = "none") <=> (redeemed[p].state = "none")
    BY <1>5, <2>1 DEF Held
  <2>4. o \in Orders /\ (order[o] \in Ended \/ release[<<o, "refunded">>] # "none")
    <3>1. r = <<o, "ended">> \/ r = <<o, "refunded">>
      OBVIOUS
    <3> QED
      BY <1>1, <3>1 DEF Inv, Backed
  <2>5. Backed'
    <3>1. \A t \in Tabs : tab[t].pc \in {"read", "write"} => tab[t].order \in Orders
      BY TabOrder DEF Inv
    <3> QED
      BY <1>1, <1>2, <1>3, <2>1, <2>3, <2>4, <3>1 DEF Inv, Backed
  <2>6. SlotIsSpent'
    BY <1>1, <2>1 DEF Inv, SlotIsSpent
  <2> QED
    BY <2>1, <2>2, <2>5, <2>6 DEF Inv
<1> QED
  BY <1>4, <1>5 DEF ReleaseStep, FindHeld, FreeSlot, LoseRelease

LEMMA AdminKeeps ==
  ASSUME Inv, Switch \/ CountRedemptions \/ Retire \/ Delete
  PROVE  Inv'
<1>1. CASE Switch \/ CountRedemptions \/ Retire
  <2>1. /\ UNCHANGED <<terms, usage, redeemed, order, discounted, tab, release>>
        /\ coupon \in {"active", "inactive"} /\ coupon' \in {"active", "inactive"}
        /\ admin' \in {"idle", "retire", "delete"}
    BY <1>1 DEF Switch, CountRedemptions, Retire, Inv, TypeOK, Backed
  <2>2. TypeOK' /\ UsageExact' /\ CapsKept'
    BY <2>1, SameSlots DEF Inv, TypeOK
  <2>3. Backed' /\ SlotIsSpent'
    BY <2>1 DEF Inv, Backed, SlotIsSpent, Held
  <2> QED
    BY <2>2, <2>3 DEF Inv
<1>2. CASE Delete
  <2>1. /\ UNCHANGED <<terms, order, discounted, tab, release>>
        /\ coupon' = "deleted" /\ admin' = "idle" /\ usage' = 0
        /\ redeemed' = [o \in Orders |-> NoRow]
    BY <1>2 DEF Delete
  <2>2. Held' = {} /\ \A u \in Customers : HeldBy(u)' = {}
    BY <2>1 DEF Held, HeldBy
  <2>3. TypeOK'
    <3>1. redeemed' \in [Orders -> RowType]
      BY <2>1, IdleTypes
    <3> QED
      BY <2>1, <3>1 DEF Inv, TypeOK
  <2>4. UsageExact' /\ CapsKept'
    <3>1. Cardinality({}) = 0
      BY FS_EmptySet
    <3>2. Cardinality(Held') = 0 /\ \A u \in Customers : Cardinality(HeldBy(u)') = 0
      BY <2>2, <3>1
    <3>3. limit' \in Nat \ {0} /\ perUser' \in Nat \ {0}
      BY <2>3 DEF TypeOK
    <3> QED
      BY <2>1, <3>2, <3>3 DEF UsageExact, CapsKept
  <2>5. Backed' /\ SlotIsSpent'
    BY <2>1, <2>2 DEF Inv, Backed, SlotIsSpent
  <2> QED
    BY <2>3, <2>4, <2>5 DEF Inv
<1> QED
  BY <1>1, <1>2

\* The invariant is inductive.
LEMMA InvStep == Inv /\ [Next]_vars => Inv'
<1> SUFFICES ASSUME Inv, [Next]_vars PROVE Inv'
  OBVIOUS
<1>1. CASE UNCHANGED vars
  <2>1. UNCHANGED <<terms, usage, redeemed, coupon, order, discounted, tab, release, admin>>
    BY <1>1 DEF vars
  <2>2. TypeOK' /\ UsageExact' /\ CapsKept'
    BY <2>1, SameSlots DEF Inv, TypeOK
  <2>3. Backed' /\ SlotIsSpent'
    BY <2>1 DEF Inv, Backed, SlotIsSpent, Held
  <2> QED
    BY <2>2, <2>3 DEF Inv
<1>2. ASSUME NEW t \in Tabs, NEW o \in Orders, Begin(t, o) PROVE Inv'
  BY <1>2, QuietTab
<1>3. ASSUME NEW t \in Tabs, TabStep(t) PROVE Inv'
  <2>1. PICK o \in Orders : TRUE
    BY CouponAssumption
  <2> QED
    BY <1>3, <2>1, QuietTab, ClaimKeeps, WriteKeeps DEF TabStep
<1> QED
  BY <1>1, <1>2, <1>3, OrderKeeps, ReleaseKeeps, AdminKeeps DEF Next

LEMMA Invariance == Spec => []Inv
  BY InvInit, InvStep, PTL DEF Spec

-----------------------------------------------------------------------------
(* Theorems                                                                *)

\* Every variable keeps its type: usageCount never goes below zero, and every
\* row names a customer.
THEOREM CouponTypes == Spec => []TypeOK
  BY Invariance, PTL DEF Inv

\* usageCount counts exactly the slots held, however many checkouts and releases
\* race, die or are lost.
THEOREM SlotsCounted == Spec => []UsageExact
  BY Invariance, PTL DEF Inv

\* The code is never spent beyond its limit, nor beyond the limit per customer.
THEOREM LimitsHold == Spec => []CapsKept
  BY Invariance, PTL DEF Inv

\* Every discount on a live order is counted, while the coupon exists.
THEOREM NoUncountedDiscount == Spec => []DiscountCounted
<1>1. Inv => DiscountCounted
  <2> SUFFICES ASSUME Inv, coupon # "deleted", NEW o \in Orders, discounted[o],
                      order[o] \notin Ended, release[<<o, "refunded">>] = "none"
               PROVE  o \in Held
    BY DEF DiscountCounted
  <2>1. redeemed[o].state # "none" /\ redeemed[o].state # "released"
    BY DEF Inv, Backed
  <2>2. redeemed[o] \in RowType
    BY DEF Inv, TypeOK
  <2>3. redeemed[o].state \in {"none", "held", "released"}
    BY <2>2 DEF RowType
  <2> QED
    BY <2>1, <2>3 DEF Held
<1> QED
  BY <1>1, Invariance, PTL

\* A slot on a pending order is spent on it unless the checkout that took it died.
THEOREM SlotNotWasted == Spec => []SlotIsSpent
  BY Invariance, PTL DEF Inv

\* Slot and discount of a live order go together.
THEOREM SlotAndDiscountAgree == Spec => []DiscountMatchesSlot
<1>1. DiscountCounted /\ SlotIsSpent => DiscountMatchesSlot
  BY DEF DiscountMatchesSlot
<1> QED
  BY <1>1, NoUncountedDiscount, SlotNotWasted, PTL

=============================================================================
