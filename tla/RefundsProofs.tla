--------------------------- MODULE RefundsProofs ---------------------------
(***************************************************************************)
(* Theorems about Refunds, for any total, any number of keys, concurrent   *)
(* refund() calls and webhook deliveries.                                  *)
(***************************************************************************)
EXTENDS Refunds, FiniteSetTheorems, TLAPS

-----------------------------------------------------------------------------
(* How a tally changes when one value of the function changes              *)

LEMMA UnitsFinite ==
  ASSUME NEW X, IsFiniteSet(X), NEW N \in Nat, NEW h \in [X -> 0 .. N]
  PROVE  IsFiniteSet(UnitsOf(X, N, h))
<1>1. IsFiniteSet(1 .. N)
  BY FS_Interval
<1>2. IsFiniteSet(X \X (1 .. N))
  BY <1>1, FS_Product
<1>3. UnitsOf(X, N, h) \subseteq X \X (1 .. N)
  BY DEF UnitsOf
<1> QED
  BY <1>2, <1>3, FS_Subset

\* A tally is a natural number.
LEMMA TallyType ==
  ASSUME NEW X, IsFiniteSet(X), NEW N \in Nat, NEW h \in [X -> 0 .. N]
  PROVE  Tally(X, N, h) \in Nat
  BY UnitsFinite, FS_CardinalityType DEF Tally

LEMMA UnitsCount ==
  ASSUME NEW x, NEW q \in Nat
  PROVE  IsFiniteSet({x} \X (1 .. q)) /\ Cardinality({x} \X (1 .. q)) = q
<1>1. IsFiniteSet({x}) /\ Cardinality({x}) = 1
  BY FS_Singleton
<1>2. IsFiniteSet(1 .. q) /\ Cardinality(1 .. q) = q
  BY FS_Interval
<1>3. IsFiniteSet({x} \X (1 .. q)) /\ Cardinality({x} \X (1 .. q)) = Cardinality({x}) * Cardinality(1 .. q)
  BY <1>1, <1>2, FS_Product
<1> QED
  BY <1>1, <1>2, <1>3

\* Without the units of x, a tally is smaller by the value at x.
LEMMA TallyWithout ==
  ASSUME NEW X, IsFiniteSet(X), NEW N \in Nat, NEW h \in [X -> 0 .. N], NEW x \in X
  PROVE  /\ Tally(X, N, [h EXCEPT ![x] = 0]) \in Nat
         /\ Tally(X, N, h) = Tally(X, N, [h EXCEPT ![x] = 0]) + h[x]
<1> DEFINE g == [h EXCEPT ![x] = 0]
<1> DEFINE A == UnitsOf(X, N, g)
<1> DEFINE B == {x} \X (1 .. h[x])
<1>1. g \in [X -> 0 .. N] /\ g[x] = 0 /\ \A y \in X : y # x => g[y] = h[y]
  OBVIOUS
<1>2. h[x] \in Nat /\ h[x] <= N
  OBVIOUS
<1> HIDE DEF g
<1>3. UnitsOf(X, N, h) = A \cup B
  <2>1. \A u \in X \X (1 .. N) : u \in UnitsOf(X, N, h) <=> u \in A \/ u \in B
    <3>1. /\ UnitsOf(X, N, h) = {u \in X \X (1 .. N) : u[2] <= h[u[1]]}
          /\ A = {u \in X \X (1 .. N) : u[2] <= g[u[1]]}
      BY <1>1 DEF UnitsOf
    <3> HIDE DEF A
    <3> SUFFICES ASSUME NEW y \in X, NEW i \in 1 .. N
                 PROVE  <<y, i>> \in UnitsOf(X, N, h) <=> <<y, i>> \in A \/ <<y, i>> \in B
      OBVIOUS
    <3>2. /\ <<y, i>> \in UnitsOf(X, N, h) <=> i <= h[y]
          /\ <<y, i>> \in A <=> i <= g[y]
          /\ <<y, i>> \in B <=> y = x /\ i <= h[x]
      BY <3>1, <1>2
    <3> QED
      BY <3>2, <1>1, <1>2
  <2>2. B \subseteq X \X (1 .. N)
    BY <1>2
  <2>3. A \subseteq X \X (1 .. N) /\ UnitsOf(X, N, h) \subseteq X \X (1 .. N)
    BY <1>1 DEF UnitsOf
  <2> QED
    BY <2>1, <2>2, <2>3
<1>4. A \cap B = {}
  BY <1>1 DEF UnitsOf
<1>5. IsFiniteSet(A)
  BY <1>1, UnitsFinite
<1>6. IsFiniteSet(B) /\ Cardinality(B) = h[x]
  BY <1>2, UnitsCount
<1> HIDE DEF A, B
<1>7. Cardinality(A \cup B) = Cardinality(A) + Cardinality(B) - Cardinality({})
  BY <1>4, <1>5, <1>6, FS_Union
<1>8. Cardinality({}) = 0 /\ Cardinality(A) \in Nat
  BY <1>5, FS_EmptySet, FS_CardinalityType
<1> QED
  BY <1>2, <1>3, <1>6, <1>7, <1>8 DEF Tally, A, g

\* Functions that differ at one point have tallies that differ by as much.
LEMMA TallyChange ==
  ASSUME NEW X, IsFiniteSet(X), NEW N \in Nat, NEW h \in [X -> 0 .. N], NEW g \in [X -> 0 .. N],
         NEW x \in X, \A y \in X : y # x => g[y] = h[y]
  PROVE  Tally(X, N, g) = Tally(X, N, h) - h[x] + g[x]
<1>1. [g EXCEPT ![x] = 0] = [h EXCEPT ![x] = 0]
  OBVIOUS
<1>2. h[x] \in Nat /\ g[x] \in Nat
  OBVIOUS
<1>3. Tally(X, N, g) = Tally(X, N, [g EXCEPT ![x] = 0]) + g[x]
  BY TallyWithout
<1>4. /\ Tally(X, N, h) = Tally(X, N, [h EXCEPT ![x] = 0]) + h[x]
      /\ Tally(X, N, [h EXCEPT ![x] = 0]) \in Nat
  BY TallyWithout
<1> QED
  BY <1>1, <1>2, <1>3, <1>4

\* A function that is larger everywhere has the larger tally.
LEMMA TallyMonotone ==
  ASSUME NEW X, IsFiniteSet(X), NEW N \in Nat, NEW g \in [X -> 0 .. N], NEW h \in [X -> 0 .. N],
         \A x \in X : g[x] <= h[x]
  PROVE  Tally(X, N, g) <= Tally(X, N, h)
<1>1. UnitsOf(X, N, g) \subseteq UnitsOf(X, N, h)
  <2>1. /\ UnitsOf(X, N, h) = {u \in X \X (1 .. N) : u[2] <= h[u[1]]}
        /\ UnitsOf(X, N, g) = {u \in X \X (1 .. N) : u[2] <= g[u[1]]}
    BY DEF UnitsOf
  <2> SUFFICES ASSUME NEW y \in X, NEW i \in 1 .. N, i <= g[y]
               PROVE  i <= h[y]
    BY <2>1
  <2> QED
    OBVIOUS
<1> QED
  BY <1>1, UnitsFinite, FS_Subset DEF Tally

LEMMA TallyZero ==
  ASSUME NEW X, NEW N \in Nat
  PROVE  Tally(X, N, [x \in X |-> 0]) = 0
<1>1. \A i \in 1 .. N : ~(i <= 0)
  OBVIOUS
<1>2. UnitsOf(X, N, [x \in X |-> 0]) = {}
  BY <1>1 DEF UnitsOf
<1> QED
  BY <1>2, FS_EmptySet DEF Tally

-----------------------------------------------------------------------------
USE DEF sale

(***************************************************************************)
(* The invariant, in named parts.                                          *)
(***************************************************************************)

\* TypeOK without the sign of refundedTotal, which the ledger gives.
Types ==
  /\ order \in {"processing", "shipped", "delivered", "cancelled"}
  /\ method \in {"sync", "webhook"}
  /\ coupon \in {"held", "released"}
  /\ refunded \in Int
  /\ row \in [Keys -> RowType]
  /\ ledger \in [Events -> {"none", "open", "applied"}]
  /\ notices \in Nat
  /\ psp \in [Keys -> {"none", "accepted", "succeeded", "failed"}]
  /\ emitted \subseteq Events
  /\ asked \in [Keys -> Nat]
  /\ call \in [Calls -> CallType]
  /\ hook \in [Deliveries -> HookType]

\* What a call or a delivery under way knows.
Busy ==
  /\ \A c \in Calls : call[c].pc # "idle" => call[c].key \in Keys /\ call[c].amount >= 1
  /\ \A d \in Deliveries :
       hook[d].pc # "idle" => /\ hook[d].key \in Keys
                              /\ hook[d].kind \in {"succeeded", "failed"}
                              /\ <<hook[d].key, hook[d].kind>> \in emitted

\* A call that wrote its row and has not stored the provider's answer yet.
Owns(c) == call[c].pc \in {"ask", "rollback", "store"}

\* The row of a key has one writer, and the provider is asked by it alone.
Owners ==
  /\ \A c \in Calls : Owns(c) => /\ row[call[c].key].status = "pending"
                                 /\ row[call[c].key].refundId = "null"
                                 /\ row[call[c].key].amount = call[c].amount
  /\ \A b, c \in Calls : Owns(b) /\ Owns(c) /\ call[b].key = call[c].key => b = c
  /\ \A c \in Calls : call[c].pc = "ask" => asked[call[c].key] = 0 /\ psp[call[c].key] = "none"
  /\ \A k \in Keys : row[k].status = "none" => asked[k] = 0 /\ psp[k] = "none"
  /\ \A c \in Calls : call[c].pc = "confirm" => row[call[c].key].refundId = "stored"
  /\ \A k \in Keys : row[k].refundId = "stored" => row[k].status # "none"
  /\ \A k \in Keys : asked[k] <= 1

\* What the provider reports is what it did, of a refund it was asked for.
Reports ==
  /\ \A e \in emitted : psp[e[1]] # "none"
  /\ \A k \in Keys : <<k, "failed">> \in emitted => psp[k] = "failed"

Shape == Types /\ Busy /\ Owners /\ Reports

-----------------------------------------------------------------------------
(* Updates of one field                                                    *)

LEMMA GotoType ==
  ASSUME call \in [Calls -> CallType], NEW c \in Calls, NEW pc \in CallStates, Goto(c, pc)
  PROVE  /\ call' \in [Calls -> CallType]
         /\ call'[c].pc = pc /\ call'[c].key = call[c].key /\ call'[c].amount = call[c].amount
         /\ \A b \in Calls : b # c => call'[b] = call[b]
  BY DEF Goto, CallType

LEMMA ReturnType ==
  ASSUME call \in [Calls -> CallType], NEW c \in Calls, Return(c)
  PROVE  /\ call' \in [Calls -> CallType]
         /\ call'[c].pc = "idle"
         /\ \A b \in Calls : b # c => call'[b] = call[b]
  BY RefundAssumption DEF Return, CallType, IdleCall, CallStates, Amounts

LEMMA GotoHookType ==
  ASSUME hook \in [Deliveries -> HookType], NEW d \in Deliveries, NEW pc \in HookStates,
         GotoHook(d, pc)
  PROVE  /\ hook' \in [Deliveries -> HookType]
         /\ hook'[d].pc = pc /\ hook'[d].key = hook[d].key /\ hook'[d].kind = hook[d].kind
         /\ \A e \in Deliveries : e # d => hook'[e] = hook[e]
  BY DEF GotoHook, HookType

LEMMA StatusType ==
  ASSUME row \in [Keys -> RowType], NEW k \in Keys,
         NEW st \in {"pending", "succeeded", "failed"}, row' = [row EXCEPT ![k].status = st]
  PROVE  /\ row' \in [Keys -> RowType]
         /\ row'[k].status = st /\ row'[k].refundId = row[k].refundId /\ row'[k].amount = row[k].amount
         /\ \A l \in Keys : l # k => row'[l] = row[l]
  BY DEF RowType

LEMMA KnownType ==
  ASSUME row \in [Keys -> RowType], NEW k \in Keys, row' = [row EXCEPT ![k].refundId = "stored"]
  PROVE  /\ row' \in [Keys -> RowType]
         /\ row'[k].status = row[k].status /\ row'[k].refundId = "stored" /\ row'[k].amount = row[k].amount
         /\ \A l \in Keys : l # k => row'[l] = row[l]
  BY DEF RowType

-----------------------------------------------------------------------------
(* The shape of the state                                                  *)

LEMMA ShapeInit == Init => Shape
  BY RefundAssumption
  DEF Init, Shape, Types, Busy, Owners, Owns, Reports, NoRow, IdleCall, IdleHook, RowType,
      CallType, HookType, CallStates, HookStates, Amounts, Events

\* A step of a call that leaves the rows and the provider alone.
LEMMA ShapeQuiet ==
  ASSUME Shape, NEW c \in Calls, UNCHANGED <<order, method, row, ledger, provider, hook>>,
         coupon' \in {"held", "released"}, refunded' \in Int, notices' \in Nat,
         call' \in [Calls -> CallType],
         \A b \in Calls : b # c => call'[b] = call[b],
         call'[c].pc \notin {"ask", "rollback", "store", "confirm"},
         call'[c].pc # "idle" => call'[c].key \in Keys /\ call'[c].amount >= 1
  PROVE  Shape'
<1> USE DEF Shape, provider
<1>1. Types'
  BY DEF Types
<1>2. Busy'
  BY DEF Busy
<1>3. Owners'
  BY DEF Owners, Owns
<1>4. Reports'
  BY DEF Reports
<1> QED
  BY <1>1, <1>2, <1>3, <1>4

LEMMA ShapeCall ==
  ASSUME Shape, NEW c \in Calls, CallStep(c) \/ CrashCall(c)
  PROVE  Shape'
<1> DEFINE k == call[c].key
<1>0. /\ call \in [Calls -> CallType] /\ row \in [Keys -> RowType] /\ refunded \in Int
      /\ notices \in Nat /\ call[c].amount \in Amounts /\ Amounts \subseteq Int
      /\ coupon \in {"held", "released"}
      /\ call[c].pc # "idle" /\ k \in Keys /\ call[c].amount >= 1
  BY RefundAssumption
  DEF Shape, Types, Busy, CallType, Amounts, CallStep, CrashCall, LookupKey, Reserve, InsertRow,
      Undo, AskProvider, Rollback, Store, ConfirmInline, SumInline, ReleaseInline, Review, Cancel
<1>1. ASSUME \/ LookupKey(c) \/ Reserve(c) \/ Undo(c) \/ SumInline(c) \/ ReleaseInline(c)
             \/ Review(c) \/ CrashCall(c)
      PROVE  Shape'
  <2>1. PICK pc \in {"idle", "reserve", "insert", "review", "release", "cancel"} :
          \/ pc = "idle" /\ Return(c)
          \/ Goto(c, pc)
    BY <1>1 DEF LookupKey, Reserve, Undo, SumInline, ReleaseInline, Review, CrashCall
  <2>2. /\ call' \in [Calls -> CallType]
        /\ \A b \in Calls : b # c => call'[b] = call[b]
        /\ call'[c].pc \notin {"ask", "rollback", "store", "confirm"}
        /\ call'[c].pc # "idle" => call'[c].key \in Keys /\ call'[c].amount >= 1
    BY <1>0, <2>1, GotoType, ReturnType DEF CallStates
  <2>3. UNCHANGED <<order, method, row, ledger, provider, hook>> /\ coupon' \in {"held", "released"}
    BY <1>0, <1>1 DEF LookupKey, Reserve, Undo, SumInline, ReleaseInline, Review, CrashCall, books
  <2>4. refunded' \in Int /\ notices' \in Nat
    <3>1. /\ refunded' = refunded \/ refunded' = refunded + call[c].amount
             \/ refunded' = refunded - call[c].amount
          /\ notices' = notices \/ notices' = notices + 1
      BY <1>1 DEF LookupKey, Reserve, Undo, SumInline, ReleaseInline, Review, CrashCall, books
    <3>2. call[c].amount \in Int
      BY <1>0
    <3> QED
      BY <1>0, <3>1, <3>2
  <2> QED
    BY <2>2, <2>3, <2>4, ShapeQuiet
<1>2. CASE InsertRow(c)
  <2>1. CASE row[k].status # "none"
    <3>1. Goto(c, "undo") /\ UNCHANGED <<sale, row, ledger, provider, hook, refunded, notices>>
      BY <1>2, <2>1 DEF InsertRow
    <3> QED
      BY <1>0, <3>1, GotoType, ShapeQuiet DEF CallStates
  <2>2. CASE row[k].status = "none"
    <3> DEFINE r == [status |-> "pending", amount |-> call[c].amount, refundId |-> "null"]
    <3>1. /\ Goto(c, "ask") /\ row' = [row EXCEPT ![k] = r]
          /\ UNCHANGED <<sale, refunded, ledger, notices, psp, emitted, asked, hook>>
      BY <1>2, <2>2 DEF InsertRow, provider
    <3>2. r \in RowType
      BY <1>0 DEF RowType
    <3>3. /\ row' \in [Keys -> RowType] /\ row'[k] = r
          /\ \A l \in Keys : l # k => row'[l] = row[l]
      BY <1>0, <3>1, <3>2
    <3>4. /\ call' \in [Calls -> CallType] /\ call'[c].pc = "ask" /\ call'[c].key = k
          /\ call'[c].amount = call[c].amount /\ \A b \in Calls : b # c => call'[b] = call[b]
      BY <1>0, <3>1, GotoType DEF CallStates
    <3>5. \A b \in Calls : Owns(b) => call[b].key \in Keys /\ call[b].key # k
      BY <2>2 DEF Shape, Owners, Owns, Busy
    <3>6. Types'
      BY <3>1, <3>3, <3>4 DEF Shape, Types
    <3>7. Busy'
      BY <1>0, <3>1, <3>3, <3>4 DEF Shape, Busy
    <3>8. Owners'
      BY <1>0, <2>2, <3>1, <3>3, <3>4, <3>5 DEF Shape, Owners, Owns
    <3>9. Reports'
      BY <3>1 DEF Shape, Reports
    <3> QED
      BY <3>6, <3>7, <3>8, <3>9 DEF Shape
  <2> QED
    BY <2>1, <2>2
<1>3. CASE AskProvider(c)
  <2>1. PICK pc \in {"rollback", "store"}, st \in {"none", "accepted", "succeeded"} :
          Goto(c, pc) /\ psp' = [psp EXCEPT ![k] = st]
    BY <1>0, <1>3 DEF AskProvider, Shape, Types, Owners
  <2>2. /\ call[c].pc = "ask" /\ asked' = [asked EXCEPT ![k] = @ + 1]
        /\ UNCHANGED <<sale, refunded, row, ledger, notices, emitted, hook>>
    BY <1>3 DEF AskProvider, books
  <2>3. /\ call' \in [Calls -> CallType] /\ call'[c].pc = pc /\ call'[c].key = k
        /\ call'[c].amount = call[c].amount /\ \A b \in Calls : b # c => call'[b] = call[b]
    BY <1>0, <2>1, GotoType DEF CallStates
  <2>4. Types'
    BY <1>0, <2>1, <2>2, <2>3 DEF Shape, Types
  <2>5. Busy'
    BY <1>0, <2>2, <2>3 DEF Shape, Busy
  <2>6. /\ psp[k] = "none" /\ asked[k] = 0 /\ row[k].status = "pending"
        /\ \A b \in Calls : Owns(b) /\ b # c => call[b].key \in Keys /\ call[b].key # k
    BY <1>0, <2>2 DEF Shape, Owners, Owns, Busy
  <2>7. /\ psp' \in [Keys -> {"none", "accepted", "succeeded", "failed"}]
        /\ asked'[k] = 1 /\ \A l \in Keys : l # k => psp'[l] = psp[l] /\ asked'[l] = asked[l]
    BY <1>0, <2>1, <2>2, <2>6 DEF Shape, Types
  <2>8. Owners'
    BY <1>0, <2>1, <2>2, <2>3, <2>6, <2>7 DEF Shape, Owners, Owns, Busy
  <2>9. Reports'
    <3>1. \A e \in emitted : e[1] \in Keys /\ e[1] # k
      BY <2>6 DEF Shape, Types, Reports, Events
    <3>2. <<k, "failed">> \notin emitted
      BY <3>1
    <3> QED
      BY <2>2, <2>7, <3>1, <3>2 DEF Shape, Reports
  <2> QED
    BY <2>4, <2>5, <2>8, <2>9 DEF Shape
<1>4. CASE Rollback(c) \/ Store(c)
  <2>1. Owns(c) /\ row[k].status = "pending"
    BY <1>0, <1>4 DEF Rollback, Store, Owns, Shape, Owners
  <2>2. PICK pc \in {"idle", "confirm", "review"} : (pc = "idle" /\ Return(c)) \/ Goto(c, pc)
    BY <1>4 DEF Rollback, Store
  <2>3. /\ call' \in [Calls -> CallType] /\ call'[c].pc \in {"idle", "confirm", "review"}
        /\ call'[c].pc # "idle" => call'[c].key = k /\ call'[c].amount = call[c].amount
        /\ \A b \in Calls : b # c => call'[b] = call[b]
    BY <1>0, <2>2, GotoType, ReturnType DEF CallStates
  <2>4. /\ row' \in [Keys -> RowType] /\ row'[k].status \in {"pending", "failed"}
        /\ call'[c].pc = "confirm" => row'[k].refundId = "stored"
        /\ \A l \in Keys : l # k => row'[l] = row[l]
    <3>1. CASE Rollback(c)
      BY <1>0, <3>1, <2>1, StatusType, ReturnType DEF Rollback
    <3>2. CASE Store(c)
      BY <1>0, <3>2, <2>1, KnownType DEF Store
    <3> QED
      BY <1>4, <3>1, <3>2
  <2>5. /\ UNCHANGED <<sale, ledger, notices, psp, emitted, asked, hook>>
        /\ refunded' \in Int
    BY <1>0, <1>4 DEF Rollback, Store, provider
  <2>6. Types'
    BY <2>3, <2>4, <2>5 DEF Shape, Types
  <2>7. Busy'
    BY <1>0, <2>3, <2>5 DEF Shape, Busy
  <2>8. \A b \in Calls : Owns(b) /\ b # c => call[b].key \in Keys /\ call[b].key # k
    BY <1>0, <2>1 DEF Shape, Owners, Owns, Busy
  <2>9. Owners'
    <3>1. row[k].refundId = "null"
      BY <1>0, <2>1 DEF Shape, Owners
    <3> QED
      BY <1>0, <2>1, <2>3, <2>4, <2>5, <2>8, <3>1 DEF Shape, Owners, Owns, Busy
  <2>10. Reports'
    BY <2>5 DEF Shape, Reports
  <2> QED
    BY <2>6, <2>7, <2>9, <2>10 DEF Shape
<1>5. CASE ConfirmInline(c)
  <2>1. /\ call[c].pc = "confirm"
        /\ UNCHANGED <<sale, refunded, ledger, notices, psp, emitted, asked, hook>>
    BY <1>5 DEF ConfirmInline, provider
  <2>2. PICK pc \in {"total", "review"} : Goto(c, pc)
    BY <1>5 DEF ConfirmInline
  <2>3. /\ call' \in [Calls -> CallType] /\ call'[c].pc = pc
        /\ call'[c].key = k /\ call'[c].amount = call[c].amount
        /\ \A b \in Calls : b # c => call'[b] = call[b]
    BY <1>0, <2>2, GotoType DEF CallStates
  <2>4. CASE row[k].status # "pending"
    <3>1. UNCHANGED row
      BY <1>5, <2>4 DEF ConfirmInline
    <3> QED
      BY <1>0, <2>1, <2>3, <3>1, ShapeQuiet DEF provider
  <2>5. CASE row[k].status = "pending"
    <3>1. row' = [row EXCEPT ![k].status = "succeeded"]
      BY <1>5, <2>5 DEF ConfirmInline
    <3>2. /\ row' \in [Keys -> RowType] /\ row'[k].status = "succeeded"
          /\ row'[k].refundId = row[k].refundId /\ \A l \in Keys : l # k => row'[l] = row[l]
      BY <1>0, <3>1, StatusType
    <3>3. row[k].refundId = "stored"
      BY <1>0, <2>1 DEF Shape, Owners
    <3>4. \A b \in Calls : Owns(b) => call[b].key \in Keys /\ call[b].key # k
      BY <3>3 DEF Shape, Owners, Owns, Busy
    <3>5. Types'
      BY <2>1, <2>3, <3>2 DEF Shape, Types
    <3>6. Busy'
      BY <1>0, <2>1, <2>3 DEF Shape, Busy
    <3>7. Owners'
      <4>1. /\ psp' = psp /\ asked' = asked /\ ~Owns(c)'
            /\ \A b \in Calls : call'[b].pc \in {"ask", "rollback", "store", "confirm"} => call'[b] = call[b]
        BY <2>1, <2>3 DEF Owns
      <4>2. \A b \in Calls : Owns(b) => row'[call[b].key] = row[call[b].key]
        BY <3>2, <3>4
      <4>3. /\ \A l \in Keys : row'[l].status = "none" => row[l].status = "none"
            /\ \A l \in Keys : row'[l].refundId = row[l].refundId
            /\ \A l \in Keys : row'[l].refundId = "stored" => row'[l].status # "none"
        BY <1>0, <3>2 DEF Shape, Owners
      <4>4. \A b \in Calls : call[b].pc = "confirm" => call[b].key \in Keys
        BY DEF Shape, Busy
      <4> QED
        BY <4>1, <4>2, <4>3, <4>4 DEF Shape, Owners, Owns
    <3>8. Reports'
      BY <2>1 DEF Shape, Reports
    <3> QED
      BY <3>5, <3>6, <3>7, <3>8 DEF Shape
  <2> QED
    BY <2>4, <2>5
<1>6. CASE Cancel(c)
  <2>1. /\ order' = "cancelled" /\ coupon' = "released" /\ Return(c)
        /\ UNCHANGED <<method, refunded, row, ledger, notices, psp, emitted, asked, hook>>
    BY <1>6 DEF Cancel, books, provider
  <2>2. /\ call' \in [Calls -> CallType] /\ call'[c].pc = "idle"
        /\ \A b \in Calls : b # c => call'[b] = call[b]
    BY <1>0, <2>1, ReturnType
  <2>3. Types' /\ Busy'
    BY <2>1, <2>2 DEF Shape, Types, Busy
  <2>4. Owners' /\ Reports'
    BY <2>1, <2>2 DEF Shape, Owners, Owns, Reports
  <2> QED
    BY <2>3, <2>4 DEF Shape
<1> QED
  BY <1>1, <1>2, <1>3, <1>4, <1>5, <1>6 DEF CallStep

LEMMA ShapeRequest ==
  ASSUME Shape, NEW c \in Calls, NEW k \in Keys, NEW a \in 1 .. Total, Request(c, k, a)
  PROVE  Shape'
<1> DEFINE r == [pc |-> "lookup", key |-> k, amount |-> a]
<1>1. a \in Amounts /\ a >= 1
  BY RefundAssumption DEF Amounts
<1>2. r \in CallType
  BY <1>1 DEF CallType, CallStates
<1>3. /\ call' = [call EXCEPT ![c] = r] /\ call \in [Calls -> CallType]
      /\ UNCHANGED <<sale, row, ledger, provider, hook, refunded, notices>>
      /\ refunded \in Int /\ notices \in Nat /\ coupon \in {"held", "released"}
  BY DEF Request, books, Shape, Types
<1>4. /\ call' \in [Calls -> CallType] /\ call'[c] = r
      /\ \A b \in Calls : b # c => call'[b] = call[b]
  BY <1>2, <1>3
<1> QED
  BY <1>1, <1>3, <1>4, ShapeQuiet

LEMMA ShapeHook ==
  ASSUME Shape, NEW d \in Deliveries, HookStep(d) \/ CrashDelivery(d)
  PROVE  Shape'
<1> DEFINE k == hook[d].key
<1>0. /\ hook \in [Deliveries -> HookType] /\ row \in [Keys -> RowType] /\ refunded \in Int
      /\ notices \in Nat /\ hook[d].pc # "idle" /\ k \in Keys
      /\ hook[d].kind \in {"succeeded", "failed"} /\ <<k, hook[d].kind>> \in emitted
      /\ <<k, hook[d].kind>> \in Events
      /\ row[k].amount \in Int
  BY RefundAssumption
  DEF Shape, Types, Busy, RowType, Amounts, Events, HookStep, CrashDelivery, Flip, SumHook,
      ReleaseHook, GiveBack, Acknowledge
<1>1. /\ UNCHANGED <<order, method, psp, emitted, asked, call>>
      /\ coupon' \in {"held", "released"}
  BY DEF Shape, Types, HookStep, CrashDelivery, Flip, SumHook, ReleaseHook, GiveBack, Acknowledge, provider, books
<1>2. PICK pc \in {"idle", "total", "giveback", "release", "ack"} :
        \/ pc = "idle" /\ hook' = [hook EXCEPT ![d] = IdleHook]
        \/ GotoHook(d, pc)
  BY DEF HookStep, CrashDelivery, Flip, SumHook, ReleaseHook, GiveBack, Acknowledge
<1>3. /\ hook' \in [Deliveries -> HookType]
      /\ hook'[d].pc # "idle" => hook'[d].key = k /\ hook'[d].kind = hook[d].kind
      /\ \A e \in Deliveries : e # d => hook'[e] = hook[e]
  <2>1. CASE hook' = [hook EXCEPT ![d] = IdleHook]
    BY <1>0, <2>1, RefundAssumption DEF IdleHook, HookType, HookStates
  <2>2. CASE GotoHook(d, pc)
    BY <1>0, <2>2, GotoHookType DEF HookStates
  <2> QED
    BY <1>2, <2>1, <2>2
<1>4. Busy'
  BY <1>0, <1>1, <1>3 DEF Shape, Busy
<1>5. Reports'
  BY <1>1 DEF Shape, Reports
<1>6. CASE Flip(d) /\ Flips(d)
  <2>1. /\ row' = [row EXCEPT ![k].status = hook[d].kind]
        /\ UNCHANGED <<refunded, ledger, notices>>
    BY <1>6 DEF Flip
  <2>2. /\ row[k].refundId = "stored" /\ row' \in [Keys -> RowType] /\ row'[k].status = hook[d].kind
        /\ row'[k].refundId = row[k].refundId /\ \A l \in Keys : l # k => row'[l] = row[l]
    BY <1>0, <1>6, <2>1, StatusType DEF Flips
  <2>3. \A b \in Calls : Owns(b) => call[b].key \in Keys /\ call[b].key # k
    BY <2>2 DEF Shape, Owners, Owns, Busy
  <2>4. Types'
    BY <1>1, <1>3, <2>1, <2>2 DEF Shape, Types
  <2>5. Owners'
    <3>1. call' = call /\ psp' = psp /\ asked' = asked
      BY <1>1
    <3>2. \A b \in Calls : Owns(b) => row'[call[b].key] = row[call[b].key]
      BY <2>2, <2>3
    <3>3. /\ \A l \in Keys : row'[l].status = "none" => row[l].status = "none"
          /\ \A l \in Keys : row'[l].refundId = row[l].refundId
          /\ \A l \in Keys : row'[l].refundId = "stored" => row'[l].status # "none"
      BY <1>0, <2>2 DEF Shape, Owners
    <3>4. \A b \in Calls : call[b].pc = "confirm" => call[b].key \in Keys
      BY DEF Shape, Busy
    <3>5. Owns(d)' = Owns(d) /\ \A b \in Calls : Owns(b)' <=> Owns(b)
      BY <3>1 DEF Owns
    <3>6. \A b \in Calls : Owns(b) => /\ row'[call[b].key].status = "pending"
                                     /\ row'[call[b].key].refundId = "null"
                                     /\ row'[call[b].key].amount = call[b].amount
      BY <3>2 DEF Shape, Owners
    <3>7. \A a, b \in Calls : Owns(a) /\ Owns(b) /\ call[a].key = call[b].key => a = b
      BY DEF Shape, Owners
    <3>8. \A b \in Calls : call[b].pc = "confirm" => row'[call[b].key].refundId = "stored"
      BY <3>3, <3>4 DEF Shape, Owners
    <3>9. /\ \A l \in Keys : row'[l].status = "none" => asked[l] = 0 /\ psp[l] = "none"
          /\ \A l \in Keys : asked[l] <= 1
      BY <3>3 DEF Shape, Owners
    <3>10. \A b \in Calls : call[b].pc = "ask" => asked[call[b].key] = 0 /\ psp[call[b].key] = "none"
      BY DEF Shape, Owners
    <3> QED
      BY <3>1, <3>3, <3>5, <3>6, <3>7, <3>8, <3>9, <3>10 DEF Owners
  <2> QED
    BY <1>4, <1>5, <2>4, <2>5 DEF Shape
<1>7. CASE ~(Flip(d) /\ Flips(d))
  <2>1. UNCHANGED row /\ refunded' \in Int /\ notices' \in Nat
    BY <1>0, <1>7
    DEF HookStep, CrashDelivery, Flip, SumHook, ReleaseHook, GiveBack, Acknowledge, books
  <2>2. ledger' \in [Events -> {"none", "open", "applied"}]
    BY <1>0
    DEF Shape, Types, HookStep, CrashDelivery, Flip, SumHook, ReleaseHook, GiveBack, Acknowledge, books
  <2>3. Types'
    BY <1>1, <1>3, <2>1, <2>2 DEF Shape, Types
  <2>4. Owners'
    BY <1>1, <2>1 DEF Shape, Owners, Owns
  <2> QED
    BY <1>4, <1>5, <2>3, <2>4 DEF Shape
<1> QED
  BY <1>6, <1>7

LEMMA ShapeDeliver ==
  ASSUME Shape, NEW d \in Deliveries, NEW e \in Events, Deliver(d, e)
  PROVE  Shape'
<1> DEFINE r == [pc |-> "flip", key |-> e[1], kind |-> e[2]]
<1>1. /\ e = <<e[1], e[2]>> /\ e[1] \in Keys /\ e[2] \in {"succeeded", "failed"} /\ e \in emitted
  BY DEF Events, Deliver
<1>2. r \in HookType
  BY <1>1 DEF HookType, HookStates
<1>3. /\ hook' = [hook EXCEPT ![d] = r] /\ ledger' = [ledger EXCEPT ![e] = "open"]
      /\ UNCHANGED <<sale, refunded, row, notices, psp, emitted, asked, call>>
  BY DEF Deliver, provider
<1>4. /\ hook' \in [Deliveries -> HookType] /\ hook'[d] = r
      /\ \A f \in Deliveries : f # d => hook'[f] = hook[f]
  BY <1>2, <1>3 DEF Shape, Types
<1>5. Types'
  BY <1>3, <1>4 DEF Shape, Types
<1>6. Busy'
  BY <1>1, <1>3, <1>4 DEF Shape, Busy
<1>7. Owners' /\ Reports'
  BY <1>3 DEF Shape, Owners, Owns, Reports
<1> QED
  BY <1>5, <1>6, <1>7 DEF Shape

LEMMA ShapeProvider ==
  ASSUME Shape, NEW k \in Keys, PspSettles(k) \/ PspFails(k)
  PROVE  Shape'
<1>1. PICK st \in {"succeeded", "failed"} :
        /\ psp[k] \in {"accepted", "succeeded"} /\ (st = "succeeded" => psp[k] = "accepted")
        /\ psp' = [psp EXCEPT ![k] = st] /\ emitted' = emitted \cup {<<k, st>>}
  BY DEF PspSettles, PspFails
<1>2. UNCHANGED <<sale, refunded, row, ledger, notices, asked, call, hook>>
  BY DEF PspSettles, PspFails, books
<1>3. psp'[k] = st /\ \A l \in Keys : l # k => psp'[l] = psp[l]
  BY <1>1 DEF Shape, Types
<1>4. Types'
  BY <1>1, <1>2 DEF Shape, Types, Events
<1>5. Busy'
  BY <1>1, <1>2 DEF Shape, Busy
<1>6. Owners'
  BY <1>1, <1>2, <1>3 DEF Shape, Owners, Owns, Busy
<1>7. Reports'
  <2>1. \A e \in emitted : e[1] \in Keys /\ psp[e[1]] # "none"
    BY DEF Shape, Types, Events, Reports
  <2>2. \A e \in emitted' : psp'[e[1]] # "none"
    BY <1>1, <1>3, <2>1
  <2>3. \A l \in Keys : <<l, "failed">> \in emitted' => psp'[l] = "failed"
    BY <1>1, <1>3 DEF Shape, Reports
  <2> QED
    BY <2>2, <2>3 DEF Reports
<1> QED
  BY <1>4, <1>5, <1>6, <1>7 DEF Shape

LEMMA ShapeStep == Shape /\ [Next]_vars => Shape'
<1> SUFFICES ASSUME Shape, [Next]_vars PROVE Shape'
  OBVIOUS
<1>1. CASE MoveOn \/ UNCHANGED vars
  <2>1. /\ order' \in {"processing", "shipped", "delivered", "cancelled"}
        /\ UNCHANGED <<method, coupon, refunded, row, ledger, notices, psp, emitted, asked, call, hook>>
    BY <1>1 DEF MoveOn, vars, books, provider, Shape, Types
  <2> QED
    BY <2>1 DEF Shape, Types, Busy, Owners, Owns, Reports
<1> QED
  BY <1>1, ShapeCall, ShapeRequest, ShapeHook, ShapeDeliver, ShapeProvider DEF Next

LEMMA ShapeInvariant == Spec => []Shape
  BY ShapeInit, ShapeStep, PTL DEF Spec

\* One idempotency key moves money at most once, for any number of racing
\* calls, crashes and lost answers included.
THEOREM ProviderAskedOnce == Spec => []AskedOnce
<1>1. Shape => AskedOnce
  BY DEF Shape, Owners, AskedOnce
<1> QED
  BY <1>1, ShapeInvariant, PTL

\* A failed refund is never recorded as succeeded afterwards, in whatever order
\* the provider's events arrive.
THEOREM FailedRefundStays == Spec => FailedStaysFailed
<1>1. ASSUME Shape, [Next]_vars, NEW k \in Keys, row[k].status = "failed"
      PROVE  row'[k].status = "failed"
  <2> USE DEF Shape, Types
  <2>1. CASE UNCHANGED row
    BY <1>1, <2>1
  <2>2. ASSUME NEW c \in Calls, CallStep(c) PROVE row'[k].status = "failed"
    <3>1. CASE InsertRow(c)
      BY <1>1, <3>1 DEF InsertRow
    <3>2. CASE Rollback(c)
      BY <1>1, <3>2 DEF Rollback, RowType
    <3>3. CASE Store(c)
      BY <1>1, <3>3 DEF Store, RowType
    <3>4. CASE ConfirmInline(c)
      BY <1>1, <3>4 DEF ConfirmInline, RowType
    <3> QED
      BY <1>1, <2>1, <2>2, <3>1, <3>2, <3>3, <3>4
      DEF CallStep, LookupKey, Reserve, Undo, AskProvider, SumInline, ReleaseInline, Review, Cancel, books
  <2>3. ASSUME NEW d \in Deliveries, HookStep(d) PROVE row'[k].status = "failed"
    <3>1. CASE Flip(d)
      BY <1>1, <3>1 DEF Flip, Flips, RowType
    <3> QED
      BY <1>1, <2>1, <2>3, <3>1 DEF HookStep, SumHook, ReleaseHook, GiveBack, Acknowledge, books
  <2> QED
    BY <1>1, <2>1, <2>2, <2>3
    DEF Next, Request, CrashCall, PspSettles, PspFails, Deliver, CrashDelivery, MoveOn, books, vars
<1>2. Shape /\ [Next]_vars => [\A k \in Keys : row[k].status = "failed" => row'[k].status = "failed"]_vars
  BY <1>1
<1> QED
  BY <1>2, ShapeInvariant, PTL DEF Spec, FailedStaysFailed

-----------------------------------------------------------------------------
(* The ledger                                                              *)

RowAmount(r, S) == IF r.status \in S THEN r.amount ELSE 0

LEMMA AmountTypes ==
  ASSUME Shape
  PROVE  /\ Total \in Nat /\ Amounts = 0 .. Total
         /\ \A S : RowAmounts(S) \in [Keys -> 0 .. Total]
         /\ CallAmounts \in [Calls -> 0 .. Total]
         /\ HookAmounts \in [Deliveries -> 0 .. Total]
<1>1. Total \in Nat /\ Amounts = 0 .. Total /\ 0 \in 0 .. Total
  BY RefundAssumption DEF Amounts
<1>2. \A S : RowAmounts(S) \in [Keys -> 0 .. Total]
  BY <1>1 DEF RowAmounts, Shape, Types, RowType
<1>3. CallAmounts \in [Calls -> 0 .. Total]
  BY <1>1 DEF CallAmounts, Shape, Types, CallType
<1>4. HookAmounts \in [Deliveries -> 0 .. Total]
  BY <1>1 DEF HookAmounts, Shape, Types, Busy, HookType, RowType
<1> QED
  BY <1>1, <1>2, <1>3, <1>4

\* The tallies are natural numbers.
LEMMA SumTypes ==
  ASSUME Shape
  PROVE  /\ \A S : InRows(S) \in Nat
         /\ InCalls \in Nat /\ InHooks \in Nat
  BY AmountTypes, TallyType, RefundAssumption DEF InRows, InCalls, InHooks

\* Changing one row changes what the rows add up to by its amounts.
LEMMA RowChange ==
  ASSUME Shape, NEW k \in Keys, row' \in [Keys -> RowType],
         \A l \in Keys : l # k => row'[l] = row[l], NEW S
  PROVE  InRows(S)' = InRows(S) - RowAmount(row[k], S) + RowAmount(row'[k], S)
<1>1. /\ RowAmounts(S)' \in [Keys -> 0 .. Total]
      /\ RowAmounts(S)'[k] = RowAmount(row'[k], S) /\ RowAmounts(S)[k] = RowAmount(row[k], S)
      /\ \A l \in Keys : l # k => RowAmounts(S)'[l] = RowAmounts(S)[l]
  BY AmountTypes DEF RowAmounts, RowAmount, RowType
<1>2. IsFiniteSet(Keys) /\ Total \in Nat /\ RowAmounts(S) \in [Keys -> 0 .. Total]
  BY RefundAssumption, AmountTypes
<1> QED
  BY <1>1, <1>2, TallyChange DEF InRows

\* The same for a call that enters or leaves its reservation.
CallAmount(r) == IF r.pc \in {"insert", "undo"} THEN r.amount ELSE 0

LEMMA CallChange ==
  ASSUME Shape, NEW c \in Calls, call' \in [Calls -> CallType],
         \A b \in Calls : b # c => call'[b] = call[b]
  PROVE  InCalls' = InCalls - CallAmount(call[c]) + CallAmount(call'[c])
<1>1. /\ CallAmounts' \in [Calls -> 0 .. Total]
      /\ CallAmounts'[c] = CallAmount(call'[c]) /\ CallAmounts[c] = CallAmount(call[c])
      /\ \A b \in Calls : b # c => CallAmounts'[b] = CallAmounts[b]
  BY AmountTypes DEF CallAmounts, CallAmount, CallType
<1>2. IsFiniteSet(Calls) /\ Total \in Nat /\ CallAmounts \in [Calls -> 0 .. Total]
  BY RefundAssumption, AmountTypes
<1> QED
  BY <1>1, <1>2, TallyChange DEF InCalls

\* A delivery under way is of a refund whose row exists.
LEMMA HookRow ==
  ASSUME Shape, NEW d \in Deliveries, hook[d].pc # "idle"
  PROVE  hook[d].key \in Keys /\ row[hook[d].key].status # "none"
  BY DEF Shape, Busy, Reports, Owners

HookAmount(r) == IF r.pc = "giveback" THEN row[r.key].amount ELSE 0

LEMMA HookChange ==
  ASSUME Shape, NEW d \in Deliveries, hook' \in [Deliveries -> HookType],
         \A e \in Deliveries : e # d => hook'[e] = hook[e],
         hook'[d].pc # "idle" => hook'[d].key \in Keys,
         \A l \in Keys : row'[l].amount = row[l].amount
  PROVE  InHooks' = InHooks - HookAmount(hook[d]) + HookAmount(hook'[d])
<1>1. \A e \in Deliveries : hook[e].pc # "idle" => hook[e].key \in Keys
  BY HookRow
<1>2. \A e \in Deliveries : e # d => HookAmounts'[e] = HookAmounts[e]
  BY <1>1 DEF HookAmounts
<1>3. HookAmounts'[d] = HookAmount(hook'[d]) /\ HookAmounts[d] = HookAmount(hook[d])
  BY DEF HookAmounts, HookAmount
<1>4. HookAmount(hook'[d]) \in 0 .. Total
  BY AmountTypes DEF HookAmount, RowType, Shape, Types
<1>5. HookAmounts' \in [Deliveries -> 0 .. Total]
  <2>1. HookAmounts \in [Deliveries -> 0 .. Total]
    BY AmountTypes
  <2>2. \A e \in Deliveries : HookAmounts'[e] \in 0 .. Total
    BY <1>2, <1>3, <1>4, <2>1
  <2>3. HookAmounts' = [e \in Deliveries |-> HookAmounts'[e]]
    BY DEF HookAmounts
  <2> QED
    BY <2>2, <2>3
<1>6. IsFiniteSet(Deliveries) /\ Total \in Nat /\ HookAmounts \in [Deliveries -> 0 .. Total]
  BY RefundAssumption, AmountTypes
<1> QED
  BY <1>2, <1>3, <1>5, <1>6, TallyChange DEF InHooks

\* Deliveries are not disturbed by what happens to other rows.
LEMMA HooksSame ==
  ASSUME Shape, hook' = hook,
         \A l \in Keys : row[l].status # "none" => row'[l].amount = row[l].amount
  PROVE  InHooks' = InHooks
<1>1. \A d \in Deliveries : hook[d].pc # "idle" => row'[hook[d].key].amount = row[hook[d].key].amount
  BY HookRow
<1>2. HookAmounts' = HookAmounts
  BY <1>1 DEF HookAmounts
<1> QED
  BY <1>2 DEF InHooks

Live == {"pending", "succeeded"}

\* refundedTotal never exceeds the order's total.
Capped == refunded <= Total

\* What refundedTotal holds beyond what stands behind it: only a crash adds to
\* it, and nothing takes from it.
Unbacked == refunded - (InRows(Live) + InCalls + InHooks)

LedgerInv == Unbacked >= 0 /\ Capped

LEMMA LedgerInit == Init => Unbacked = 0 /\ Capped
<1> SUFFICES ASSUME Init PROVE Unbacked = 0 /\ Capped
  OBVIOUS
<1>1. Total \in Nat
  BY RefundAssumption
<1>2. /\ RowAmounts(Live) = [k \in Keys |-> 0]
      /\ CallAmounts = [c \in Calls |-> 0]
      /\ HookAmounts = [d \in Deliveries |-> 0]
  BY DEF Init, RowAmounts, CallAmounts, HookAmounts, NoRow, IdleCall, IdleHook, Live
<1>3. InRows(Live) = 0 /\ InCalls = 0 /\ InHooks = 0
  BY <1>1, <1>2, TallyZero DEF InRows, InCalls, InHooks
<1> QED
  BY <1>1, <1>3 DEF Init, Unbacked, Capped

LEMMA LedgerCall ==
  ASSUME Shape, Capped, NEW c \in Calls, CallStep(c)
  PROVE  Unbacked' = Unbacked /\ Capped'
<1> DEFINE k == call[c].key
<1> DEFINE a == call[c].amount
<1>0. /\ call \in [Calls -> CallType] /\ row \in [Keys -> RowType] /\ refunded \in Int
      /\ a \in 0 .. Total /\ Total \in Nat /\ call[c].pc # "idle" /\ k \in Keys /\ a >= 1
  BY RefundAssumption
  DEF Shape, Types, Busy, CallType, Amounts, CallStep, LookupKey, Reserve, InsertRow,
      Undo, AskProvider, Rollback, Store, ConfirmInline, SumInline, ReleaseInline, Review, Cancel
<1>1. /\ refunded <= Total /\ Unbacked = refunded - (InRows(Live) + InCalls + InHooks)
      /\ InRows(Live) \in Nat /\ InCalls \in Nat /\ InHooks \in Nat
  BY SumTypes DEF Capped, Unbacked
<1>2. hook' = hook
  BY DEF CallStep, LookupKey, Reserve, InsertRow, Undo, AskProvider, Rollback, Store,
         ConfirmInline, SumInline, ReleaseInline, Review, Cancel
<1>3. call' \in [Calls -> CallType] /\ \A b \in Calls : b # c => call'[b] = call[b]
  <2>1. PICK pc \in CallStates : (pc = "idle" /\ Return(c)) \/ Goto(c, pc)
    BY DEF CallStep, LookupKey, Reserve, InsertRow, Undo, AskProvider, Rollback, Store,
           ConfirmInline, SumInline, ReleaseInline, Review, Cancel, CallStates
  <2> QED
    BY <1>0, <2>1, GotoType, ReturnType
<1>4. InCalls' = InCalls - CallAmount(call[c]) + CallAmount(call'[c])
  BY <1>3, CallChange
<1>5. SUFFICES /\ refunded' - (InRows(Live)' + InCalls' + InHooks') = Unbacked
               /\ refunded' <= Total
  BY DEF Unbacked, Capped
<1>6. ASSUME UNCHANGED row PROVE InRows(Live)' = InRows(Live) /\ InHooks' = InHooks
  BY <1>2, <1>6, HooksSame DEF InRows, RowAmounts
<1>7. CASE LookupKey(c) \/ SumInline(c) \/ ReleaseInline(c) \/ Review(c) \/ Cancel(c) \/ AskProvider(c)
  <2>1. UNCHANGED <<row, refunded>>
    BY <1>7 DEF LookupKey, SumInline, ReleaseInline, Review, Cancel, AskProvider, books
  <2>2. CallAmount(call[c]) = 0 /\ CallAmount(call'[c]) = 0
    BY <1>0, <1>7, GotoType, ReturnType
    DEF LookupKey, SumInline, ReleaseInline, Review, Cancel, AskProvider, CallAmount, CallStates
  <2> QED
    BY <1>1, <1>4, <1>6, <2>1, <2>2
<1>8. CASE Reserve(c)
  <2>1. UNCHANGED row /\ CallAmount(call[c]) = 0
    BY <1>8 DEF Reserve, CallAmount
  <2>2. CASE refunded <= Total - a
    <3>1. refunded' = refunded + a /\ call'[c].pc = "insert" /\ call'[c].amount = a
      BY <1>0, <1>8, <2>2, GotoType DEF Reserve, CallStates
    <3>2. CallAmount(call'[c]) = a
      BY <3>1 DEF CallAmount
    <3> QED
      BY <1>0, <1>1, <1>4, <1>6, <2>1, <2>2, <3>1, <3>2
  <2>3. CASE ~(refunded <= Total - a)
    <3>1. refunded' = refunded /\ call'[c].pc = "idle"
      BY <1>0, <1>8, <2>3, ReturnType DEF Reserve
    <3> QED
      BY <1>1, <1>4, <1>6, <2>1, <3>1 DEF CallAmount
  <2> QED
    BY <2>2, <2>3
<1>9. CASE InsertRow(c)
  <2>1. CallAmount(call[c]) = a /\ refunded' = refunded
    BY <1>9 DEF InsertRow, CallAmount
  <2>2. CASE row[k].status # "none"
    <3>1. UNCHANGED row /\ CallAmount(call'[c]) = a
      BY <1>0, <1>9, <2>2, GotoType DEF InsertRow, CallStates, CallAmount
    <3> QED
      BY <1>0, <1>1, <1>4, <1>6, <2>1, <3>1
  <2>3. CASE row[k].status = "none"
    <3> DEFINE r == [status |-> "pending", amount |-> a, refundId |-> "null"]
    <3>1. row' = [row EXCEPT ![k] = r] /\ r \in RowType
      BY <1>0, <1>9, <2>3 DEF InsertRow, RowType, Amounts
    <3>2. /\ row' \in [Keys -> RowType] /\ row'[k] = r
          /\ \A l \in Keys : l # k => row'[l] = row[l]
      BY <1>0, <3>1
    <3>3. InRows(Live)' = InRows(Live) - RowAmount(row[k], Live) + RowAmount(row'[k], Live)
      BY <1>0, <3>2, RowChange
    <3>4. RowAmount(row[k], Live) = 0 /\ RowAmount(row'[k], Live) = a
      BY <2>3, <3>2 DEF RowAmount, Live
    <3>5. InHooks' = InHooks
      BY <1>2, <2>3, <3>2, HooksSame
    <3>6. CallAmount(call'[c]) = 0
      BY <1>0, <1>9, <2>3, GotoType DEF InsertRow, CallStates, CallAmount
    <3> QED
      BY <1>0, <1>1, <1>4, <2>1, <3>3, <3>4, <3>5, <3>6
  <2> QED
    BY <2>2, <2>3
<1>10. CASE Undo(c)
  <2>1. /\ UNCHANGED row /\ refunded' = refunded - a
        /\ CallAmount(call[c]) = a /\ CallAmount(call'[c]) = 0
    BY <1>0, <1>10, ReturnType DEF Undo, CallAmount
  <2> QED
    BY <1>0, <1>1, <1>4, <1>6, <2>1
<1>11. CASE Rollback(c)
  <2>1. row[k].status = "pending" /\ row[k].amount = a
    BY <1>11 DEF Rollback, Shape, Owners, Owns
  <2>2. /\ row' \in [Keys -> RowType] /\ row'[k].status = "failed" /\ row'[k].amount = a
        /\ \A l \in Keys : l # k => row'[l] = row[l]
    BY <1>0, <1>11, <2>1, StatusType DEF Rollback
  <2>3. InRows(Live)' = InRows(Live) - RowAmount(row[k], Live) + RowAmount(row'[k], Live)
    BY <1>0, <2>2, RowChange
  <2>4. RowAmount(row[k], Live) = a /\ RowAmount(row'[k], Live) = 0
    BY <2>1, <2>2 DEF RowAmount, Live
  <2>5. InHooks' = InHooks
    BY <1>2, <2>1, <2>2, HooksSame
  <2>6. refunded' = refunded - a /\ CallAmount(call[c]) = 0 /\ CallAmount(call'[c]) = 0
    BY <1>0, <1>11, ReturnType DEF Rollback, CallAmount
  <2> QED
    BY <1>0, <1>1, <1>4, <2>3, <2>4, <2>5, <2>6
<1>12. CASE Store(c) \/ ConfirmInline(c)
  <2>1. refunded' = refunded /\ CallAmount(call[c]) = 0 /\ CallAmount(call'[c]) = 0
    BY <1>0, <1>12, GotoType DEF Store, ConfirmInline, CallAmount, CallStates
  <2>2. CASE UNCHANGED row
    BY <1>1, <1>4, <1>6, <2>1, <2>2
  <2>3. CASE ~UNCHANGED row
    <3>1. /\ row' \in [Keys -> RowType] /\ row'[k].amount = row[k].amount
          /\ row[k].status \in Live /\ row'[k].status \in Live
          /\ \A l \in Keys : l # k => row'[l] = row[l]
      <4>1. CASE Store(c)
        <5>1. row[k].status = "pending" /\ row' = [row EXCEPT ![k].refundId = "stored"]
          BY <4>1 DEF Store, Shape, Owners, Owns
        <5> QED
          BY <1>0, <5>1, KnownType DEF Live
      <4>2. CASE ConfirmInline(c)
        BY <1>0, <2>3, <4>2, StatusType DEF ConfirmInline, Live
      <4> QED
        BY <1>12, <4>1, <4>2
    <3>2. InRows(Live)' = InRows(Live) - RowAmount(row[k], Live) + RowAmount(row'[k], Live)
      BY <1>0, <3>1, RowChange
    <3>3. RowAmount(row[k], Live) = row[k].amount /\ RowAmount(row'[k], Live) = row[k].amount
          /\ row[k].amount \in Int
      BY <1>0, <3>1 DEF RowAmount, RowType, Amounts
    <3>4. InHooks' = InHooks
      BY <1>2, <3>1, HooksSame
    <3> QED
      BY <1>1, <1>4, <2>1, <3>2, <3>3, <3>4
  <2> QED
    BY <2>2, <2>3
<1> QED
  BY <1>7, <1>8, <1>9, <1>10, <1>11, <1>12 DEF CallStep

LEMMA LedgerHook ==
  ASSUME Shape, Capped, NEW d \in Deliveries, HookStep(d)
  PROVE  Unbacked' = Unbacked /\ Capped'
<1> DEFINE k == hook[d].key
<1>0. /\ hook \in [Deliveries -> HookType] /\ row \in [Keys -> RowType] /\ refunded \in Int
      /\ Total \in Nat /\ hook[d].pc # "idle" /\ k \in Keys /\ hook[d].kind \in {"succeeded", "failed"}
      /\ row[k].amount \in 0 .. Total
  BY RefundAssumption
  DEF Shape, Types, Busy, RowType, Amounts, HookStep, Flip, SumHook, ReleaseHook, GiveBack, Acknowledge
<1>1. /\ refunded <= Total /\ Unbacked = refunded - (InRows(Live) + InCalls + InHooks)
      /\ InRows(Live) \in Nat /\ InCalls \in Nat /\ InHooks \in Nat
  BY SumTypes DEF Capped, Unbacked
<1>2. InCalls' = InCalls
  BY DEF HookStep, Flip, SumHook, ReleaseHook, GiveBack, Acknowledge, InCalls, CallAmounts
<1>3. SUFFICES /\ refunded' - (InRows(Live)' + InCalls' + InHooks') = Unbacked
               /\ refunded' <= Total
  BY DEF Unbacked, Capped
<1>4. /\ hook' \in [Deliveries -> HookType] /\ \A e \in Deliveries : e # d => hook'[e] = hook[e]
      /\ hook'[d].pc # "idle" => hook'[d].key = k
  <2>1. CASE Acknowledge(d)
    BY <1>0, <2>1 DEF Acknowledge, IdleHook, HookType, HookStates
  <2>2. CASE ~Acknowledge(d)
    <3>1. PICK pc \in HookStates : GotoHook(d, pc)
      BY <2>2 DEF HookStep, Flip, SumHook, ReleaseHook, GiveBack, HookStates
    <3> QED
      BY <1>0, <3>1, GotoHookType
  <2> QED
    BY <2>1, <2>2
<1>5. ASSUME \A l \in Keys : row'[l].amount = row[l].amount
      PROVE  InHooks' = InHooks - HookAmount(hook[d]) + HookAmount(hook'[d])
  BY <1>0, <1>4, <1>5, HookChange
<1>6. ASSUME UNCHANGED <<row, refunded>>, HookAmount(hook[d]) = 0, HookAmount(hook'[d]) = 0
      PROVE  /\ refunded' - (InRows(Live)' + InCalls' + InHooks') = Unbacked
             /\ refunded' <= Total
  <2>1. InRows(Live)' = InRows(Live)
    BY <1>6 DEF InRows, RowAmounts
  <2> QED
    BY <1>1, <1>2, <1>5, <1>6, <2>1
<1>7. CASE SumHook(d) \/ ReleaseHook(d) \/ Acknowledge(d)
  <2>1. UNCHANGED <<row, refunded>>
    BY <1>7 DEF SumHook, ReleaseHook, Acknowledge, books
  <2>2. HookAmount(hook[d]) = 0
    BY <1>7 DEF SumHook, ReleaseHook, Acknowledge, HookAmount
  <2>3. hook'[d].pc # "giveback"
    BY <1>0, <1>7, GotoHookType DEF SumHook, ReleaseHook, Acknowledge, HookStates, IdleHook
  <2> QED
    BY <1>6, <2>1, <2>2, <2>3 DEF HookAmount
<1>8. CASE GiveBack(d)
  <2>1. /\ UNCHANGED row /\ refunded' = refunded - row[k].amount
        /\ HookAmount(hook[d]) = row[k].amount
    BY <1>8 DEF GiveBack, HookAmount
  <2>2. HookAmount(hook'[d]) = 0
    BY <1>0, <1>8, GotoHookType DEF GiveBack, HookStates, HookAmount
  <2>3. InRows(Live)' = InRows(Live)
    BY <2>1 DEF InRows, RowAmounts
  <2> QED
    BY <1>0, <1>1, <1>2, <1>5, <2>1, <2>2, <2>3
<1>9. CASE Flip(d)
  <2>1. refunded' = refunded /\ HookAmount(hook[d]) = 0
    BY <1>9 DEF Flip, HookAmount
  <2>2. CASE ~Flips(d)
    <3>1. UNCHANGED row /\ hook'[d].pc = "ack"
      BY <1>0, <1>9, <2>2, GotoHookType DEF Flip, HookStates
    <3> QED
      BY <1>6, <2>1, <3>1 DEF HookAmount
  <2>3. CASE Flips(d)
    <3>1. row' = [row EXCEPT ![k].status = hook[d].kind]
      BY <1>9, <2>3 DEF Flip
    <3>2. /\ row' \in [Keys -> RowType]
          /\ row'[k].status = hook[d].kind /\ row'[k].amount = row[k].amount
          /\ \A l \in Keys : l # k => row'[l] = row[l]
      BY <1>0, <3>1, StatusType
    <3>3. InRows(Live)' = InRows(Live) - RowAmount(row[k], Live) + RowAmount(row'[k], Live)
      BY <1>0, <3>2, RowChange
    <3>4. RowAmount(row[k], Live) = row[k].amount
      BY <2>3 DEF Flips, RowAmount, Live
    <3>5. InHooks' = InHooks + HookAmount(hook'[d])
      BY <1>0, <1>1, <1>5, <2>1, <3>2
    <3>6. CASE hook[d].kind = "succeeded"
      <4>1. RowAmount(row'[k], Live) = row[k].amount
        BY <3>2, <3>6 DEF RowAmount, Live
      <4>2. HookAmount(hook'[d]) = 0
        BY <1>0, <1>9, <2>3, <3>6, GotoHookType DEF Flip, HookAmount, HookStates
      <4> QED
        BY <1>0, <1>1, <1>2, <2>1, <3>3, <3>4, <3>5, <4>1, <4>2
    <3>7. CASE hook[d].kind = "failed"
      <4>1. RowAmount(row'[k], Live) = 0
        BY <3>2, <3>7 DEF RowAmount, Live
      <4>2. hook'[d].pc = "giveback" /\ hook'[d].key = k
        BY <1>0, <1>9, <2>3, <3>7, GotoHookType DEF Flip, HookStates
      <4>3. HookAmount(hook'[d]) = row[k].amount
        BY <4>2 DEF HookAmount
      <4> QED
        BY <1>0, <1>1, <1>2, <2>1, <3>3, <3>4, <3>5, <4>1, <4>3
    <3> QED
      BY <1>0, <3>6, <3>7
  <2> QED
    BY <2>2, <2>3
<1> QED
  BY <1>7, <1>8, <1>9 DEF HookStep

\* Every other step leaves the ledger as it is, but a crash, after which some
\* of refundedTotal may have nothing behind it.
LEMMA LedgerStep ==
  ASSUME Shape, Capped, [Next]_vars
  PROVE  /\ Unbacked' >= Unbacked /\ Capped'
         /\ Crashes = {} => Unbacked' = Unbacked
<1>1. /\ refunded \in Int /\ Total \in Nat /\ refunded <= Total
      /\ InRows(Live) \in Nat /\ InCalls \in Nat /\ InHooks \in Nat
  BY SumTypes, RefundAssumption DEF Capped, Shape, Types
<1>2. ASSUME NEW c \in Calls, CallStep(c) PROVE Unbacked' = Unbacked /\ Capped'
  BY <1>2, LedgerCall
<1>3. ASSUME NEW d \in Deliveries, HookStep(d) PROVE Unbacked' = Unbacked /\ Capped'
  BY <1>3, LedgerHook
<1>4. ASSUME NEW c \in Calls, NEW k \in Keys, NEW a \in 1 .. Total, Request(c, k, a)
      PROVE  Unbacked' = Unbacked /\ Capped'
  <2> DEFINE r == [pc |-> "lookup", key |-> k, amount |-> a]
  <2>1. r \in CallType /\ CallAmount(r) = 0
    BY <1>1 DEF CallType, CallStates, CallAmount, Amounts
  <2>2. /\ call' = [call EXCEPT ![c] = r] /\ CallAmount(call[c]) = 0
        /\ UNCHANGED <<refunded, row, hook>>
    BY <1>4 DEF Request, books, CallAmount
  <2>3. /\ call' \in [Calls -> CallType] /\ call'[c] = r
        /\ \A b \in Calls : b # c => call'[b] = call[b]
    BY <2>1, <2>2 DEF Shape, Types
  <2>4. InCalls' = InCalls
    BY <1>1, <2>1, <2>2, <2>3, CallChange
  <2> QED
    BY <2>2, <2>4 DEF Unbacked, Capped, InRows, RowAmounts, InHooks, HookAmounts
<1>5. ASSUME NEW d \in Deliveries, NEW e \in Events, Deliver(d, e)
      PROVE  Unbacked' = Unbacked /\ Capped'
  <2> DEFINE r == [pc |-> "flip", key |-> e[1], kind |-> e[2]]
  <2>1. r \in HookType /\ e[1] \in Keys
    BY DEF HookType, HookStates, Events
  <2>2. /\ hook' = [hook EXCEPT ![d] = r] /\ HookAmount(hook[d]) = 0 /\ HookAmount(r) = 0
        /\ UNCHANGED <<refunded, row, call>>
    BY <1>5 DEF Deliver, HookAmount
  <2>3. /\ hook' \in [Deliveries -> HookType] /\ hook'[d] = r
        /\ \A f \in Deliveries : f # d => hook'[f] = hook[f]
    BY <2>1, <2>2 DEF Shape, Types
  <2>4. InHooks' = InHooks
    BY <1>1, <2>1, <2>2, <2>3, HookChange
  <2> QED
    BY <2>2, <2>4 DEF Unbacked, Capped, InRows, RowAmounts, InCalls, CallAmounts
<1>6. ASSUME NEW c \in Calls, CrashCall(c)
      PROVE  Unbacked' >= Unbacked /\ Capped' /\ Crashes # {}
  <2>1. /\ "call" \in Crashes /\ UNCHANGED <<refunded, row, hook>>
        /\ call' \in [Calls -> CallType] /\ call'[c].pc = "idle"
        /\ \A b \in Calls : b # c => call'[b] = call[b]
    BY <1>6, ReturnType DEF CrashCall, books, Shape, Types
  <2>2. CallAmount(call[c]) \in Nat /\ CallAmount(call'[c]) = 0
    BY <1>1, <2>1 DEF CallAmount, Shape, Types, CallType, Amounts
  <2>3. InCalls' \in Int /\ InCalls' <= InCalls
    BY <1>1, <2>1, <2>2, CallChange
  <2>4. Capped' /\ InRows(Live)' = InRows(Live) /\ InHooks' = InHooks /\ refunded' = refunded
    BY <2>1 DEF Capped, InRows, RowAmounts, InHooks, HookAmounts
  <2> QED
    BY <1>1, <2>1, <2>3, <2>4 DEF Unbacked
<1>7. ASSUME NEW d \in Deliveries, CrashDelivery(d)
      PROVE  Unbacked' >= Unbacked /\ Capped' /\ Crashes # {}
  <2>1. /\ "delivery" \in Crashes /\ UNCHANGED <<refunded, row, call>>
        /\ hook' = [hook EXCEPT ![d] = IdleHook]
    BY <1>7 DEF CrashDelivery, books
  <2>2. /\ hook' \in [Deliveries -> HookType] /\ hook'[d].pc = "idle"
        /\ \A e \in Deliveries : e # d => hook'[e] = hook[e]
    BY <2>1 DEF Shape, Types, HookType, HookStates, IdleHook
  <2>3. HookAmount(hook[d]) \in Nat /\ HookAmount(hook'[d]) = 0
    <3>1. hook[d].pc # "idle" => hook[d].key \in Keys
      BY DEF Shape, Busy
    <3>2. \A l \in Keys : row[l].amount \in Nat
      BY <1>1 DEF Shape, Types, RowType, Amounts
    <3> QED
      BY <2>2, <3>1, <3>2 DEF HookAmount
  <2>4. InHooks' = InHooks - HookAmount(hook[d]) + HookAmount(hook'[d])
    BY <2>1, <2>2, HookChange
  <2>5. InHooks' \in Int /\ InHooks' <= InHooks
    BY <1>1, <2>3, <2>4
  <2>6. Capped' /\ InRows(Live)' = InRows(Live) /\ InCalls' = InCalls /\ refunded' = refunded
    BY <2>1 DEF Capped, InRows, RowAmounts, InCalls, CallAmounts
  <2> QED
    BY <1>1, <2>1, <2>5, <2>6 DEF Unbacked
<1>8. ASSUME UNCHANGED <<refunded, row, call, hook>> PROVE Unbacked' = Unbacked /\ Capped'
  BY <1>8 DEF Unbacked, Capped, InRows, RowAmounts, InCalls, CallAmounts, InHooks, HookAmounts
<1>9. Unbacked \in Int
  BY <1>1 DEF Unbacked
<1> QED
  BY <1>2, <1>3, <1>4, <1>5, <1>6, <1>7, <1>8, <1>9
  DEF Next, PspSettles, PspFails, MoveOn, vars, books

Sound == Shape /\ LedgerInv

LEMMA UnbackedType == Shape => Unbacked \in Int
  BY SumTypes DEF Unbacked, Shape, Types

LEMMA SoundInvariant == Spec => []Sound
<1>1. Init => Sound
  BY ShapeInit, LedgerInit DEF Sound, LedgerInv
<1>2. Sound /\ [Next]_vars => Sound'
  <2> SUFFICES ASSUME Sound, [Next]_vars PROVE Sound'
    OBVIOUS
  <2>1. Shape' /\ Unbacked' >= Unbacked /\ Capped' /\ Unbacked \in Int /\ Unbacked >= 0
    BY ShapeStep, LedgerStep, UnbackedType DEF Sound, LedgerInv
  <2>2. Unbacked' \in Int
    <3>1. (Shape => Unbacked \in Int)'
      BY UnbackedType, PTL
    <3> QED
      BY <2>1, <3>1
  <2> QED
    BY <2>1, <2>2 DEF Sound, LedgerInv
<1> QED
  BY <1>1, <1>2, PTL DEF Spec

\* Every variable keeps its type; refundedTotal in particular never falls below
\* zero, however often refunds fail and processes die.
THEOREM RefundTypes == Spec => []TypeOK
<1>1. Sound => TypeOK
  <2> SUFFICES ASSUME Sound PROVE TypeOK
    OBVIOUS
  <2>1. refunded \in Int /\ InRows(Live) \in Nat /\ InCalls \in Nat /\ InHooks \in Nat /\ Unbacked >= 0
    BY SumTypes DEF Sound, LedgerInv, Shape, Types
  <2>2. refunded \in Nat
    BY <2>1 DEF Unbacked
  <2> QED
    BY <2>2 DEF Sound, Shape, Types, TypeOK
<1> QED
  BY <1>1, SoundInvariant, PTL

\* refundedTotal is exactly what stands behind it, as long as no process dies
\* in the middle of a refund or a delivery.
THEOREM RefundLedgerExact ==
  ASSUME Crashes = {}
  PROVE  Spec => []LedgerExact
<1> DEFINE I == Sound /\ Unbacked = 0
<1>1. Init => I
  BY ShapeInit, LedgerInit DEF Sound, LedgerInv
<1>2. I /\ [Next]_vars => I'
  BY ShapeStep, LedgerStep DEF Sound, LedgerInv
<1>3. I => LedgerExact
  <2> SUFFICES ASSUME I PROVE LedgerExact
    OBVIOUS
  <2>1. refunded \in Int /\ InRows(Live) \in Nat /\ InCalls \in Nat /\ InHooks \in Nat
    BY SumTypes DEF Sound, Shape, Types
  <2> QED
    BY <2>1 DEF Unbacked, LedgerExact, Live
<1> QED
  BY <1>1, <1>2, <1>3, PTL DEF Spec

-----------------------------------------------------------------------------
(* What the provider agreed to send back is reserved                       *)

\* A refund the provider holds has a live row; one that is rolled back never
\* reached the provider.
Agreed ==
  /\ \A k \in Keys : psp[k] \in {"accepted", "succeeded"} => row[k].status \in Live
  /\ \A c \in Calls : call[c].pc = "rollback" => psp[call[c].key] = "none"

LEMMA AgreedStep ==
  ASSUME ~LostAnswers, Shape, Agreed, [Next]_vars
  PROVE  Agreed'
<1> USE DEF Shape, Types, Live
<1>1. ASSUME UNCHANGED <<row, psp>>,
             \A c \in Calls : call'[c].pc = "rollback" => call'[c] = call[c]
      PROVE  Agreed'
  BY <1>1 DEF Agreed
<1>2. ASSUME NEW c \in Calls, CallStep(c) PROVE Agreed'
  <2> DEFINE k == call[c].key
  <2>0. call[c].pc # "idle" /\ k \in Keys
    BY <1>2
    DEF Busy, CallStep, LookupKey, Reserve, InsertRow, Undo, AskProvider, Rollback, Store,
        ConfirmInline, SumInline, ReleaseInline, Review, Cancel
  <2>1. CASE AskProvider(c)
    <3>1. PICK pc \in {"rollback", "store"}, st \in {"none", "accepted", "succeeded"} :
            /\ Goto(c, pc) /\ psp' = [psp EXCEPT ![k] = st]
            /\ pc = "rollback" => st = "none"
      BY <2>0, <2>1 DEF AskProvider, Owners
    <3>2. UNCHANGED row /\ Owns(c) /\ row[k].status = "pending" /\ call[c].pc = "ask"
      BY <2>1 DEF AskProvider, books, Owners, Owns
    <3>3. /\ call'[c].pc = pc /\ call'[c].key = k
          /\ \A b \in Calls : b # c => call'[b] = call[b]
      BY <3>1, GotoType DEF CallStates
    <3>4. \A b \in Calls : b # c /\ call[b].pc = "rollback" => call[b].key \in Keys /\ call[b].key # k
      BY <3>2 DEF Owners, Owns, Busy
    <3>5. psp'[k] = st /\ \A l \in Keys : l # k => psp'[l] = psp[l]
      BY <2>0, <3>1
    <3> QED
      BY <2>0, <3>1, <3>2, <3>3, <3>4, <3>5 DEF Agreed
  <2>2. CASE ~AskProvider(c)
    <3>1. psp' = psp
      BY <1>2, <2>2
      DEF CallStep, LookupKey, Reserve, InsertRow, Undo, Rollback, Store,
          ConfirmInline, SumInline, ReleaseInline, Review, Cancel, provider
    <3>2. PICK pc \in CallStates \ {"rollback"} : (pc = "idle" /\ Return(c)) \/ Goto(c, pc)
      BY <1>2, <2>2
      DEF CallStep, LookupKey, Reserve, InsertRow, Undo, Rollback, Store,
          ConfirmInline, SumInline, ReleaseInline, Review, Cancel, CallStates
    <3>3. \A b \in Calls : call'[b].pc = "rollback" => call'[b] = call[b]
      BY <3>2, GotoType, ReturnType
    <3>4. \A l \in Keys : psp[l] \in {"accepted", "succeeded"} => row'[l].status \in Live
      <4>1. CASE UNCHANGED row
        BY <4>1 DEF Agreed
      <4>2. CASE InsertRow(c)
        BY <4>1, <4>2 DEF InsertRow, Agreed, RowType
      <4>3. CASE Rollback(c)
        <5>1. psp[k] = "none" /\ row' = [row EXCEPT ![k].status = "failed"]
          BY <4>3 DEF Rollback, Agreed
        <5> QED
          BY <2>0, <5>1, StatusType DEF Agreed
      <4>4. CASE Store(c)
        BY <2>0, <4>4, KnownType DEF Store, Agreed
      <4>5. CASE ConfirmInline(c)
        BY <2>0, <4>1, <4>5, StatusType DEF ConfirmInline, Agreed
      <4> QED
        BY <1>2, <2>2, <4>1, <4>2, <4>3, <4>4, <4>5
        DEF CallStep, LookupKey, Reserve, Undo, SumInline, ReleaseInline, Review, Cancel, books
    <3> QED
      BY <3>1, <3>3, <3>4 DEF Agreed
  <2> QED
    BY <2>1, <2>2
<1>3. ASSUME NEW d \in Deliveries, HookStep(d) PROVE Agreed'
  <2>1. UNCHANGED <<psp, call>>
    BY <1>3 DEF HookStep, Flip, SumHook, ReleaseHook, GiveBack, Acknowledge, provider
  <2>2. CASE UNCHANGED row
    BY <1>1, <2>1, <2>2
  <2>3. CASE ~UNCHANGED row
    <3> DEFINE k == hook[d].key
    <3>1. /\ hook[d].pc = "flip" /\ Flips(d) /\ row' = [row EXCEPT ![k].status = hook[d].kind]
      BY <1>3, <2>3 DEF HookStep, Flip, SumHook, ReleaseHook, GiveBack, Acknowledge, books
    <3>2. k \in Keys /\ hook[d].kind \in {"succeeded", "failed"} /\ <<k, hook[d].kind>> \in emitted
      BY <3>1 DEF Busy
    <3>3. hook[d].kind = "failed" => psp[k] = "failed"
      BY <3>2 DEF Reports
    <3>4. row'[k].status = hook[d].kind /\ \A l \in Keys : l # k => row'[l] = row[l]
      BY <3>1, <3>2, StatusType
    <3> QED
      BY <2>1, <3>2, <3>3, <3>4 DEF Agreed
  <2> QED
    BY <2>2, <2>3
<1>4. ASSUME NEW k \in Keys, PspSettles(k) \/ PspFails(k) PROVE Agreed'
  <2>1. PICK st \in {"succeeded", "failed"} : psp' = [psp EXCEPT ![k] = st]
    BY <1>4 DEF PspSettles, PspFails
  <2>2. psp[k] \in {"accepted", "succeeded"} /\ UNCHANGED <<row, call>>
    BY <1>4 DEF PspSettles, PspFails, books
  <2>3. \A c \in Calls : call[c].pc = "rollback" => call[c].key # k /\ call[c].key \in Keys
    BY <2>2 DEF Agreed, Busy
  <2> QED
    BY <2>1, <2>2, <2>3 DEF Agreed
<1>5. ASSUME NEW c \in Calls, NEW k \in Keys, NEW a \in 1 .. Total, Request(c, k, a) PROVE Agreed'
  BY <1>1, <1>5 DEF Request, books, provider
<1>6. ASSUME NEW c \in Calls, CrashCall(c) PROVE Agreed'
  BY <1>1, <1>6, ReturnType DEF CrashCall, books, provider
<1> QED
  BY <1>1, <1>2, <1>3, <1>4, <1>5, <1>6
  DEF Next, Deliver, CrashDelivery, MoveOn, vars, books, provider

\* More than the order's total is never on its way back, whatever races, fails
\* or dies, as long as a refund the gateway reports as refused is refused.
THEOREM NeverTooMuchReturned ==
  ASSUME ~LostAnswers
  PROVE  Spec => []NeverOverRefund
<1>1. Init => Agreed
  BY DEF Init, Agreed, IdleCall
<1>2. Sound /\ Agreed /\ [Next]_vars => Agreed'
  BY AgreedStep DEF Sound
<1>3. Sound /\ Agreed => NeverOverRefund
  <2> SUFFICES ASSUME Sound, Agreed PROVE NeverOverRefund
    OBVIOUS
  <2>1. /\ Total \in Nat /\ IsFiniteSet(Keys) /\ RowAmounts(Live) \in [Keys -> 0 .. Total]
        /\ \A k \in Keys : row[k].amount \in 0 .. Total
    BY AmountTypes, RefundAssumption DEF Sound, Shape, Types, RowType
  <2>2. AgreedAmounts \in [Keys -> 0 .. Total]
    BY <2>1 DEF AgreedAmounts
  <2>3. \A k \in Keys : AgreedAmounts[k] <= RowAmounts(Live)[k]
    BY <2>1 DEF AgreedAmounts, RowAmounts, Agreed
  <2>4. Returned <= InRows(Live) /\ Returned \in Nat
    BY <2>1, <2>2, <2>3, TallyMonotone, TallyType DEF Returned, InRows
  <2>5. /\ refunded \in Int /\ InRows(Live) \in Nat /\ InCalls \in Nat /\ InHooks \in Nat
        /\ refunded - (InRows(Live) + InCalls + InHooks) >= 0 /\ refunded <= Total
    BY SumTypes DEF Sound, LedgerInv, Capped, Unbacked, Shape, Types
  <2> QED
    BY <2>1, <2>4, <2>5 DEF NeverOverRefund
<1> QED
  BY <1>1, <1>2, <1>3, SoundInvariant, PTL DEF Spec

-----------------------------------------------------------------------------
(* A full refund cancels the order                                         *)

\* The states of a call that still comes to the review of the order, or gives
\* its reservation back.
Reviewing == {"insert", "undo", "ask", "rollback", "store", "confirm", "total", "release", "review", "cancel"}

Watched ==
  refunded >= Total /\ order \in {"processing", "shipped"}
    => \E c \in Calls : call[c].pc \in Reviewing

LEMMA WatchedStep ==
  ASSUME "call" \notin Crashes, Shape, Capped, Watched, [Next]_vars
  PROVE  Watched'
<1>0. Total \in Nat /\ refunded \in Int /\ refunded <= Total
  BY RefundAssumption DEF Shape, Types, Capped
<1>1. ASSUME refunded' <= refunded, refunded' \in Int, UNCHANGED call,
             order' \in {"processing", "shipped"} => order \in {"processing", "shipped"}
      PROVE  Watched'
  BY <1>0, <1>1 DEF Watched
<1>2. ASSUME NEW c \in Calls, CallStep(c) PROVE Watched'
  <2>0. /\ call \in [Calls -> CallType] /\ call[c].pc # "idle" /\ call[c].amount \in Nat
        /\ call[c].amount >= 1
    BY <1>0, <1>2
    DEF Shape, Types, Busy, CallType, Amounts, CallStep, LookupKey, Reserve, InsertRow, Undo,
        AskProvider, Rollback, Store, ConfirmInline, SumInline, ReleaseInline, Review, Cancel
  <2>1. CASE LookupKey(c)
    <3>1. UNCHANGED <<sale, refunded>> /\ call[c].pc \notin Reviewing
      BY <2>1 DEF LookupKey, books, Reviewing
    <3>2. \A b \in Calls : b # c => call'[b] = call[b]
      BY <2>0, <2>1, GotoType, ReturnType DEF LookupKey, CallStates
    <3> QED
      BY <3>1, <3>2 DEF Watched
  <2>2. CASE Reserve(c)
    <3>1. CASE refunded <= Total - call[c].amount
      <4>1. call'[c].pc = "insert"
        BY <2>0, <2>2, <3>1, GotoType DEF Reserve, CallStates
      <4> QED
        BY <4>1 DEF Watched, Reviewing
    <3>2. CASE ~(refunded <= Total - call[c].amount)
      <4>1. UNCHANGED <<sale, refunded>> /\ call[c].pc \notin Reviewing
        BY <2>2, <3>2 DEF Reserve, Reviewing
      <4>2. \A b \in Calls : b # c => call'[b] = call[b]
        BY <2>0, <2>2, <3>2, ReturnType DEF Reserve
      <4> QED
        BY <4>1, <4>2 DEF Watched
    <3> QED
      BY <3>1, <3>2
  <2>3. CASE Undo(c) \/ Rollback(c)
    BY <1>0, <2>0, <2>3 DEF Undo, Rollback, Watched
  <2>4. CASE Review(c) /\ refunded >= Total /\ order \in {"processing", "shipped"}
    <3>1. call'[c].pc = "cancel"
      BY <2>0, <2>4, GotoType DEF Review, CallStates
    <3> QED
      BY <3>1 DEF Watched, Reviewing
  <2>5. CASE Review(c) /\ ~(refunded >= Total /\ order \in {"processing", "shipped"})
    BY <2>5 DEF Review, books, Watched
  <2>6. CASE Cancel(c)
    BY <2>6 DEF Cancel, Watched
  <2>7. ASSUME NEW pc \in Reviewing, Goto(c, pc) PROVE Watched'
    <3>1. call'[c].pc = pc
      BY <2>0, <2>7, GotoType DEF Reviewing, CallStates
    <3> QED
      BY <3>1 DEF Watched
  <2>8. CASE InsertRow(c) \/ AskProvider(c) \/ Store(c) \/ ConfirmInline(c) \/ SumInline(c) \/ ReleaseInline(c)
    BY <2>7, <2>8
    DEF InsertRow, AskProvider, Store, ConfirmInline, SumInline, ReleaseInline, Reviewing
  <2> QED
    BY <1>2, <2>1, <2>2, <2>3, <2>4, <2>5, <2>6, <2>8 DEF CallStep
<1>3. ASSUME NEW d \in Deliveries, HookStep(d) PROVE Watched'
  <2>1. UNCHANGED <<order, call>>
    BY <1>3 DEF HookStep, Flip, SumHook, ReleaseHook, GiveBack, Acknowledge
  <2>2. refunded' = refunded \/ GiveBack(d)
    BY <1>3 DEF HookStep, Flip, SumHook, ReleaseHook, Acknowledge, books
  <2>3. GiveBack(d) => refunded' = refunded - row[hook[d].key].amount /\ hook[d].key \in Keys
    BY DEF GiveBack, Shape, Busy
  <2>4. \A k \in Keys : row[k].amount \in Nat
    BY <1>0 DEF Shape, Types, RowType, Amounts
  <2> QED
    BY <1>0, <1>1, <2>1, <2>2, <2>3, <2>4
<1>4. ASSUME NEW c \in Calls, NEW k \in Keys, NEW a \in 1 .. Total, Request(c, k, a) PROVE Watched'
  <2>1. /\ UNCHANGED <<sale, refunded>> /\ call[c].pc \notin Reviewing
        /\ \A b \in Calls : b # c => call'[b] = call[b]
    BY <1>4 DEF Request, books, Reviewing, Shape, Types
  <2> QED
    BY <2>1 DEF Watched
<1> QED
  BY <1>0, <1>1, <1>2, <1>3, <1>4
  DEF Next, PspSettles, PspFails, Deliver, CrashCall, CrashDelivery, MoveOn, vars, books

\* An order whose whole total is on its way back is cancelled by the last of
\* the refunds that are running, unless it had been delivered.
THEOREM FullRefundIsReviewed ==
  ASSUME "call" \notin Crashes
  PROVE  Spec => []FullRefundCancels
<1>1. Init => Watched
  BY RefundAssumption DEF Init, Watched
<1>2. Sound /\ Watched /\ [Next]_vars => Watched'
  BY WatchedStep DEF Sound, LedgerInv
<1>3. Sound /\ Watched => FullRefundCancels
  BY DEF Sound, Shape, Types, Watched, FullRefundCancels, Quiet, Reviewing
<1> QED
  BY <1>1, <1>2, <1>3, SoundInvariant, PTL DEF Spec

-----------------------------------------------------------------------------
(* The coupon is released on money returned, not on money promised         *)

\* A row that succeeded, or is about to inline, is money the provider sent; a
\* release is under way or done only once it sent the whole total.
Settled ==
  /\ \A k \in Keys : row[k].status = "succeeded" => Sent(k)
  /\ \A c \in Calls : call[c].pc = "confirm" => Sync
  /\ \A c \in Calls : Sync /\ call[c].pc \in {"store", "confirm"} => psp[call[c].key] = "succeeded"

Releasing ==
  \/ notices > 0
  \/ \E c \in Calls : call[c].pc = "release"
  \/ \E d \in Deliveries : hook[d].pc = "release"

\* A synchronous refund that was made is never unmade.
LEMMA MethodStays == [Next]_vars => method' = method
  BY DEF Next, CallStep, HookStep, Request, LookupKey, Reserve, InsertRow, Undo, AskProvider, Rollback,
         Store, ConfirmInline, SumInline, ReleaseInline, Review, Cancel, PspSettles, PspFails, Deliver,
         Flip, SumHook, ReleaseHook, GiveBack, Acknowledge, MoveOn, CrashCall, CrashDelivery, vars

LEMMA SyncStays ==
  ASSUME Shape, [Next]_vars, Sync, NEW k \in Keys, psp[k] = "succeeded"
  PROVE  psp'[k] = "succeeded"
<1> USE DEF Shape, Types
<1>1. ASSUME NEW c \in Calls, AskProvider(c) PROVE psp'[k] = psp[k]
  <2>1. call[c].pc = "ask" /\ psp[call[c].key] = "none"
    BY <1>1 DEF AskProvider, Owners
  <2> QED
    BY <1>1, <2>1 DEF AskProvider
<1>2. ASSUME NEW l \in Keys, Sync, psp[k] = "succeeded", PspSettles(l) \/ PspFails(l)
      PROVE  psp'[k] = psp[k]
  BY <1>2 DEF PspSettles, PspFails
<1> QED
  BY <1>1, <1>2
  DEF Next, CallStep, HookStep, Request, LookupKey, Reserve, InsertRow, Undo, Rollback,
      Store, ConfirmInline, SumInline, ReleaseInline, Review, Cancel, Deliver,
      Flip, SumHook, ReleaseHook, GiveBack, Acknowledge, MoveOn, CrashCall, CrashDelivery, provider, vars

\* What the provider has sent stays sent, of a row that keeps its amount.
LEMMA SentStays ==
  ASSUME Shape, [Next]_vars, NEW k \in Keys, Sent(k)
  PROVE  Sent(k)' /\ row'[k].amount = row[k].amount
<1> USE DEF Shape, Types
<1>1. psp[k] # "none" /\ row[k].status # "none"
  BY DEF Sent, Reports, Owners
<1>2. emitted \subseteq emitted'
  BY DEF Next, CallStep, HookStep, Request, LookupKey, Reserve, InsertRow, Undo, AskProvider, Rollback,
         Store, ConfirmInline, SumInline, ReleaseInline, Review, Cancel, PspSettles, PspFails, Deliver,
         Flip, SumHook, ReleaseHook, GiveBack, Acknowledge, MoveOn, CrashCall, CrashDelivery, provider, vars
<1>3. Sync /\ psp[k] = "succeeded" => psp'[k] = "succeeded"
  BY SyncStays
<1>4. row'[k].amount = row[k].amount
  <2>1. ASSUME NEW c \in Calls, CallStep(c) PROVE row'[k].amount = row[k].amount
    <3>0. call[c].pc # "idle" => call[c].key \in Keys
      BY DEF Busy
    <3>1. CASE InsertRow(c)
      BY <1>1, <3>1 DEF InsertRow
    <3>2. CASE Rollback(c)
      BY <3>0, <3>2, StatusType DEF Rollback
    <3>3. CASE Store(c)
      BY <3>0, <3>3, KnownType DEF Store
    <3>4. CASE ConfirmInline(c)
      BY <3>0, <3>4, StatusType DEF ConfirmInline
    <3> QED
      BY <2>1, <3>1, <3>2, <3>3, <3>4
      DEF CallStep, LookupKey, Reserve, Undo, AskProvider, SumInline, ReleaseInline, Review, Cancel, books
  <2>2. ASSUME NEW d \in Deliveries, HookStep(d) PROVE row'[k].amount = row[k].amount
    <3>1. CASE Flip(d)
      <4>1. hook[d].key \in Keys /\ hook[d].kind \in {"succeeded", "failed"}
        BY <3>1 DEF Flip, Busy
      <4> QED
        BY <3>1, <4>1, StatusType DEF Flip
    <3> QED
      BY <2>2, <3>1 DEF HookStep, SumHook, ReleaseHook, GiveBack, Acknowledge, books
  <2> QED
    BY <2>1, <2>2
    DEF Next, Request, PspSettles, PspFails, Deliver, MoveOn, CrashCall, CrashDelivery, books, vars
<1> QED
  BY <1>2, <1>3, <1>4, MethodStays DEF Sent, Sync

LEMMA SettledStep ==
  ASSUME Shape, Settled, [Next]_vars
  PROVE  Settled'
<1> USE DEF Shape, Types
<1>1. ASSUME NEW k \in Keys, row[k].status = "succeeded" PROVE Sent(k)'
  BY <1>1, SentStays DEF Settled
<1>2. ASSUME NEW k \in Keys, row'[k].status = "succeeded", row[k].status # "succeeded"
      PROVE  Sent(k)
  <2>1. ASSUME NEW c \in Calls, CallStep(c) PROVE ConfirmInline(c) /\ call[c].key = k
    <3>0. call[c].pc # "idle" => call[c].key \in Keys
      BY DEF Busy
    <3>1. CASE InsertRow(c)
      BY <1>2, <3>1 DEF InsertRow
    <3>2. CASE Rollback(c)
      BY <1>2, <3>0, <3>2, StatusType DEF Rollback
    <3>3. CASE Store(c)
      BY <1>2, <3>0, <3>3, KnownType DEF Store
    <3>4. CASE ConfirmInline(c)
      BY <1>2, <3>0, <3>4, StatusType DEF ConfirmInline
    <3> QED
      BY <1>2, <2>1, <3>1, <3>2, <3>3, <3>4
      DEF CallStep, LookupKey, Reserve, Undo, AskProvider, SumInline, ReleaseInline, Review, Cancel, books
  <2>2. ASSUME NEW d \in Deliveries, HookStep(d) PROVE Sent(k)
    <3>1. CASE Flip(d)
      <4>1. /\ hook[d].key \in Keys /\ hook[d].kind \in {"succeeded", "failed"}
            /\ <<hook[d].key, hook[d].kind>> \in emitted
        BY <3>1 DEF Flip, Busy
      <4>2. hook[d].key = k /\ hook[d].kind = "succeeded"
        BY <1>2, <3>1, <4>1, StatusType DEF Flip
      <4> QED
        BY <4>1, <4>2 DEF Sent
    <3> QED
      BY <1>2, <2>2, <3>1 DEF HookStep, SumHook, ReleaseHook, GiveBack, Acknowledge, books
  <2>3. ASSUME NEW c \in Calls, ConfirmInline(c), call[c].key = k PROVE Sent(k)
    BY <2>3 DEF ConfirmInline, Settled, Sent
  <2> QED
    BY <1>2, <2>1, <2>2, <2>3
    DEF Next, Request, PspSettles, PspFails, Deliver, MoveOn, CrashCall, CrashDelivery, books, vars
<1>3. \A k \in Keys : row'[k].status = "succeeded" => Sent(k)'
  BY <1>1, <1>2, SentStays
<1>4. ASSUME NEW c \in Calls, call'[c].pc = "confirm" PROVE Sync
  <2>1. CASE call[c].pc = "confirm"
    BY <2>1 DEF Settled
  <2>2. CASE call[c].pc # "confirm"
    <3>1. ASSUME NEW b \in Calls, CallStep(b) PROVE Store(b) /\ Sync
      <4>1. b = c
        <5>1. PICK pc \in CallStates : (pc = "idle" /\ Return(b)) \/ Goto(b, pc)
          BY <3>1
          DEF CallStep, LookupKey, Reserve, InsertRow, Undo, AskProvider, Rollback, Store,
              ConfirmInline, SumInline, ReleaseInline, Review, Cancel, CallStates
        <5> QED
          BY <1>4, <2>2, <5>1, GotoType, ReturnType
      <4>2. PICK pc \in CallStates :
              /\ (pc = "idle" /\ Return(b)) \/ Goto(b, pc)
              /\ pc = "confirm" => Store(b) /\ Sync
        BY <3>1
        DEF CallStep, LookupKey, Reserve, InsertRow, Undo, AskProvider, Rollback, Store,
            ConfirmInline, SumInline, ReleaseInline, Review, Cancel, CallStates
      <4> QED
        BY <1>4, <4>1, <4>2, GotoType, ReturnType
    <3>2. ASSUME NEW b \in Calls, CrashCall(b) PROVE FALSE
      BY <1>4, <2>2, <3>2, ReturnType DEF CrashCall
    <3>3. ASSUME NEW b \in Calls, NEW k \in Keys, NEW a \in 1 .. Total, Request(b, k, a) PROVE FALSE
      BY <1>4, <2>2, <3>3 DEF Request
    <3> QED
      BY <1>4, <2>2, <3>1, <3>2, <3>3
      DEF Next, HookStep, Flip, SumHook, ReleaseHook, GiveBack, Acknowledge, PspSettles, PspFails,
          Deliver, MoveOn, CrashDelivery, vars
  <2> QED
    BY <2>1, <2>2
<1>5. ASSUME Sync, NEW c \in Calls, call'[c].pc \in {"store", "confirm"}
      PROVE  psp'[call'[c].key] = "succeeded"
  <2>1. CASE call[c].pc \in {"store", "confirm"} /\ call'[c].key = call[c].key
    <3>1. call[c].key \in Keys /\ psp[call[c].key] = "succeeded"
      BY <1>5, <2>1 DEF Settled, Busy
    <3> QED
      BY <1>5, <2>1, <3>1, SyncStays
  <2>2. CASE ~(call[c].pc \in {"store", "confirm"} /\ call'[c].key = call[c].key)
    <3>1. ASSUME NEW b \in Calls, CallStep(b) PROVE AskProvider(b) /\ b = c
      <4>1. PICK pc \in CallStates : (pc = "idle" /\ Return(b)) \/ Goto(b, pc)
        BY <3>1
        DEF CallStep, LookupKey, Reserve, InsertRow, Undo, AskProvider, Rollback, Store,
            ConfirmInline, SumInline, ReleaseInline, Review, Cancel, CallStates
      <4>2. b = c
        BY <1>5, <2>2, <4>1, GotoType, ReturnType
      <4>3. /\ Goto(b, call'[c].pc) /\ call'[c].key = call[c].key
        BY <1>5, <4>1, <4>2, GotoType, ReturnType
      <4>4. call[c].pc \notin {"store", "confirm"}
        BY <2>2, <4>3
      <4>5. CASE LookupKey(b) \/ Reserve(b) \/ InsertRow(b) \/ SumInline(b) \/ ReleaseInline(b) \/ Review(b)
        <5>1. PICK to \in CallStates \ {"store", "confirm"} : (to = "idle" /\ Return(b)) \/ Goto(b, to)
          BY <4>5 DEF LookupKey, Reserve, InsertRow, SumInline, ReleaseInline, Review, CallStates
        <5> QED
          BY <1>5, <4>2, <5>1, GotoType, ReturnType
      <4>6. CASE Undo(b) \/ Rollback(b) \/ Cancel(b)
        BY <1>5, <4>2, <4>6, ReturnType DEF Undo, Rollback, Cancel
      <4>7. CASE Store(b) \/ ConfirmInline(b)
        BY <4>2, <4>4, <4>7 DEF Store, ConfirmInline
      <4> QED
        BY <3>1, <4>2, <4>5, <4>6, <4>7 DEF CallStep
    <3>2. CASE AskProvider(c)
      <4>1. call[c].key \in Keys
        BY <3>2 DEF AskProvider, Busy
      <4>2. PICK pc \in {"rollback", "store"} :
              /\ Goto(c, pc)
              /\ pc = "store" => psp' = [psp EXCEPT ![call[c].key] = "succeeded"]
        BY <1>5, <3>2 DEF AskProvider
      <4>3. call'[c].pc = pc /\ call'[c].key = call[c].key
        BY <4>2, GotoType DEF CallStates
      <4>4. psp'[call[c].key] = "succeeded"
        BY <1>5, <4>1, <4>2, <4>3
      <4> QED
        BY <4>3, <4>4
    <3>3. ASSUME NEW b \in Calls, CrashCall(b) PROVE FALSE
      BY <1>5, <2>2, <3>3, ReturnType DEF CrashCall
    <3>4. ASSUME NEW b \in Calls, NEW k \in Keys, NEW a \in 1 .. Total, Request(b, k, a) PROVE FALSE
      BY <1>5, <2>2, <3>4 DEF Request
    <3> QED
      BY <1>5, <2>2, <3>1, <3>2, <3>3, <3>4
      DEF Next, HookStep, Flip, SumHook, ReleaseHook, GiveBack, Acknowledge, PspSettles, PspFails,
          Deliver, MoveOn, CrashDelivery, vars
  <2> QED
    BY <2>1, <2>2
<1> QED
  BY <1>3, <1>4, <1>5, MethodStays DEF Settled, Sync

LEMMA EverSentType == Shape => EverSent \in Nat
<1> SUFFICES ASSUME Shape PROVE EverSent \in Nat
  OBVIOUS
<1>1. SentAmounts \in [Keys -> 0 .. Total]
  BY RefundAssumption DEF Shape, Types, RowType, Amounts, SentAmounts
<1> QED
  BY <1>1, TallyType, RefundAssumption DEF EverSent

\* The coupon is released only after the provider sent the whole total back,
\* with crashes, reversals, lost answers and every order of events.
THEOREM NotifiedAfterReturn == Spec => []NoticeOnReturn
<1> DEFINE R == Releasing => EverSent >= Total
<1>1. Init => Settled /\ R
  BY DEF Init, Settled, Releasing, NoRow, IdleCall, IdleHook
<1>2. ASSUME Sound, Settled
      PROVE  /\ SentAmounts \in [Keys -> 0 .. Total] /\ EverSent \in Nat
             /\ InRows({"succeeded"}) <= EverSent
  <2>1. /\ Total \in Nat /\ IsFiniteSet(Keys) /\ RowAmounts({"succeeded"}) \in [Keys -> 0 .. Total]
        /\ \A k \in Keys : row[k].amount \in 0 .. Total
    BY <1>2, AmountTypes, RefundAssumption DEF Sound, Shape, Types, RowType
  <2>2. SentAmounts \in [Keys -> 0 .. Total]
    BY <2>1 DEF SentAmounts
  <2>3. \A k \in Keys : RowAmounts({"succeeded"})[k] <= SentAmounts[k]
    BY <1>2, <2>1 DEF SentAmounts, RowAmounts, Settled
  <2> QED
    BY <2>1, <2>2, <2>3, TallyMonotone, TallyType DEF EverSent, InRows
<1>3. ASSUME Sound, Settled, [Next]_vars, Sound', Settled' PROVE EverSent' >= EverSent
  <2>1. SentAmounts \in [Keys -> 0 .. Total]
    BY <1>2, <1>3
  <2>2. SentAmounts' \in [Keys -> 0 .. Total]
    BY <1>3, RefundAssumption DEF Sound, Shape, Types, RowType, Amounts, SentAmounts
  <2>3. \A k \in Keys : SentAmounts[k] <= SentAmounts'[k]
    <3> SUFFICES ASSUME NEW k \in Keys PROVE SentAmounts[k] <= SentAmounts'[k]
      OBVIOUS
    <3>1. CASE Sent(k)
      <4>1. Sent(k)' /\ row'[k].amount = row[k].amount
        BY <1>3, <3>1, SentStays DEF Sound
      <4>2. SentAmounts[k] = row[k].amount /\ SentAmounts'[k] = row'[k].amount
        BY <3>1, <4>1 DEF SentAmounts
      <4> QED
        BY <2>1, <4>1, <4>2
    <3>2. CASE ~Sent(k)
      BY <2>2, <3>2 DEF SentAmounts
    <3> QED
      BY <3>1, <3>2
  <2>4. IsFiniteSet(Keys) /\ Total \in Nat
    BY RefundAssumption
  <2>5. Tally(Keys, Total, SentAmounts) <= Tally(Keys, Total, SentAmounts')
    BY <2>1, <2>2, <2>3, <2>4, TallyMonotone
  <2>6. Tally(Keys, Total, SentAmounts) \in Nat /\ Tally(Keys, Total, SentAmounts') \in Nat
    BY <2>1, <2>2, <2>4, TallyType
  <2> QED
    BY <2>5, <2>6 DEF EverSent
<1>4. ASSUME Sound, Settled, [Next]_vars, Releasing', ~Releasing PROVE EverSent >= Total
  <2> USE DEF Sound, Shape, Types
  <2>1. ASSUME Covered PROVE EverSent >= Total
    BY <1>2, <1>4, <2>1, SumTypes, RefundAssumption DEF Covered
  <2>2. ASSUME NEW c \in Calls, CallStep(c) PROVE Covered
    <3>1. CASE SumInline(c)
      <4>1. ~Covered => call'[c].pc = "review" /\ \A b \in Calls : b # c => call'[b] = call[b]
        BY <1>4, <3>1, GotoType DEF SumInline, CallStates
      <4> QED
        BY <1>4, <3>1, <4>1 DEF SumInline, Releasing, books
    <3>2. CASE ~SumInline(c)
      <4>1. call[c].pc # "release"
        BY <1>4 DEF Releasing
      <4>2. notices' = notices /\ hook' = hook
        BY <2>2, <3>2, <4>1
        DEF CallStep, LookupKey, Reserve, InsertRow, Undo, AskProvider, Rollback, Store,
            ConfirmInline, ReleaseInline, Review, Cancel, books
      <4>3. PICK pc \in CallStates \ {"release"} : (pc = "idle" /\ Return(c)) \/ Goto(c, pc)
        BY <2>2, <3>2
        DEF CallStep, LookupKey, Reserve, InsertRow, Undo, AskProvider, Rollback, Store,
            ConfirmInline, ReleaseInline, Review, Cancel, CallStates
      <4>4. call'[c].pc # "release" /\ \A b \in Calls : b # c => call'[b] = call[b]
        BY <1>4, <4>3, GotoType, ReturnType
      <4> QED
        BY <1>4, <4>2, <4>4 DEF Releasing
    <3> QED
      BY <3>1, <3>2
  <2>3. ASSUME NEW d \in Deliveries, HookStep(d) PROVE Covered
    <3>1. CASE SumHook(d)
      <4>1. ~Covered => hook'[d].pc = "ack" /\ \A e \in Deliveries : e # d => hook'[e] = hook[e]
        BY <1>4, <3>1, GotoHookType DEF SumHook, HookStates
      <4> QED
        BY <1>4, <3>1, <4>1 DEF SumHook, Releasing, books
    <3>2. CASE ~SumHook(d)
      <4>1. hook[d].pc # "release"
        BY <1>4 DEF Releasing
      <4>2. notices' = notices /\ call' = call
        BY <2>3, <3>2, <4>1 DEF HookStep, Flip, ReleaseHook, GiveBack, Acknowledge
      <4>3. hook'[d].pc # "release" /\ \A e \in Deliveries : e # d => hook'[e] = hook[e]
        <5>1. CASE Acknowledge(d)
          BY <1>4, <5>1 DEF Acknowledge, IdleHook
        <5>2. CASE ~Acknowledge(d)
          <6>1. PICK pc \in HookStates \ {"release"} : GotoHook(d, pc)
            BY <2>3, <3>2, <4>1, <5>2 DEF HookStep, Flip, ReleaseHook, GiveBack, HookStates
          <6> QED
            BY <1>4, <6>1, GotoHookType
        <5> QED
          BY <5>1, <5>2
      <4> QED
        BY <1>4, <4>2, <4>3 DEF Releasing
    <3> QED
      BY <3>1, <3>2
  <2>4. ASSUME NEW c \in Calls, CrashCall(c) PROVE FALSE
    <3>1. /\ call'[c].pc = "idle" /\ \A b \in Calls : b # c => call'[b] = call[b]
          /\ UNCHANGED <<hook, notices>>
      BY <1>4, <2>4, ReturnType DEF CrashCall, books
    <3> QED
      BY <1>4, <3>1 DEF Releasing
  <2>5. ASSUME NEW d \in Deliveries, CrashDelivery(d) PROVE FALSE
    BY <1>4, <2>5 DEF CrashDelivery, books, IdleHook, Releasing
  <2>6. ASSUME NEW c \in Calls, NEW k \in Keys, NEW a \in 1 .. Total, Request(c, k, a) PROVE FALSE
    BY <1>4, <2>6 DEF Request, books, Releasing
  <2>7. ASSUME NEW d \in Deliveries, NEW e \in Events, Deliver(d, e) PROVE FALSE
    BY <1>4, <2>7 DEF Deliver, Releasing
  <2> QED
    BY <1>4, <2>1, <2>2, <2>3, <2>4, <2>5, <2>6, <2>7
    DEF Next, PspSettles, PspFails, MoveOn, vars, books, Releasing
<1>5. Sound /\ Settled /\ R /\ [Next]_vars /\ Sound' => Settled' /\ R'
  <2> SUFFICES ASSUME Sound, Settled, R, [Next]_vars, Sound' PROVE Settled' /\ R'
    OBVIOUS
  <2>1. Settled'
    BY SettledStep DEF Sound
  <2>2. EverSent' >= EverSent /\ EverSent \in Nat
    BY <1>2, <1>3, <2>1
  <2>3. EverSent' \in Nat
    <3>1. (Shape => EverSent \in Nat)'
      BY EverSentType, PTL
    <3> QED
      BY <3>1 DEF Sound
  <2>4. Releasing' => EverSent >= Total
    BY <1>4
  <2> QED
    BY <2>1, <2>2, <2>3, <2>4, RefundAssumption
<1>6. Sound /\ R => NoticeOnReturn
  BY DEF Releasing, NoticeOnReturn
<1> QED
  BY <1>1, <1>5, <1>6, SoundInvariant, PTL DEF Spec

-----------------------------------------------------------------------------
(* A synchronous gateway: nothing is left to a webhook                     *)

\* A synchronous provider holds nothing back and reports nothing; a pending row is
\* in the hands of a call that will settle it, and once the succeeded rows cover the
\* total the notice is mailed, or a call is about to.
Inline ==
  Sync =>
    /\ emitted = {} /\ \A k \in Keys : psp[k] # "accepted"
    /\ \A k \in Keys : row[k].status = "pending" =>
         \E c \in Calls : call[c].key = k /\ (Owns(c) \/ call[c].pc = "confirm")
    /\ Covered => notices > 0 \/ \E c \in Calls : call[c].pc \in {"total", "release"}

\* The sum of the succeeded rows depends on those rows alone.
LEMMA CoveredSame ==
  ASSUME \A k \in Keys : /\ row'[k].status = "succeeded" <=> row[k].status = "succeeded"
                         /\ row[k].status = "succeeded" => row'[k].amount = row[k].amount
  PROVE  Covered' <=> Covered
<1>1. RowAmounts({"succeeded"})' = RowAmounts({"succeeded"})
  BY DEF RowAmounts
<1> QED
  BY <1>1 DEF Covered, InRows

LEMMA InlineCall ==
  ASSUME Shape, Inline, Sync, Sync', NEW c \in Calls, CallStep(c)
  PROVE  Inline'
<1> USE DEF Shape, Types
<1> DEFINE k == call[c].key
           Held(l) == \E b \in Calls : call[b].key = l /\ (Owns(b) \/ call[b].pc = "confirm")
           Due == notices > 0 \/ \E b \in Calls : call[b].pc \in {"total", "release"}
<1>0. /\ call[c].pc # "idle" /\ k \in Keys
      /\ emitted = {} /\ \A l \in Keys : psp[l] # "accepted"
      /\ \A l \in Keys : row[l].status = "pending" => Held(l)
      /\ Covered => Due
  BY DEF Inline, Busy, CallStep, LookupKey, Reserve, InsertRow, Undo, AskProvider, Rollback, Store,
         ConfirmInline, SumInline, ReleaseInline, Review, Cancel
<1>1. /\ emitted' = {} /\ \A l \in Keys : psp'[l] # "accepted"
  BY <1>0 DEF CallStep, LookupKey, Reserve, InsertRow, Undo, AskProvider, Rollback, Store,
              ConfirmInline, SumInline, ReleaseInline, Review, Cancel, provider
\* A step that keeps the rows, from a place that holds none to another.
<1>2. ASSUME UNCHANGED row, notices' >= notices, notices' \in Nat, NEW pc,
             call'[c].pc = pc, pc # "idle" => call'[c].key = k,
             \A b \in Calls : b # c => call'[b] = call[b],
             (Owns(c) \/ call[c].pc = "confirm") => pc \in {"ask", "rollback", "store", "confirm"} \/ row[k].status # "pending",
             Covered /\ call[c].pc \in {"total", "release"} => notices' > 0 \/ pc \in {"total", "release"}
      PROVE  Inline'
  <2>1. Covered' => Covered
    BY <1>2, CoveredSame
  <2>2. \A l \in Keys : row'[l].status = "pending" => Held(l)'
    BY <1>0, <1>2 DEF Owns
  <2>3. Covered' => Due'
    BY <1>0, <1>2, <2>1
  <2> QED
    BY <1>1, <2>2, <2>3 DEF Inline
<1>3. ASSUME NEW pc \in CallStates, pc \notin {"ask", "rollback", "store", "confirm"},
             \/ pc = "idle" /\ Return(c)
             \/ Goto(c, pc),
             UNCHANGED row, notices' >= notices, notices' \in Nat,
             ~Owns(c), call[c].pc = "confirm" => row[k].status # "pending",
             Covered /\ call[c].pc \in {"total", "release"} => notices' > 0 \/ pc \in {"total", "release"}
      PROVE  Inline'
  <2>1. /\ call'[c].pc = pc
        /\ pc # "idle" => call'[c].key = k
        /\ \A b \in Calls : b # c => call'[b] = call[b]
    BY <1>3, GotoType, ReturnType
  <2> QED
    BY <1>2, <1>3, <2>1
<1>4. notices \in Nat
  OBVIOUS
<1>5. CASE LookupKey(c) \/ Reserve(c) \/ Undo(c) \/ Review(c) \/ Cancel(c)
  <2>1. PICK pc \in {"idle", "reserve", "insert", "cancel"} :
          (pc = "idle" /\ Return(c)) \/ Goto(c, pc)
    BY <1>5 DEF LookupKey, Reserve, Undo, Review, Cancel
  <2>2. UNCHANGED <<row, notices>> /\ call[c].pc \in {"lookup", "reserve", "undo", "review", "cancel"}
    BY <1>5 DEF LookupKey, Reserve, Undo, Review, Cancel, books
  <2> QED
    BY <1>3, <1>4, <2>1, <2>2 DEF Owns, CallStates
<1>6. CASE InsertRow(c)
  <2>1. CASE row[k].status # "none"
    <3>1. Goto(c, "undo") /\ UNCHANGED <<row, notices>> /\ call[c].pc = "insert"
      BY <1>6, <2>1 DEF InsertRow
    <3> QED
      BY <1>3, <1>4, <3>1 DEF Owns, CallStates
  <2>2. CASE row[k].status = "none"
    <3>1. /\ Goto(c, "ask") /\ UNCHANGED notices /\ call[c].pc = "insert"
          /\ row' = [row EXCEPT ![k] = [status |-> "pending", amount |-> call[c].amount, refundId |-> "null"]]
      BY <1>6, <2>2 DEF InsertRow
    <3>2. /\ call'[c].pc = "ask" /\ call'[c].key = k /\ \A b \in Calls : b # c => call'[b] = call[b]
      BY <3>1, GotoType DEF CallStates
    <3>3. row'[k].status = "pending" /\ \A l \in Keys : l # k => row'[l] = row[l]
      BY <1>0, <3>1
    <3>4. Covered' <=> Covered
      BY <2>2, <3>3, CoveredSame
    <3>5. \A l \in Keys : row'[l].status = "pending" => Held(l)'
      BY <1>0, <3>1, <3>2, <3>3 DEF Owns
    <3>6. Covered' => Due'
      BY <1>0, <3>1, <3>2, <3>4
    <3> QED
      BY <1>1, <3>5, <3>6 DEF Inline
  <2> QED
    BY <2>1, <2>2
<1>7. CASE AskProvider(c)
  <2>1. PICK pc \in {"rollback", "store"} : Goto(c, pc)
    BY <1>7 DEF AskProvider
  <2>2. UNCHANGED <<row, notices>> /\ call[c].pc = "ask"
    BY <1>7 DEF AskProvider, books
  <2>3. /\ call'[c].pc = pc /\ call'[c].key = k /\ \A b \in Calls : b # c => call'[b] = call[b]
    BY <2>1, GotoType DEF CallStates
  <2> QED
    BY <1>2, <1>4, <2>2, <2>3 DEF Owns
<1>8. CASE Rollback(c)
  <2>1. /\ Return(c) /\ row' = [row EXCEPT ![k].status = "failed"] /\ UNCHANGED notices
        /\ call[c].pc = "rollback" /\ row[k].status = "pending"
    BY <1>8 DEF Rollback, Owners, Owns
  <2>2. /\ row'[k].status = "failed" /\ \A l \in Keys : l # k => row'[l] = row[l]
        /\ \A b \in Calls : b # c => call'[b] = call[b]
    BY <1>0, <2>1, StatusType, ReturnType
  <2>3. Covered' <=> Covered
    BY <2>1, <2>2, CoveredSame
  <2>4. \A l \in Keys : row'[l].status = "pending" => Held(l)'
    BY <1>0, <2>2 DEF Owns
  <2>5. Covered' => Due'
    BY <1>0, <2>1, <2>2, <2>3
  <2> QED
    BY <1>1, <2>4, <2>5 DEF Inline
<1>9. CASE Store(c)
  <2>1. /\ Goto(c, "confirm") /\ row' = [row EXCEPT ![k].refundId = "stored"] /\ UNCHANGED notices
        /\ call[c].pc = "store" /\ row[k].status = "pending"
    BY <1>9 DEF Store, Owners, Owns
  <2>2. /\ row'[k].status = "pending" /\ \A l \in Keys : l # k => row'[l] = row[l]
        /\ call'[c].pc = "confirm" /\ call'[c].key = k /\ \A b \in Calls : b # c => call'[b] = call[b]
    BY <1>0, <2>1, KnownType, GotoType DEF CallStates
  <2>3. Covered' <=> Covered
    BY <2>1, <2>2, CoveredSame
  <2>4. \A l \in Keys : row'[l].status = "pending" => Held(l)'
    BY <1>0, <2>1, <2>2 DEF Owns
  <2>5. Covered' => Due'
    BY <1>0, <2>1, <2>2, <2>3
  <2> QED
    BY <1>1, <2>4, <2>5 DEF Inline
<1>10. CASE ConfirmInline(c)
  <2>1. CASE row[k].status # "pending"
    <3>1. Goto(c, "review") /\ UNCHANGED <<row, notices>> /\ call[c].pc = "confirm"
      BY <1>10, <2>1 DEF ConfirmInline
    <3> QED
      BY <1>3, <1>4, <2>1, <3>1 DEF Owns, CallStates
  <2>2. CASE row[k].status = "pending"
    <3>1. /\ Goto(c, "total") /\ row' = [row EXCEPT ![k].status = "succeeded"] /\ UNCHANGED notices
          /\ call[c].pc = "confirm"
      BY <1>10, <2>2 DEF ConfirmInline
    <3>2. /\ row'[k].status = "succeeded" /\ \A l \in Keys : l # k => row'[l] = row[l]
          /\ call'[c].pc = "total" /\ \A b \in Calls : b # c => call'[b] = call[b]
      BY <1>0, <3>1, StatusType, GotoType DEF CallStates
    <3>3. \A l \in Keys : row'[l].status = "pending" => Held(l)'
      BY <1>0, <3>2 DEF Owns
    <3> QED
      BY <1>1, <3>2, <3>3 DEF Inline
  <2> QED
    BY <2>1, <2>2
<1>11. CASE SumInline(c)
  <2>1. /\ call[c].pc = "total" /\ UNCHANGED <<row, notices>>
        /\ Goto(c, IF Covered THEN "release" ELSE "review")
    BY <1>11 DEF SumInline, books
  <2>2. CASE Covered
    BY <1>3, <1>4, <2>1, <2>2 DEF Owns, CallStates
  <2>3. CASE ~Covered
    BY <1>3, <1>4, <2>1, <2>3 DEF Owns, CallStates
  <2> QED
    BY <2>2, <2>3
<1>12. CASE ReleaseInline(c)
  <2>1. /\ call[c].pc = "release" /\ UNCHANGED row /\ notices' = notices + 1 /\ Goto(c, "review")
    BY <1>12 DEF ReleaseInline
  <2>2. notices' >= notices /\ notices' \in Nat /\ notices' > 0
    BY <1>4, <2>1
  <2> QED
    BY <1>3, <2>1, <2>2 DEF Owns, CallStates
<1> QED
  BY <1>5, <1>6, <1>7, <1>8, <1>9, <1>10, <1>11, <1>12 DEF CallStep

LEMMA InlineStep ==
  ASSUME "call" \notin Crashes, Shape, Inline, [Next]_vars
  PROVE  Inline'
<1> USE DEF Shape, Types
<1> SUFFICES ASSUME Sync' PROVE Inline'
  BY DEF Inline
<1>1. Sync
  BY MethodStays DEF Sync
<1>2. \A d \in Deliveries : hook[d].pc = "idle"
  BY <1>1 DEF Inline, Busy
<1>3. ASSUME UNCHANGED <<row, notices, psp, emitted>>,
             \A c \in Calls : call'[c] = call[c] \/ (call[c].pc = "idle" /\ call'[c].pc # "idle")
      PROVE  Inline'
  <2>1. Covered' <=> Covered
    BY <1>3, CoveredSame
  <2> QED
    BY <1>1, <1>3, <2>1 DEF Inline, Owns
<1>4. ASSUME NEW c \in Calls, NEW k \in Keys, NEW a \in 1 .. Total, Request(c, k, a) PROVE Inline'
  BY <1>3, <1>4 DEF Request, books, provider
<1>5. CASE MoveOn \/ UNCHANGED vars
  BY <1>3, <1>5 DEF MoveOn, books, provider, vars
<1>6. ASSUME NEW k \in Keys, PspSettles(k) \/ PspFails(k) PROVE FALSE
  BY <1>1, <1>6 DEF PspSettles, PspFails, Inline
<1>7. ASSUME NEW d \in Deliveries, HookStep(d) \/ CrashDelivery(d) PROVE FALSE
  BY <1>2, <1>7 DEF HookStep, Flip, SumHook, ReleaseHook, GiveBack, Acknowledge, CrashDelivery
<1>8. ASSUME NEW d \in Deliveries, NEW e \in Events, Deliver(d, e) PROVE FALSE
  BY <1>1, <1>8 DEF Deliver, Inline
<1>9. ASSUME NEW c \in Calls, CrashCall(c) PROVE FALSE
  BY <1>9 DEF CrashCall
<1> QED
  BY <1>1, <1>4, <1>5, <1>6, <1>7, <1>8, <1>9, InlineCall DEF Next

\* While no refund() dies, a synchronous gateway leaves no row pending once the
\* calls are done, and a full refund has been announced: nothing waits for a
\* webhook that never comes.
THEOREM SyncRefundsSettle ==
  ASSUME "call" \notin Crashes
  PROVE  Spec => []InlineSettles
<1>1. Init => Inline
  <2>1. ASSUME Init PROVE ~Covered
    <3>1. RowAmounts({"succeeded"}) \in [Keys -> 0 .. Total]
          /\ \A k \in Keys : RowAmounts({"succeeded"})[k] = 0
      BY <2>1, RefundAssumption DEF Init, NoRow, RowAmounts
    <3>2. InRows({"succeeded"}) = 0
      BY <3>1, TallyZero, RefundAssumption DEF InRows
    <3> QED
      BY <3>2, RefundAssumption DEF Covered
  <2> QED
    BY <2>1 DEF Init, Inline, NoRow
<1>2. Shape /\ Inline /\ [Next]_vars => Inline'
  BY InlineStep
<1>3. Shape /\ Inline => InlineSettles
  BY DEF Inline, InlineSettles, Quiet, Owns
<1> QED
  BY <1>1, <1>2, <1>3, ShapeInvariant, PTL DEF Spec

=============================================================================
