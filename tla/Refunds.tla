------------------------------ MODULE Refunds ------------------------------
(***************************************************************************)
(* src/src/services/paymentGateway.service.ts: the refunds of one paid     *)
(* order.  An admin's refund() reserves the amount on the order, writes a  *)
(* Refund row, asks the provider and cancels the order once all of its     *)
(* total is reserved; the provider reports the outcome by webhook          *)
(* (handleWebhook and _apply), or refund() confirms it inline when the     *)
(* gateway is synchronous.                                                 *)
(*                                                                         *)
(* One action is one database statement, one transaction or one call to    *)
(* the provider.  A Refund row is named by its idempotency key.            *)
(***************************************************************************)
EXTENDS Tally

CONSTANTS
  Keys,             \* idempotency keys, client-supplied or rf_<order>_<hash>
  Calls,            \* concurrent calls of refund()
  Deliveries,       \* concurrent calls of handleWebhook()
  NoKey,
  Total,            \* order.total, in minor units
  Gateways,         \* what gateways may have taken the payment: "sync", "webhook"
  Reversals,        \* may the provider fail a refund it has accepted?
  EarlyEvents,      \* may a webhook overtake the answer of the provider?
  LostAnswers,      \* may the provider's answer be lost on the way?
  Crashes,          \* where a process may die: "call", "delivery"
  LastStatus        \* how far the order may be moved on: "shipped", "delivered"

ASSUME RefundAssumption ==
  /\ IsFiniteSet(Keys) /\ IsFiniteSet(Calls) /\ IsFiniteSet(Deliveries)
  /\ NoKey \notin Keys
  /\ Total \in Nat \ {0}
  /\ Gateways \subseteq {"sync", "webhook"}
  /\ {Reversals, EarlyEvents, LostAnswers} \subseteq BOOLEAN
  /\ Crashes \subseteq {"call", "delivery"}
  /\ LastStatus \in {"shipped", "delivered"}

VARIABLES
  order,      \* order.status
  method,     \* payment.method: a gateway that supports 'sync_refund', or one that
              \* reports refunds by webhook
  coupon,     \* the order's coupon redemption: "held", "released"
  refunded,   \* order.refundedTotal
  row,        \* Refund rows: status, amount, providerRefundId
  ledger,     \* PaymentEvent rows: "none", "open" (applied: false), "applied"
  notices,    \* times the notice of a full refund was mailed
  psp,        \* what the provider has done with the refund of each key
  emitted,    \* the events the provider has to report
  asked,      \* how often the provider was asked for each key
  call,       \* refund(): program counter and locals
  hook        \* handleWebhook(): program counter and event

sale  == <<order, method, coupon>>
books == <<refunded, row, ledger, notices>>
provider == <<psp, emitted, asked>>
vars  == <<sale, books, provider, call, hook>>

Amounts == 0 .. Total
Sync == method = "sync"
Events == Keys \X {"succeeded", "failed"}

NoRow    == [status |-> "none", amount |-> 0, refundId |-> "null"]
IdleCall == [pc |-> "idle", key |-> NoKey, amount |-> 0]
IdleHook == [pc |-> "idle", key |-> NoKey, kind |-> "none"]

RowType  == [status : {"none", "pending", "succeeded", "failed"}, amount : Amounts, refundId : {"null", "stored"}]

CallStates == {"idle", "lookup", "reserve", "insert", "undo", "ask", "rollback",
               "store", "confirm", "total", "release", "review", "cancel"}
HookStates == {"idle", "flip", "total", "release", "giveback", "ack"}

CallType == [pc : CallStates, key : Keys \cup {NoKey}, amount : Amounts]
HookType == [pc : HookStates, key : Keys \cup {NoKey}, kind : {"none", "succeeded", "failed"}]

TypeOK ==
  /\ order \in {"processing", "shipped", "delivered", "cancelled"}
  /\ method \in {"sync", "webhook"}
  /\ coupon \in {"held", "released"}
  /\ refunded \in Nat
  /\ row \in [Keys -> RowType]
  /\ ledger \in [Events -> {"none", "open", "applied"}]
  /\ notices \in Nat
  /\ psp \in [Keys -> {"none", "accepted", "succeeded", "failed"}]
  /\ emitted \subseteq Events
  /\ asked \in [Keys -> Nat]
  /\ call \in [Calls -> CallType]
  /\ hook \in [Deliveries -> HookType]

Init ==
  /\ order = "processing"
  /\ method \in Gateways
  /\ coupon = "held"
  /\ refunded = 0
  /\ row = [k \in Keys |-> NoRow]
  /\ ledger = [e \in Events |-> "none"]
  /\ notices = 0
  /\ psp = [k \in Keys |-> "none"]
  /\ emitted = {}
  /\ asked = [k \in Keys |-> 0]
  /\ call = [c \in Calls |-> IdleCall]
  /\ hook = [d \in Deliveries |-> IdleHook]

-----------------------------------------------------------------------------
(* The sums the code aggregates                                            *)

\* What the rows with a status of S add up to.
RowAmounts(S) == [k \in Keys |-> IF row[k].status \in S THEN row[k].amount ELSE 0]
InRows(S) == Tally(Keys, Total, RowAmounts(S))

\* refund.aggregate over the succeeded rows covers order.total.
Covered == InRows({"succeeded"}) >= Total

-----------------------------------------------------------------------------
(* refund()                                                                *)

Goto(c, pc) == call' = [call EXCEPT ![c].pc = pc]
Return(c) == call' = [call EXCEPT ![c] = IdleCall]

\* The amount is checked against what the order row says now; the gateway is
\* then looked up, so what follows works from this reading.
Request(c, k, a) ==
  /\ call[c].pc = "idle"
  /\ a >= 1 /\ a <= Total - refunded
  /\ call' = [call EXCEPT ![c] = [pc |-> "lookup", key |-> k, amount |-> a]]
  /\ UNCHANGED <<sale, books, provider, hook>>

LookupKey(c) ==
  /\ call[c].pc = "lookup"
  /\ IF row[call[c].key].status # "none" THEN Return(c) ELSE Goto(c, "reserve")
  /\ UNCHANGED <<sale, books, provider, hook>>

\* Mutant: the cap is the one checked when the order was read.
ReserveUnchecked(c) ==
  /\ call[c].pc = "reserve"
  /\ refunded' = refunded + call[c].amount
  /\ Goto(c, "insert")
  /\ UNCHANGED <<sale, row, ledger, notices, provider, hook>>

\* The conditional increment: its WHERE holds the cap against the live row.
Reserve(c) ==
  /\ call[c].pc = "reserve"
  /\ IF refunded <= Total - call[c].amount
     THEN refunded' = refunded + call[c].amount /\ Goto(c, "insert")
     ELSE Return(c) /\ UNCHANGED refunded
  /\ UNCHANGED <<sale, row, ledger, notices, provider, hook>>

\* Mutant: the unique key of the row is not relied on.
InsertRowAnyway(c) ==
  /\ call[c].pc = "insert"
  /\ row' = [row EXCEPT ![call[c].key] =
               [status |-> "pending", amount |-> call[c].amount, refundId |-> "null"]]
  /\ Goto(c, "ask")
  /\ UNCHANGED <<sale, refunded, ledger, notices, provider, hook>>

InsertRow(c) ==
  /\ call[c].pc = "insert"
  /\ IF row[call[c].key].status = "none"
     THEN /\ row' = [row EXCEPT ![call[c].key] =
                       [status |-> "pending", amount |-> call[c].amount, refundId |-> "null"]]
          /\ Goto(c, "ask")
     ELSE Goto(c, "undo") /\ UNCHANGED row
  /\ UNCHANGED <<sale, refunded, ledger, notices, provider, hook>>

\* Mutant: the loser of the key returns the winner and keeps its reservation.
UndoNothing(c) ==
  /\ call[c].pc = "undo"
  /\ Return(c)
  /\ UNCHANGED <<sale, books, provider, hook>>

\* The loser of the key gives its reservation back and returns the winner.
Undo(c) ==
  /\ call[c].pc = "undo"
  /\ refunded' = refunded - call[c].amount
  /\ Return(c)
  /\ UNCHANGED <<sale, row, ledger, notices, provider, hook>>

\* gateway.refund(): accepted and answered, refused, or accepted with the
\* answer lost, which the code cannot tell from a refusal.
AskProvider(c) ==
  LET k == call[c].key IN
  /\ call[c].pc = "ask"
  /\ asked' = [asked EXCEPT ![k] = @ + 1]
  /\ \/ Goto(c, "rollback") /\ UNCHANGED psp
     \/ /\ psp' = [psp EXCEPT ![k] = IF Sync THEN "succeeded" ELSE "accepted"]
        /\ \/ Goto(c, "store")
           \/ LostAnswers /\ Goto(c, "rollback")
  /\ UNCHANGED <<sale, books, emitted, hook>>

\* One transaction: the row fails and the reservation is given back.
Rollback(c) ==
  /\ call[c].pc = "rollback"
  /\ row' = [row EXCEPT ![call[c].key].status = "failed"]
  /\ refunded' = refunded - call[c].amount
  /\ Return(c)
  /\ UNCHANGED <<sale, ledger, notices, provider, hook>>

\* Mutant: the row of a synchronous refund is left to a webhook.
StoreOnly(c) ==
  /\ call[c].pc = "store"
  /\ row' = [row EXCEPT ![call[c].key].refundId = "stored"]
  /\ Goto(c, "review")
  /\ UNCHANGED <<sale, refunded, ledger, notices, provider, hook>>

\* Mutant: the provider's id of the refund is never stored.
StoreNothing(c) ==
  /\ call[c].pc = "store"
  /\ Goto(c, IF Sync THEN "confirm" ELSE "review")
  /\ UNCHANGED <<sale, books, provider, hook>>

Store(c) ==
  /\ call[c].pc = "store"
  /\ row' = [row EXCEPT ![call[c].key].refundId = "stored"]
  /\ Goto(c, IF Sync THEN "confirm" ELSE "review")
  /\ UNCHANGED <<sale, refunded, ledger, notices, provider, hook>>

\* The one-shot flip of a synchronous gateway.
ConfirmInline(c) ==
  LET k == call[c].key IN
  /\ call[c].pc = "confirm"
  /\ IF row[k].status = "pending"
     THEN row' = [row EXCEPT ![k].status = "succeeded"] /\ Goto(c, "total")
     ELSE Goto(c, "review") /\ UNCHANGED row
  /\ UNCHANGED <<sale, refunded, ledger, notices, provider, hook>>

SumInline(c) ==
  /\ call[c].pc = "total"
  /\ Goto(c, IF Covered THEN "release" ELSE "review")
  /\ UNCHANGED <<sale, books, provider, hook>>

\* couponService.releaseForOrder and sendRefundNotice.
ReleaseInline(c) ==
  /\ call[c].pc = "release"
  /\ coupon' = "released"
  /\ notices' = notices + 1
  /\ Goto(c, "review")
  /\ UNCHANGED <<order, method, refunded, row, ledger, provider, hook>>

\* Mutant: only an order that has not shipped is cancelled.
ReviewUnshipped(c) ==
  /\ call[c].pc = "review"
  /\ IF refunded >= Total /\ order = "processing" THEN Goto(c, "cancel") ELSE Return(c)
  /\ UNCHANGED <<sale, books, provider, hook>>

Review(c) ==
  /\ call[c].pc = "review"
  /\ IF refunded >= Total /\ order \in {"processing", "shipped"}
     THEN Goto(c, "cancel") ELSE Return(c)
  /\ UNCHANGED <<sale, books, provider, hook>>

\* transition(cancelled): allowed from every status of a paid order but
\* cancelled itself, where it throws.  It releases the order's coupon.
Cancel(c) ==
  /\ call[c].pc = "cancel"
  /\ order' = "cancelled" /\ coupon' = "released"
  /\ Return(c)
  /\ UNCHANGED <<method, books, provider, hook>>

-----------------------------------------------------------------------------
(* The provider, as the gateways and their webhooks use it                 *)

\* A refund the provider holds settles, and a webhook is due.
PspSettles(k) ==
  /\ psp[k] = "accepted"
  /\ psp' = [psp EXCEPT ![k] = "succeeded"]
  /\ emitted' = emitted \cup {<<k, "succeeded">>}
  /\ UNCHANGED <<sale, books, asked, call, hook>>

\* It may fail instead, or be reversed after it settled.
PspFails(k) ==
  /\ Reversals /\ ~Sync /\ psp[k] \in {"accepted", "succeeded"}
  /\ psp' = [psp EXCEPT ![k] = "failed"]
  /\ emitted' = emitted \cup {<<k, "failed">>}
  /\ UNCHANGED <<sale, books, asked, call, hook>>

-----------------------------------------------------------------------------
(* handleWebhook() and _apply(): one delivery of one event                 *)

GotoHook(d, pc) == hook' = [hook EXCEPT ![d].pc = pc]

\* The ledger row: an event not yet applied is applied (again), one that was
\* is acknowledged as a replay.  Deliveries may be repeated and overtake one
\* another.
Deliver(d, e) ==
  /\ hook[d].pc = "idle" /\ e \in emitted /\ ledger[e] # "applied"
  /\ EarlyEvents \/ \A c \in Calls : call[c].pc = "store" => call[c].key # e[1]
  /\ ledger' = [ledger EXCEPT ![e] = "open"]
  /\ hook' = [hook EXCEPT ![d] = [pc |-> "flip", key |-> e[1], kind |-> e[2]]]
  /\ UNCHANGED <<sale, refunded, row, notices, provider, call>>

\* Mutant: refund.failed decrements once per delivery, not once per refund.
FlipsAnyFailed(d) ==
  LET r == row[hook[d].key] IN
  r.refundId = "stored" /\ (hook[d].kind = "failed" \/ r.status = "pending")

\* Mutant: refund.succeeded is recorded whatever came before it.
FlipsRevived(d) ==
  LET r == row[hook[d].key] IN
  r.refundId = "stored" /\ (hook[d].kind = "succeeded" \/ r.status \in {"pending", "succeeded"})

\* The WHERE of the one-shot flips: the row is found by providerRefundId.
Flips(d) ==
  LET r == row[hook[d].key] IN
  /\ r.refundId = "stored"
  /\ \/ hook[d].kind = "succeeded" /\ r.status = "pending"
     \/ hook[d].kind = "failed" /\ r.status \in {"pending", "succeeded"}

Flip(d) ==
  /\ hook[d].pc = "flip"
  /\ IF Flips(d)
     THEN /\ row' = [row EXCEPT ![hook[d].key].status = hook[d].kind]
          /\ GotoHook(d, IF hook[d].kind = "succeeded" THEN "total" ELSE "giveback")
     ELSE GotoHook(d, "ack") /\ UNCHANGED row
  /\ UNCHANGED <<sale, refunded, ledger, notices, provider, call>>

\* Mutant: the coupon is released on every confirmed refund.
SumHookAlways(d) ==
  /\ hook[d].pc = "total"
  /\ GotoHook(d, "release")
  /\ UNCHANGED <<sale, books, provider, call>>

\* Mutant: the refund that is confirmed is compared with the total by itself.
SumHookAlone(d) ==
  /\ hook[d].pc = "total"
  /\ GotoHook(d, IF row[hook[d].key].amount >= Total THEN "release" ELSE "ack")
  /\ UNCHANGED <<sale, books, provider, call>>

SumHook(d) ==
  /\ hook[d].pc = "total"
  /\ GotoHook(d, IF Covered THEN "release" ELSE "ack")
  /\ UNCHANGED <<sale, books, provider, call>>

ReleaseHook(d) ==
  /\ hook[d].pc = "release"
  /\ coupon' = "released"
  /\ notices' = notices + 1
  /\ GotoHook(d, "ack")
  /\ UNCHANGED <<order, method, refunded, row, ledger, provider, call>>

GiveBack(d) ==
  /\ hook[d].pc = "giveback"
  /\ refunded' = refunded - row[hook[d].key].amount
  /\ GotoHook(d, "ack")
  /\ UNCHANGED <<sale, row, ledger, notices, provider, call>>

Acknowledge(d) ==
  /\ hook[d].pc = "ack"
  /\ ledger' = [ledger EXCEPT ![<<hook[d].key, hook[d].kind>>] = "applied"]
  /\ hook' = [hook EXCEPT ![d] = IdleHook]
  /\ UNCHANGED <<sale, refunded, row, notices, provider, call>>

-----------------------------------------------------------------------------
(* The rest of the system                                                  *)

\* The order is shipped and delivered meanwhile.
MoveOn ==
  /\ \/ order = "processing" /\ order' = "shipped"
     \/ order = "shipped" /\ LastStatus = "delivered" /\ order' = "delivered"
  /\ UNCHANGED <<method, coupon, books, provider, call, hook>>

CrashCall(c) ==
  /\ "call" \in Crashes /\ call[c].pc # "idle"
  /\ Return(c)
  /\ UNCHANGED <<sale, books, provider, hook>>

\* The process dies, or a statement of the handler throws: the event stays
\* open and the provider sends it again.
CrashDelivery(d) ==
  /\ "delivery" \in Crashes /\ hook[d].pc # "idle"
  /\ hook' = [hook EXCEPT ![d] = IdleHook]
  /\ UNCHANGED <<sale, books, provider, call>>

CallStep(c) ==
  \/ LookupKey(c) \/ Reserve(c) \/ InsertRow(c) \/ Undo(c)
  \/ AskProvider(c) \/ Rollback(c) \/ Store(c)
  \/ ConfirmInline(c) \/ SumInline(c) \/ ReleaseInline(c)
  \/ Review(c) \/ Cancel(c)

HookStep(d) ==
  Flip(d) \/ SumHook(d) \/ ReleaseHook(d) \/ GiveBack(d) \/ Acknowledge(d)

Next ==
  \/ \E c \in Calls, k \in Keys, a \in 1 .. Total : Request(c, k, a)
  \/ \E c \in Calls : CallStep(c) \/ CrashCall(c)
  \/ \E k \in Keys : PspSettles(k) \/ PspFails(k)
  \/ \E d \in Deliveries, e \in Events : Deliver(d, e)
  \/ \E d \in Deliveries : HookStep(d) \/ CrashDelivery(d)
  \/ MoveOn

Spec == Init /\ [][Next]_vars

\* A call that has begun runs on, the provider settles what it accepted, and
\* it sends an event again until the event is acknowledged.
FairSpec ==
  /\ Spec
  /\ \A c \in Calls : WF_vars(CallStep(c))
  /\ \A k \in Keys : WF_vars(PspSettles(k))
  /\ \A d \in Deliveries : WF_vars(HookStep(d))
  /\ \A e \in Events : WF_vars(\E d \in Deliveries : Deliver(d, e))

-----------------------------------------------------------------------------
(* Properties                                                              *)

\* The amounts reserved by calls whose row is not written (or was lost to the
\* winner of the key), and those a webhook has yet to give back.
CallAmounts ==
  [c \in Calls |-> IF call[c].pc \in {"insert", "undo"} THEN call[c].amount ELSE 0]
HookAmounts ==
  [d \in Deliveries |-> IF hook[d].pc = "giveback" THEN row[hook[d].key].amount ELSE 0]
InCalls == Tally(Calls, Total, CallAmounts)
InHooks == Tally(Deliveries, Total, HookAmounts)

\* refundedTotal is exactly what stands behind it: the refunds that have not
\* failed, and the reservations still being written or given back.  No failed
\* refund is given back twice and none is forgotten (audit M-2).
LedgerExact == refunded = InRows({"pending", "succeeded"}) + InCalls + InHooks

\* The money the provider has agreed to send back, and what it ever sent.
AgreedAmounts ==
  [k \in Keys |-> IF psp[k] \in {"accepted", "succeeded"} THEN row[k].amount ELSE 0]
Sent(k) == <<k, "succeeded">> \in emitted \/ (Sync /\ psp[k] = "succeeded")
SentAmounts == [k \in Keys |-> IF Sent(k) THEN row[k].amount ELSE 0]
Returned == Tally(Keys, Total, AgreedAmounts)
EverSent == Tally(Keys, Total, SentAmounts)

\* More than the order's total is never sent back, whatever concurrent
\* refunds, retries and failures do: all that is on its way is reserved.
NeverOverRefund == Returned <= refunded /\ refunded <= Total

\* One idempotency key moves money at most once, however many identical
\* requests race (audit C-2).
AskedOnce == \A k \in Keys : asked[k] <= 1

\* A refund the provider failed or reversed stays failed, in whatever order
\* and however often its two events arrive.
FailedStaysFailed ==
  [][\A k \in Keys : row[k].status = "failed" => row'[k].status = "failed"]_vars

\* The customer is told the order was refunded in full only after the provider
\* has sent the whole total back.
NoticeOnReturn == notices > 0 => EverSent >= Total

Quiet == \A c \in Calls : call[c].pc = "idle"

\* Once no refund() is running, an order whose whole total is on its way back
\* is cancelled, unless it had been delivered.
FullRefundCancels ==
  Quiet /\ refunded >= Total => order \in {"cancelled", "delivered"}

\* A synchronous refund leaves no row pending, and one that covers the total
\* has released the coupon (audit C1: no webhook will ever come).
InlineSettles ==
  Sync /\ Quiet =>
    /\ \A k \in Keys : row[k].status # "pending"
    /\ Covered => notices > 0

\* What the provider did is recorded on the row in the end.
OutcomeRecorded ==
  \A k \in Keys : (psp[k] = "succeeded") ~> (row[k].status \in {"succeeded", "failed"})

\* A total whose return is confirmed is announced, and its coupon freed, in the
\* end, unless part of it is reversed first.
FullReturnNotified == Covered ~> (notices > 0 \/ ~Covered)

=============================================================================
