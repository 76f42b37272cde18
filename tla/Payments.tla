------------------------------ MODULE Payments ------------------------------
(***************************************************************************)
(* src/src/services/paymentGateway.service.ts: how one order is paid.  The *)
(* shopper's tabs open intents at a provider (createIntent), charge a      *)
(* tokenised card in the page (payWithToken) and come back from a hosted   *)
(* page (finalizeReturn); the provider reports payments and approvals by   *)
(* webhook (handleWebhook, _apply).  Every path ends in markPaid() of      *)
(* order.service.ts, whose steps are those of OrderLifecycle: what it does *)
(* to stock, mails and vendors is left to that module.                     *)
(*                                                                         *)
(* One action is one database statement, one Redis command or one call to  *)
(* the provider.  A payment is named by the id the provider gives it.      *)
(***************************************************************************)
EXTENDS Integers, FiniteSets

CONSTANTS
  Intents,       \* payments on a provider's page: captured when the shopper pays
  Approvals,     \* the PayPal order, if any: approved there, captured by this system
  Tokens,        \* in-page charges, one per browser token (the attempt key)
  Untagged,      \* intents whose events do not carry the order id
  Tabs,          \* concurrent calls from the shopper's tabs
  Deliveries,    \* concurrent calls of handleWebhook()
  NoId,
  LockExpires,   \* may a charge outlast the 30 seconds of its lock?
  LostAnswers,   \* may the provider's answer to a charge be lost?
  Crashes,       \* the calls that may die with their process
  OperatorRaces  \* may the order die inside markPaid's forced write?

Ids == Intents \cup Approvals \cup Tokens
Callers == Tabs \cup Deliveries
Events == (Ids \X {"succeeded"}) \cup (Approvals \X {"approved"})

ASSUME PaymentsAssumption ==
  /\ IsFiniteSet(Tokens) /\ IsFiniteSet(Callers)
  /\ Intents \cap Approvals = {} /\ Intents \cap Tokens = {} /\ Approvals \cap Tokens = {}
  /\ Tabs \cap Deliveries = {}
  /\ \A i, j \in Approvals : i = j
  /\ Untagged \subseteq Intents
  /\ NoId \notin Ids
  /\ {LockExpires, LostAnswers, OperatorRaces} \subseteq BOOLEAN
  /\ Crashes \subseteq Callers

VARIABLES
  order,     \* order.status: "pending", "processing", or "dead" (cancelled, failed)
  paid,      \* payment.status = 'paid'
  txn,       \* payment.txnId
  via,       \* payment.pspResponse.via: which path settled the payment
  flagged,   \* order.meta.paymentOnTerminalOrder
  lock,      \* the Redis key pay-lock:<order>
  psp,       \* what has become of each id at the provider
  emitted,   \* the events the provider has to report
  applied,   \* PaymentEvent rows with applied = true
  call       \* program counter and locals of each caller

row   == <<order, paid, txn, via, flagged>>
provider == <<psp, emitted>>
vars  == <<row, lock, provider, applied, call>>

NoEvent == <<NoId, "none">>
Idle == [pc |-> "idle", via |-> "none", id |-> NoId, event |-> NoEvent]
CallType ==
  [pc : {"idle", "remember", "lock", "recheck", "charge", "unlock", "status",
         "capture", "claim", "advance", "reread", "flag", "force", "ack"},
   via : {"none", "intent", "token", "return", "webhook"},
   id : Ids \cup {NoId}, event : Events \cup {NoEvent}]

TypeOK ==
  /\ order \in {"pending", "processing", "dead"}
  /\ paid \in BOOLEAN /\ flagged \in BOOLEAN /\ lock \in BOOLEAN
  /\ txn \in Ids \cup {NoId}
  /\ via \in {"none", "token", "return", "webhook"}
  /\ psp \in [Ids -> {"none", "open", "shown", "approved", "captured"}]
  /\ emitted \subseteq Events /\ applied \subseteq emitted
  /\ call \in [Callers -> CallType]

Init ==
  /\ order = "pending"
  /\ paid = FALSE /\ flagged = FALSE /\ lock = FALSE
  /\ txn = NoId /\ via = "none"
  /\ psp = [i \in Ids |-> "none"]
  /\ emitted = {} /\ applied = {}
  /\ call = [c \in Callers |-> Idle]

At(c, pc) == call[c].pc = pc
Begin(c, pc, path, i, e) ==
  /\ At(c, "idle")
  /\ call' = [call EXCEPT ![c] = [pc |-> pc, via |-> path, id |-> i, event |-> e]]
Goto(c, pc) == call' = [call EXCEPT ![c].pc = pc]
Leave(c) == call' = [call EXCEPT ![c] = Idle]

\* What is left to do when a payment has been settled, or needed no settling:
\* free the lock, acknowledge the event, or answer.
Finish(c) ==
  CASE call[c].via = "token"   -> Goto(c, "unlock")
    [] call[c].via = "webhook" -> Goto(c, "ack")
    [] OTHER                   -> Leave(c)

\* An exception: the finally of payWithToken frees the lock; a webhook is not
\* acknowledged, so the provider sends it again.
Throw(c) == IF call[c].via = "token" THEN Goto(c, "unlock") ELSE Leave(c)

-----------------------------------------------------------------------------
(* createIntent()                                                          *)

\* The order is pending and the provider opens the intent.  A PayPal order is
\* created under a key of the shop's order, so a second call gets the same id.
OpenIntent(c, i) ==
  /\ order = "pending"
  /\ i \in Approvals \/ (i \in Intents /\ psp[i] = "none")
  /\ Begin(c, "remember", "intent", i, NoEvent)
  /\ psp' = [psp EXCEPT ![i] = IF @ = "none" THEN "open" ELSE @]
  /\ UNCHANGED <<row, lock, emitted, applied>>

\* The id is written to the payment row, whatever the row has become, and the
\* shopper is sent to the provider.
Remember(c) ==
  /\ At(c, "remember")
  /\ txn' = call[c].id
  /\ psp' = [psp EXCEPT ![call[c].id] = IF @ = "open" THEN "shown" ELSE @]
  /\ Leave(c)
  /\ UNCHANGED <<order, paid, via, flagged, lock, emitted, applied>>

-----------------------------------------------------------------------------
(* The provider, as the gateways use it                                    *)

Capture(i) ==
  /\ psp' = [psp EXCEPT ![i] = "captured"]
  /\ emitted' = emitted \cup {<<i, "succeeded">>}

\* The shopper pays on the provider's page.
PayHosted(i) ==
  /\ i \in Intents /\ psp[i] = "shown"
  /\ Capture(i)
  /\ UNCHANGED <<row, lock, applied, call>>

\* The payer approves in PayPal's window; no money moves.
Approve(i) ==
  /\ i \in Approvals /\ psp[i] = "shown"
  /\ psp' = [psp EXCEPT ![i] = "approved"]
  /\ emitted' = emitted \cup {<<i, "approved">>}
  /\ UNCHANGED <<row, lock, applied, call>>

-----------------------------------------------------------------------------
(* payWithToken()                                                          *)

\* The call is past SET NX and not yet through its finally.
Holds(c) == call[c].via = "token" /\ call[c].pc # "lock"

BeginPay(c, k) ==
  /\ order = "pending"
  /\ Begin(c, "lock", "token", k, NoEvent)
  /\ UNCHANGED <<row, lock, provider, applied>>

\* SET NX: a second charge of the order is refused while one is under way.
TakeLock(c) ==
  /\ At(c, "lock")
  /\ IF lock THEN Leave(c) ELSE Goto(c, "recheck")
  /\ lock' = TRUE
  /\ UNCHANGED <<row, provider, applied>>

\* Mutant: the status read before the lock is relied on.
RecheckNothing(c) ==
  /\ At(c, "recheck")
  /\ Goto(c, "charge")
  /\ UNCHANGED <<row, lock, provider, applied>>

\* The order is read again inside the lock.
Recheck(c) ==
  /\ At(c, "recheck")
  /\ Goto(c, IF order = "pending" THEN "charge" ELSE "unlock")
  /\ UNCHANGED <<row, lock, provider, applied>>

\* The charge, under a key made from the token: a token that was charged answers
\* with its charge.  A decline and a lost answer look the same.
Charge(c) ==
  /\ At(c, "charge")
  /\ \/ psp[call[c].id] = "none" /\ Throw(c) /\ UNCHANGED provider
     \/ Capture(call[c].id) /\ (Goto(c, "claim") \/ (LostAnswers /\ Throw(c)))
  /\ UNCHANGED <<row, lock, applied>>

\* The key is deleted, whoever holds it by now.
Unlock(c) ==
  /\ At(c, "unlock")
  /\ lock' = FALSE
  /\ Leave(c)
  /\ UNCHANGED <<row, provider, applied>>

\* After 30 seconds the key is gone: always when its call died, and under a charge
\* that is still waiting for its answer.
Expire ==
  /\ lock /\ (LockExpires \/ \A c \in Callers : ~Holds(c))
  /\ lock' = FALSE
  /\ UNCHANGED <<row, provider, applied, call>>

-----------------------------------------------------------------------------
(* finalizeReturn()                                                        *)

\* The order and its intent are read once; on an order that is not pending the
\* call only reports.
BeginReturn(c) ==
  /\ order = "pending" /\ txn # NoId
  /\ Begin(c, "status", "return", txn, NoEvent)
  /\ UNCHANGED <<row, lock, provider, applied>>

\* Mutant: coming back from the provider's page is taken for having paid.
StatusTrusted(c) ==
  /\ At(c, "status")
  /\ Goto(c, "claim")
  /\ UNCHANGED <<row, lock, provider, applied>>

\* The provider says what has become of the intent; some are asked again for a
\* few seconds.
Status(c) ==
  /\ At(c, "status")
  /\ CASE psp[call[c].id] = "captured" -> Goto(c, "claim")
       [] psp[call[c].id] = "approved" -> Goto(c, "capture")
       [] OTHER                        -> Leave(c)
  /\ UNCHANGED <<row, lock, provider, applied>>

\* The capture is keyed on the order: a second one answers with the first.  It
\* throws of an id that is no approved PayPal order, and when the provider refuses.
CaptureApproved(c) ==
  LET i == call[c].id IN
  /\ At(c, "capture")
  /\ \/ Throw(c) /\ UNCHANGED provider
     \/ /\ i \in Approvals /\ psp[i] \in {"approved", "captured"}
        /\ Capture(i) /\ (Goto(c, "claim") \/ (LostAnswers /\ Throw(c)))
  /\ UNCHANGED <<row, lock, applied>>

-----------------------------------------------------------------------------
(* markPaid()                                                              *)

\* Mutant: the row is read, and updated without a condition.
ClaimUnconditional(c) ==
  /\ At(c, "claim")
  /\ paid' = TRUE /\ txn' = call[c].id /\ via' = call[c].via
  /\ Goto(c, "advance")
  /\ UNCHANGED <<order, flagged, lock, provider, applied>>

\* One caller flips the payment row; for the others there is nothing to do.
Claim(c) ==
  /\ At(c, "claim")
  /\ IF paid
     THEN Finish(c) /\ UNCHANGED <<paid, txn, via>>
     ELSE /\ paid' = TRUE /\ txn' = call[c].id /\ via' = call[c].via
          /\ Goto(c, "advance")
  /\ UNCHANGED <<order, flagged, lock, provider, applied>>

\* transition() to processing: it throws on an order that is no longer pending, and
\* when a line's stock was overwritten below what the order holds.
Advance(c) ==
  /\ At(c, "advance")
  /\ \/ order = "pending" /\ order' = "processing" /\ Finish(c)
     \/ Goto(c, "reread") /\ UNCHANGED order
  /\ UNCHANGED <<paid, txn, via, flagged, lock, provider, applied>>

\* Mutant: every throw is taken for a shortfall of stock.
ReadLiveConflated(c) ==
  /\ At(c, "reread")
  /\ Goto(c, "force")
  /\ UNCHANGED <<row, lock, provider, applied>>

\* After a throw the order is read again.
ReadLive(c) ==
  /\ At(c, "reread")
  /\ Goto(c, IF order = "pending" THEN "force" ELSE "flag")
  /\ UNCHANGED <<row, lock, provider, applied>>

\* An order that was not waiting for its money is left as it is, for a refund.
FlagForRefund(c) ==
  /\ At(c, "flag")
  /\ flagged' = TRUE
  /\ Finish(c)
  /\ UNCHANGED <<order, paid, txn, via, lock, provider, applied>>

\* The forced write neither locks the order row nor looks at its status.
ForceForward(c) ==
  /\ At(c, "force")
  /\ order' = "processing"
  /\ Finish(c)
  /\ UNCHANGED <<paid, txn, via, flagged, lock, provider, applied>>

-----------------------------------------------------------------------------
(* handleWebhook() and _apply()                                            *)

\* Mutant: an event is matched by the stored intent alone (audit M-1).
ResolvesByIntent(i) == txn = i

\* The payment is found by the intent on its row, or by the order id that the
\* provider carries in the intent's metadata.
Resolves(i) == txn = i \/ i \notin Untagged

\* Mutant: an event is believed without its signature.
SucceededUnverified(c, i) ==
  /\ <<i, "succeeded">> \notin applied
  /\ Begin(c, IF Resolves(i) /\ ~paid THEN "claim" ELSE "ack", "webhook", i, <<i, "succeeded">>)
  /\ UNCHANGED <<row, lock, provider, applied>>

\* An event not yet applied; an event of an unknown intent is only logged.
Succeeded(c, i) ==
  LET e == <<i, "succeeded">> IN
  /\ e \in emitted \ applied
  /\ Begin(c, IF Resolves(i) /\ ~paid THEN "claim" ELSE "ack", "webhook", i, e)
  /\ UNCHANGED <<row, lock, provider, applied>>

\* Mutant: the approval is ledgered and left to the browser.
ApprovedLedgered(c, i) ==
  LET e == <<i, "approved">> IN
  /\ i \in Approvals /\ e \in emitted \ applied
  /\ Begin(c, "ack", "webhook", i, e)
  /\ UNCHANGED <<row, lock, provider, applied>>

\* An approval of a pending order: the intent on its payment row is captured.
Approved(c, i) ==
  LET e == <<i, "approved">> IN
  /\ i \in Approvals /\ e \in emitted \ applied
  /\ IF order = "pending" /\ txn # NoId /\ ~paid
     THEN Begin(c, "capture", "webhook", txn, e)
     ELSE Begin(c, "ack", "webhook", i, e)
  /\ UNCHANGED <<row, lock, provider, applied>>

Acknowledge(c) ==
  /\ At(c, "ack")
  /\ applied' = applied \cup {call[c].event}
  /\ Leave(c)
  /\ UNCHANGED <<row, lock, provider>>

-----------------------------------------------------------------------------
(* The rest of the system                                                  *)

\* The next statement of some markPaid() is its forced write.
BeingForced == \E c \in Callers : At(c, "force")

\* An admin cancels the order, the sweep or a rebuilt checkout fails it.
Die ==
  /\ order \in {"pending", "processing"}
  /\ OperatorRaces \/ ~BeingForced
  /\ order' = "dead"
  /\ UNCHANGED <<paid, txn, via, flagged, lock, provider, applied, call>>

Crash(c) ==
  /\ c \in Crashes /\ ~At(c, "idle")
  /\ Leave(c)
  /\ UNCHANGED <<row, lock, provider, applied>>

TabStep(c) ==
  \/ Remember(c)
  \/ TakeLock(c) \/ Recheck(c) \/ Charge(c) \/ Unlock(c)
  \/ Status(c)

Settling(c) ==
  \/ CaptureApproved(c) \/ Claim(c)
  \/ Advance(c) \/ ReadLive(c) \/ FlagForRefund(c) \/ ForceForward(c)

TabBegins(c) ==
  \/ \E i \in Intents \cup Approvals : OpenIntent(c, i)
  \/ \E k \in Tokens : BeginPay(c, k)
  \/ BeginReturn(c)

HookBegins(d) == \E i \in Ids : Succeeded(d, i) \/ Approved(d, i)

Next ==
  \/ \E c \in Tabs : TabBegins(c) \/ TabStep(c)
  \/ \E d \in Deliveries : HookBegins(d) \/ Acknowledge(d)
  \/ \E c \in Callers : Settling(c) \/ Crash(c)
  \/ \E i \in Ids : PayHosted(i) \/ Approve(i)
  \/ Expire \/ Die

Spec == Init /\ [][Next]_vars

\* The provider sends an event again until it is acknowledged, a handler that does
\* not die runs on, and an approved order that is asked for again and again is
\* captured in the end.
FairSpec ==
  /\ Spec
  /\ \A d \in Deliveries :
       /\ \A i \in Ids : SF_vars(Succeeded(d, i))
       /\ \A i \in Approvals : SF_vars(Approved(d, i))
       /\ WF_vars(Settling(d) \/ Acknowledge(d))
       /\ SF_vars(CaptureApproved(d) /\ psp'[call[d].id] = "captured")

-----------------------------------------------------------------------------
(* Properties                                                              *)

Captured(i) == psp[i] = "captured"

\* Money first: the payment row is marked paid, by whatever path, only with the
\* id of a payment the provider has captured.
PaidIsCaptured == [][~paid /\ paid' => psp[txn'] = "captured"]_vars

\* What Settlement sees of this state: the money that moved, and whether the caller
\* that made the row say paid has still to move the order.
Taken == {i \in Ids : psp[i] = "captured"}
Moving == {"advance", "reread", "flag", "force"}
Claimants == {c \in Callers : call[c].pc \in Moving}
Settled == IF ~paid THEN "no" ELSE IF Claimants # {} THEN "claimed" ELSE "done"

Promise == INSTANCE Settlement WITH settled <- Settled, captured <- Taken

\* Settling implements Settlement: on every path and in every interleaving the row
\* says paid once, for captured money, and the one claimant serves or flags the order.
SettlesAsPromised == Promise!Spec

\* What of that the rest of the shop sees, the money left out.
Fate == INSTANCE OrderFate WITH Dead <- {"dead"}, Unpaid <- {}, settled <- Settled

\* No capture is lost: a success that was acknowledged to a provider that names
\* the order has settled the order, although later intents overwrote the one on
\* the payment row (audit M-1) and deliveries died half way (audit C-1).
AppliedIsSettled ==
  \A i \in Ids \ Untagged : <<i, "succeeded">> \in applied => paid

\* However often the shopper clicks, and in how many tabs, the page charges one
\* card once, unless another path settles the order meanwhile (the comment at :227
\* says why the lock is there).
OneInPageCharge ==
  via \in {"none", "token"} => Cardinality({k \in Tokens : Captured(k)}) <= 1

\* Every capture of a provider that names the order settles it in the end.
CapturedSettles ==
  \A i \in Ids \ Untagged : Captured(i) ~> paid

\* A PayPal order that was approved is captured without the browser, as long as
\* it is the one on the payment row of a pending order.
ApprovalIsCaptured ==
  \A i \in Approvals : (psp[i] = "approved") ~> (Captured(i) \/ txn # i \/ paid \/ order # "pending")

=============================================================================
