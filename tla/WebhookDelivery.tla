-------------------------- MODULE WebhookDelivery --------------------------
(***************************************************************************)
(* src/src/counter/webhookDelivery.ts and redeliverStuck() of              *)
(* src/src/services/fulfillmentAudit.service.ts: how a partner that makes  *)
(* part of an order hears of it.  An event of the order (emit) and the     *)
(* hourly job (redeliverStuck) both call deliver(), which scopes the       *)
(* order to the partner's own lines and offers it twice at most.  Every    *)
(* attempt leaves a row, and the newest row decides what the hourly job    *)
(* does.                                                                   *)
(*                                                                         *)
(* Hooks share nothing but the order, so the model is of one order and one *)
(* hook.  The setup says which vendors have lines on the order, whether    *)
(* the hook carries a credential and of which vendor, which brand its name *)
(* and URL claim, and its topic.                                           *)
(***************************************************************************)
EXTENDS Integers, FiniteSets

CONSTANTS
  Vendors, NoVendor,
  BrandOf,    \* the brand of each vendor's name
  Setups,     \* the orders and hooks considered
  Events      \* how many events the order emits at most

Callers == {"event", "hourly"}
MaxRows == 4         \* ASYNC_MAX_ATTEMPTS: rows are counted up to it
PauseAfter == 3      \* secrets that failed in a row

VARIABLES
  setup,     \* [lines, cred, brand, topic, async]: the order's vendors and the hook
  order,     \* "pending", "processing" or "over"
  hook,      \* storeWebhook.status: "active" or "paused"
  secret,    \* can the hook's secret be decrypted?
  rows,      \* what the hourly job reads of the delivery rows:
             \* [last, cooled, count, fails]; the count matters for an async partner
  young,     \* is the order younger than the 48 hours of an async partner?
  call,      \* the calls of deliver(): [pc, attempt]
  events,    \* events emitted
  got        \* vendors whose lines the partner received; NoVendor for a bare ping

vars == <<setup, order, hook, secret, rows, young, call, events, got>>

SetupType ==
  [lines : SUBSET Vendors, cred : Vendors \cup {NoVendor},
   brand : {BrandOf[v] : v \in Vendors} \cup {"none"}, topic : {"order", "action"}, async : BOOLEAN]

TypeOK ==
  /\ setup \in SetupType
  /\ order \in {"pending", "processing", "over"}
  /\ hook \in {"active", "paused"}
  /\ secret \in BOOLEAN /\ young \in BOOLEAN
  /\ rows \in [last : {"none", "genuine", "hard", "soft"}, cooled : BOOLEAN,
               count : 0 .. MaxRows, fails : 0 .. PauseAfter]
  /\ call \in [Callers -> [pc : {"idle", "open", "post"}, attempt : 1 .. 2]]
  /\ events \in 0 .. Events
  /\ got \subseteq Vendors \cup {NoVendor}

Idle == [pc |-> "idle", attempt |-> 1]
NoRows == [last |-> "none", cooled |-> TRUE, count |-> 0, fails |-> 0]

Init ==
  /\ setup \in Setups
  /\ order = "pending" /\ hook = "active" /\ secret = TRUE /\ young = TRUE
  /\ rows = NoRows
  /\ call = [c \in Callers |-> Idle]
  /\ events = 0 /\ got = {}

-----------------------------------------------------------------------------
(* scopeOrderDelivery()                                                    *)

\* Mutant: the name and the URL, which the partner types, widen what it owns.
OwnsByBrand(v) == v = setup.cred \/ BrandOf[v] = setup.brand

\* A hook with a credential owns what that credential's vendor owns; a hook from
\* before credentials goes by its brand, which two vendors may share.
Owns(v) == IF setup.cred # NoVendor THEN v = setup.cred ELSE BrandOf[v] = setup.brand

\* The lines the hook is sent; a ping names the order and nothing else.
Scoped == IF setup.topic = "action" THEN {NoVendor} ELSE {v \in setup.lines : Owns(v)}

-----------------------------------------------------------------------------
(* deliver()                                                               *)

Row(kind, fails) ==
  rows' = [last |-> kind, cooled |-> FALSE, fails |-> fails,
           count |-> IF setup.async /\ rows.count < MaxRows THEN rows.count + 1 ELSE rows.count]

Done(c) == call' = [call EXCEPT ![c] = Idle]

\* The hook is read and scoped; a secret that does not decrypt is recorded, and the
\* third in a row pauses the hook; a URL that has come to resolve privately is
\* recorded and not called.
Open(c) ==
  /\ call[c].pc = "open"
  /\ \/ /\ hook # "active" \/ Scoped = {}
        /\ Done(c) /\ UNCHANGED <<rows, hook>>
     \/ /\ hook = "active" /\ Scoped # {} /\ ~secret
        /\ LET fails == IF rows.fails < PauseAfter THEN rows.fails + 1 ELSE PauseAfter IN
           /\ Row("soft", fails)
           /\ hook' = IF fails = PauseAfter THEN "paused" ELSE hook
        /\ Done(c)
     \/ /\ hook = "active" /\ Scoped # {} /\ secret
        /\ \/ Row("soft", 0) /\ Done(c)
           \/ call' = [call EXCEPT ![c].pc = "post"] /\ UNCHANGED rows
        /\ UNCHANGED hook
  /\ UNCHANGED <<setup, order, secret, young, events, got>>

\* The reasons that redeliverStuck() takes to pass.  A redirect is one: it is not
\* followed, but recorded as "refused to follow redirect", and by "refused" a refused
\* connection is known.
Transient(answer) == answer \in {"busy", "timeout", "redirect"}

\* isGenuineAccept(): what the row says of an answer.  A partner that answers 200 with a
\* no-op or an error has not accepted; a timeout says nothing.
Judged(answer) ==
  CASE answer = "accepted" -> "genuine"
    [] Transient(answer) -> "soft"
    [] answer \in {"no-op", "rejected"} -> "hard"

Next2(c) ==
  IF call[c].attempt = 1 THEN call' = [call EXCEPT ![c].attempt = 2] ELSE Done(c)

\* One POST.  What timed out may have arrived.
Post(c) ==
  /\ call[c].pc = "post"
  /\ \E answer \in {"accepted", "no-op", "rejected", "redirect", "busy", "timeout"} :
       /\ Row(Judged(answer), 0)
       /\ \/ answer \in {"accepted", "timeout"} /\ got' = got \cup Scoped
          \/ answer # "accepted" /\ UNCHANGED got
       /\ IF answer = "accepted" THEN Done(c) ELSE Next2(c)
  /\ UNCHANGED <<setup, order, hook, secret, young, events>>

-----------------------------------------------------------------------------
(* emit() and redeliverStuck()                                             *)

Begin(c) ==
  /\ call[c].pc = "idle"
  /\ call' = [call EXCEPT ![c].pc = "open"]

\* transition(): a change of the order's status is emitted, and waits for nobody.
Emit ==
  /\ order' \in (CASE order = "pending" -> {"processing"}
                   [] order = "processing" -> {"over"}
                   [] order = "over" -> {})
  /\ events < Events /\ events' = events + 1
  /\ Begin("event")
  /\ UNCHANGED <<setup, hook, secret, rows, young, got>>

\* The hook's URL is of a brand on the order, or of none.
Offered == setup.brand = "none" \/ \E v \in setup.lines : BrandOf[v] = setup.brand

\* Mutant: only what was tried and failed is worth another try.
DueTried ==
  \/ rows.last = "soft" /\ rows.cooled /\ ~setup.async
  \/ setup.async /\ rows.count \in 1 .. MaxRows - 1 /\ young /\ rows.cooled

\* Never tried; or not accepted for a reason that passes, six hours ago.  A partner
\* that acknowledges what it may not have created is tried again all the same, four
\* times within two days.
Due ==
  \/ rows.last = "none"
  \/ rows.last = "soft" /\ rows.cooled /\ ~setup.async
  \/ setup.async /\ rows.count < MaxRows /\ young /\ rows.cooled

Redeliver ==
  /\ order = "processing" /\ hook = "active" /\ Offered /\ Due
  /\ Begin("hourly")
  /\ UNCHANGED <<setup, order, hook, secret, rows, young, events, got>>

-----------------------------------------------------------------------------
(* The rest of the system                                                  *)

\* Six hours pass, or two days.
Cool ==
  /\ rows.cooled = FALSE
  /\ rows' = [rows EXCEPT !.cooled = TRUE]
  /\ UNCHANGED <<setup, order, hook, secret, young, call, events, got>>

GrowOld ==
  /\ setup.async /\ young /\ young' = FALSE
  /\ UNCHANGED <<setup, order, hook, secret, rows, call, events, got>>

\* The encryption key is lost, or restored.
KeyDrift ==
  /\ secret' = ~secret
  /\ UNCHANGED <<setup, order, hook, rows, young, call, events, got>>

Crash ==
  /\ call' = [c \in Callers |-> Idle]
  /\ UNCHANGED <<setup, order, hook, secret, rows, young, events, got>>

Next ==
  \/ Emit \/ Redeliver
  \/ \E c \in Callers : Open(c) \/ Post(c)
  \/ Cool \/ GrowOld \/ KeyDrift \/ Crash

Spec == Init /\ [][Next]_vars

\* The hourly job comes back, and a partner it calls again and again answers it
\* properly in the end, one way or the other: it does not stay down, or redirect, for ever.
Opened == Open("hourly") /\ call'["hourly"].pc = "post"
Answered == Post("hourly") /\ rows'.last # "soft"

Fairness ==
  /\ WF_vars(Cool) /\ SF_vars(Redeliver)
  /\ SF_vars(Open("hourly")) /\ SF_vars(Opened) /\ SF_vars(Answered)

-----------------------------------------------------------------------------
(* Properties                                                              *)

\* A partner with a credential is sent the lines of its own vendor and no others,
\* whatever name and URL it typed and whoever else is on the order; and a hook that
\* owns no line is not told of the order's contents at all (audit C2).
OwnLinesOnly ==
  setup.topic = "order" =>
    /\ got \subseteq setup.lines
    /\ setup.cred # NoVendor => got \subseteq {setup.cred}

\* A partner whose vendor is on a paid order has it in the end, although it was down,
\* the event's call died and rows were lost; or it refused it, or its hook is paused.
OwnerHearsOfIt ==
  (order = "processing" /\ ~setup.async /\ Offered /\ Scoped # {})
    ~> (got # {} \/ order = "over" \/ hook = "paused" \/ rows.last = "hard")

=============================================================================
