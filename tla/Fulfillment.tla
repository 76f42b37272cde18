---------------------------- MODULE Fulfillment ----------------------------
(***************************************************************************)
(* src/src/counter/fulfillmentRouting.ts and the hourly retry of           *)
(* src/src/services/fulfillmentAudit.service.ts: how the lines of one      *)
(* order that a print vendor makes reach that vendor.  routeOrder() runs   *)
(* at checkout and only drafts; submitPaidOrder() runs when the order is   *)
(* paid, and again every hour while no route is confirmed.  Nothing locks  *)
(* the two against each other, an answer of the vendor may be lost, an     *)
(* order it accepted may be listed late, and a process may die anywhere.   *)
(*                                                                         *)
(* The groups of lines of different vendors share no state but the order,  *)
(* so the model is of one group, whose vendor is chosen initially.  One    *)
(* action is one database statement or one call to the vendor.             *)
(***************************************************************************)
EXTENDS Integers, FiniteSets

CONSTANTS
  Copies,     \* orders the vendor may come to hold under this order's number
  NoCopy,
  Providers   \* the vendors considered: "printful", "printify", "contrado"

ASSUME FulfillmentAssumption ==
  /\ NoCopy \notin Copies
  /\ Providers \subseteq {"printful", "printify", "contrado"}

Callers == {"paid", "retry"}

VARIABLES
  provider,   \* the vendor of the lines
  order,      \* order.status: "pending", "processing", or "over" for the others
  address,    \* is the address complete enough to print a label?
  vendor,     \* the vendor's orders; one "drafting" or "landing" is not yet listed
  latest,     \* the newest route row with a vendor's reference (printful: and ok)
  confirmed,  \* is there an ok row with such a reference?
  draft,      \* the call of routeOrder() at checkout
  call,       \* the calls of submitPaidOrder(), from the payment and from the retry
  overlapped  \* has a retry begun while another of these calls was under way?

world == <<provider, order, address>>
routes == <<latest, confirmed>>
vars  == <<world, vendor, routes, draft, call, overlapped>>

NoRow == [ok |-> FALSE, ref |-> NoCopy]
Idle  == [pc |-> "idle", ok |-> FALSE, ref |-> NoCopy]

TypeOK ==
  /\ provider \in Providers
  /\ order \in {"pending", "processing", "over"}
  /\ address \in BOOLEAN /\ confirmed \in BOOLEAN /\ overlapped \in BOOLEAN
  /\ vendor \in [Copies -> {"none", "drafting", "landing", "draft", "held", "made", "gone"}]
  /\ latest \in [ok : BOOLEAN, ref : Copies \cup {NoCopy}]
  /\ draft \in [pc : {"todo", "post", "record", "done"}, ref : Copies \cup {NoCopy}]
  /\ call \in [Callers -> [pc : {"idle", "look", "confirm", "recover", "create", "again",
                                 "produce", "record"},
                           ok : BOOLEAN, ref : Copies \cup {NoCopy}]]

Init ==
  /\ provider \in Providers
  /\ order = "pending"
  /\ address \in BOOLEAN
  /\ vendor = [i \in Copies |-> "none"]
  /\ latest = NoRow /\ confirmed = FALSE
  /\ draft = [pc |-> "todo", ref |-> NoCopy]
  /\ call = [c \in Callers |-> Idle]
  /\ overlapped = FALSE

At(c, pc) == call[c].pc = pc
Goto(c, pc) == call' = [call EXCEPT ![c].pc = pc]
With(c, pc, i) == call' = [call EXCEPT ![c].pc = pc, ![c].ref = i]
Answer(c, good, i) == call' = [call EXCEPT ![c] = [pc |-> "record", ok |-> good, ref |-> i]]

Listed(i) == vendor[i] \in {"draft", "held", "made"}
Landing(i) == vendor[i] \in {"drafting", "landing"}
Become(i, s) == vendor' = [vendor EXCEPT ![i] = s]

\* Mutant: the placeholder of a deferred vendor is written as if it were one of its orders.
InsertPlaceholder(good, i) ==
  /\ latest' = [ok |-> good, ref |-> 0]
  /\ confirmed' = (confirmed \/ good)

\* A row is inserted; the insert is best-effort.
Insert(good, i) ==
  \/ UNCHANGED routes
  \/ /\ i # NoCopy /\ (good \/ provider # "printful")
     /\ latest' = [ok |-> good, ref |-> i]
     /\ confirmed' = (confirmed \/ good)

-----------------------------------------------------------------------------
(* The vendor                                                              *)

\* What a create may come to: refused, or accepted as a new order in state s whose
\* answer arrives (Then), is lost (Lost), or is lost while the order is not listed
\* yet.  Contrado knows the order's number and accepts it once.
Create(s, Then(_), Lost) ==
  \/ UNCHANGED vendor /\ Lost
  \/ \E i \in Copies :
       /\ vendor[i] = "none"
       /\ provider = "contrado" => \A j \in Copies : vendor[j] = "none"
       /\ \/ Become(i, s) /\ (Then(i) \/ Lost)
          \/ Become(i, IF s = "draft" THEN "drafting" ELSE "landing") /\ Lost

\* An accepted order gets listed.
Land(i) ==
  /\ Landing(i)
  /\ Become(i, CASE vendor[i] = "drafting"  -> "draft"
                 [] vendor[i] = "landing" -> IF provider = "printify" THEN "held" ELSE "made")
  /\ UNCHANGED <<world, routes, draft, call, overlapped>>

\* An unconfirmed draft is deleted at the vendor.
DeleteDraft(i) ==
  /\ vendor[i] = "draft"
  /\ Become(i, "gone")
  /\ UNCHANGED <<world, routes, draft, call, overlapped>>

-----------------------------------------------------------------------------
(* routeOrder(), at checkout                                               *)

\* Mutant: every vendor is asked at once.
DraftsAtCheckoutAll == TRUE

\* Printify and Contrado make what they are sent, so they wait for the payment.
DraftsAtCheckout == provider = "printful"

\* Called, and not awaited, where the order is created.
RouteOrder ==
  /\ draft.pc = "todo" /\ order = "pending"
  /\ draft' = [draft EXCEPT !.pc = IF address /\ DraftsAtCheckout THEN "post" ELSE "done"]
  /\ UNCHANGED <<world, vendor, routes, call, overlapped>>

PostDraft ==
  LET Then(i) == draft' = [pc |-> "record", ref |-> i]
      Lost == draft' = [draft EXCEPT !.pc = "done"]
  IN
  /\ draft.pc = "post"
  /\ Create(IF provider = "printful" THEN "draft" ELSE "made", Then, Lost)
  /\ UNCHANGED <<world, routes, call, overlapped>>

RecordDraft ==
  /\ draft.pc = "record"
  /\ Insert(TRUE, draft.ref)
  /\ draft' = [draft EXCEPT !.pc = "done"]
  /\ UNCHANGED <<world, vendor, call, overlapped>>

-----------------------------------------------------------------------------
(* submitPaidOrder() and confirmPrintfulOrder()                            *)

Begin(c) ==
  /\ At(c, "idle")
  /\ Goto(c, "look")

\* markPaid() moved the order and hands it to the vendors; an express payment has
\* brought the address.
Pay ==
  /\ order = "pending" /\ order' = "processing"
  /\ address' \in {TRUE, address}
  /\ Begin("paid")
  /\ UNCHANGED <<provider, vendor, routes, draft, overlapped>>

\* Mutant: only an order with a failed row is stuck (audit R6).
RetryFailed ==
  /\ order = "processing" /\ latest.ref # NoCopy /\ ~latest.ok
  /\ \A i \in Copies : ~Landing(i)
  /\ Begin("retry")
  /\ overlapped' = (overlapped \/ ~At("paid", "idle") \/ draft.pc \in {"post", "record"})
  /\ UNCHANGED <<world, vendor, routes, draft>>

\* The hourly job submits again an order without a confirmed route.  By then the
\* vendor lists what it accepted an hour before.
Retry ==
  /\ order = "processing" /\ ~confirmed
  /\ \A i \in Copies : ~Landing(i)
  /\ Begin("retry")
  /\ overlapped' = (overlapped \/ ~At("paid", "idle") \/ draft.pc \in {"post", "record"})
  /\ UNCHANGED <<world, vendor, routes, draft>>

\* What the route rows say is done: a Printful draft to confirm; a Printify order
\* to produce; otherwise the vendor is asked first, but for Contrado, which joins
\* creates of one number itself.
Look(c) ==
  LET ref == latest.ref IN
  /\ At(c, "look")
  /\ CASE provider = "printful" /\ ref # NoCopy -> With(c, "confirm", ref)
       [] provider = "printful" /\ ref = NoCopy -> Goto(c, "recover")
       [] provider # "printful" /\ latest.ok -> Answer(c, TRUE, ref)
       [] provider = "printify" /\ ref # NoCopy /\ ~latest.ok -> With(c, "produce", ref)
       [] provider # "printful" /\ ~latest.ok /\ (provider = "contrado" \/ ref = NoCopy) ->
            IF ~address THEN Answer(c, FALSE, NoCopy)
            ELSE Goto(c, IF provider = "printify" THEN "recover" ELSE "create")
  /\ UNCHANGED <<world, vendor, routes, draft, overlapped>>

\* POST /orders/<draft>/confirm.  A draft that is gone is looked for under the
\* order's number; one that is no draft any more has been confirmed.
Confirm(c) ==
  LET i == call[c].ref IN
  /\ At(c, "confirm")
  /\ \/ vendor[i] = "draft" /\ Become(i, "made") /\ (Answer(c, TRUE, i) \/ Answer(c, FALSE, i))
     \/ vendor[i] = "made" /\ Answer(c, TRUE, i) /\ UNCHANGED vendor
     \/ vendor[i] = "gone" /\ With(c, "recover", NoCopy) /\ UNCHANGED vendor
     \/ Answer(c, FALSE, i) /\ UNCHANGED vendor
  /\ UNCHANGED <<world, routes, draft, overlapped>>

\* An order found by its number: Printify's is produced, Printful's is taken as done.
Found(c, i) == IF provider = "printify" THEN With(c, "produce", i) ELSE Answer(c, TRUE, i)

\* Mutant: a lookup that failed counts as an order that is not there (audit C3).
RecoverTwoValued(c) ==
  /\ At(c, "recover")
  /\ \/ \E i \in Copies : Listed(i) /\ Found(c, i)
     \/ Goto(c, "create")
  /\ UNCHANGED <<world, vendor, routes, draft, overlapped>>

\* The vendor's list under the order's number, in three values: found, absent, or
\* unknown when a page failed; only "absent" allows a create.
Recover(c) ==
  /\ At(c, "recover")
  /\ \/ \E i \in Copies : Listed(i) /\ Found(c, i)
     \/ (\A i \in Copies : ~Listed(i)) /\ Goto(c, "create")
     \/ Answer(c, FALSE, NoCopy)
  /\ UNCHANGED <<world, vendor, routes, draft, overlapped>>

\* Mutant: a Printify order is done once it is created.
CreatePaidOnly(c) ==
  LET Then(i) == Answer(c, TRUE, i)
      Lost == Goto(c, "again") IN
  /\ At(c, "create")
  /\ Create(IF provider = "printify" THEN "held" ELSE "made", Then, Lost)
  /\ UNCHANGED <<world, routes, draft, overlapped>>

\* The create, into production but at Printify, where that is a second call.
CreatePaid(c) ==
  LET Then(i) == IF provider = "printify" THEN With(c, "produce", i) ELSE Answer(c, TRUE, i)
      Lost == IF provider = "contrado" THEN Answer(c, FALSE, NoCopy) ELSE Goto(c, "again") IN
  /\ At(c, "create")
  /\ Create(IF provider = "printify" THEN "held" ELSE "made", Then, Lost)
  /\ UNCHANGED <<world, routes, draft, overlapped>>

\* After a create without an answer: the order is taken if it is listed, and not
\* created again if it is not.
Again(c) ==
  /\ At(c, "again")
  /\ \/ \E i \in Copies : Listed(i) /\ Found(c, i)
     \/ Answer(c, FALSE, NoCopy)
  /\ UNCHANGED <<world, vendor, routes, draft, overlapped>>

\* send_to_production, which may be repeated.
Produce(c) ==
  LET i == call[c].ref IN
  /\ At(c, "produce")
  /\ \/ Become(i, "made") /\ (Answer(c, TRUE, i) \/ Answer(c, FALSE, i))
     \/ UNCHANGED vendor /\ Answer(c, FALSE, i)
  /\ UNCHANGED <<world, routes, draft, overlapped>>

Record(c) ==
  /\ At(c, "record")
  /\ Insert(call[c].ok, call[c].ref)
  /\ call' = [call EXCEPT ![c] = Idle]
  /\ UNCHANGED <<world, vendor, draft, overlapped>>

-----------------------------------------------------------------------------
(* The rest of the system                                                  *)

\* The order is cancelled, failed, shipped; or an operator completes the address.
Finish ==
  /\ order' = "over" /\ order # "over"
  /\ UNCHANGED <<provider, address, vendor, routes, draft, call, overlapped>>

GiveAddress ==
  /\ ~address /\ address' = TRUE
  /\ UNCHANGED <<provider, order, vendor, routes, draft, call, overlapped>>

\* The process dies with its calls.
Crash ==
  /\ draft' = [draft EXCEPT !.pc = "done"]
  /\ call' = [c \in Callers |-> Idle]
  /\ UNCHANGED <<world, vendor, routes, overlapped>>

Step(c) ==
  \/ Look(c) \/ Confirm(c) \/ Recover(c) \/ CreatePaid(c) \/ Again(c)
  \/ Produce(c) \/ Record(c)

Next ==
  \/ RouteOrder \/ PostDraft \/ RecordDraft
  \/ Pay \/ Retry
  \/ \E c \in Callers : Step(c)
  \/ \E i \in Copies : Land(i) \/ DeleteDraft(i)
  \/ Finish \/ GiveAddress \/ Crash

Spec == Init /\ [][Next]_vars

\* The hourly job keeps coming and does not always die; of what it asks of a vendor
\* again and again, something succeeds in the end.
Landed == \E i \in Copies : Land(i)
RecoverAnswered == Recover("retry") /\ call'["retry"].pc # "record"
CreateAnswered == CreatePaid("retry") /\ \E i \in Copies : vendor'[i] = "made" \/ call'["retry"].ref = i
ProduceAnswered == Produce("retry") /\ call'["retry"].ok

Fairness ==
  /\ WF_vars(Landed) /\ WF_vars(Step("retry"))
  /\ SF_vars(Retry) /\ SF_vars(Look("retry"))
  /\ SF_vars(RecoverAnswered) /\ SF_vars(CreateAnswered) /\ SF_vars(ProduceAnswered)

-----------------------------------------------------------------------------
(* Properties                                                              *)

Made(i) == vendor[i] = "made"

\* Nothing is printed for an order nobody has paid: checkout only drafts, whatever
\* the order in which checkout, payment, retry and crashes fall.
PrintedOnlyPaid == (\E i \in Copies : Made(i)) => order # "pending"

\* While the payment's call and the hourly retry do not overlap, an order is printed
\* once at most, although answers are lost, rows are not written and processes die
\* between the vendor's create and the row (audits C3 and C4).
PrintedOnce == ~overlapped => Cardinality({i \in Copies : Made(i)}) <= 1

\* Money is spent at the vendor once, and only after it was taken from the shopper.
PrintedOncePaid == PrintedOnlyPaid /\ PrintedOnce

\* A route row of a vendor without drafts that ends the retries tells the truth:
\* the vendor makes the order.  A row that lied would leave it unmade for good.
ConfirmedIsMade ==
  (confirmed /\ provider # "printful") => \E i \in Copies : Made(i)

\* A paid order of a vendor without drafts is made in the end, unless it leaves
\* processing, as soon as its address is complete: the paid-edge call may die, its
\* row may be lost and its outcome unknown, the hourly retry finishes it.
PaidIsMade ==
  (order = "processing" /\ address /\ provider # "printful")
     ~> (order = "over" \/ \E i \in Copies : Made(i))

=============================================================================
