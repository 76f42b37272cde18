-------------------------- MODULE AfterSaleProofs --------------------------
(***************************************************************************)
(* Theorems about an order after its payment, for any number of vendors,   *)
(* orders at a vendor, partners, parcels and requests: of Fulfillment, and *)
(* of Shipments and WebhookDelivery as parts of AfterSale.                 *)
(***************************************************************************)
EXTENDS AfterSale, FiniteSetTheorems, TLAPS

-----------------------------------------------------------------------------
(* Fulfillment: the invariant, in named parts                              *)

\* Orders of the vendor that are made or will be: what the shop is charged for.
Owed == {"held", "landing", "made"}
Billable(i) == vendor[i] \in Owed

\* Nobody is sent anything to make before the payment.
Unpaid ==
  order = "pending" => (\A c \in Callers : At(c, "idle")) /\ \A i \in Copies : ~Billable(i)

OnlyPrintfulDrafts ==
  /\ draft.pc \in {"post", "record"} => provider = "printful"
  /\ provider # "printful" => \A i \in Copies : vendor[i] \notin {"drafting", "draft", "gone"}

\* Which vendors a step of submitPaidOrder() is taken for.
Stages ==
  \A c \in Callers :
    /\ At(c, "confirm") => provider = "printful"
    /\ At(c, "recover") \/ At(c, "again") => provider # "contrado"
    /\ At(c, "produce") => provider = "printify" /\ call[c].ref \in Copies

\* A reference to a Printify order, in a row or in a call's hands, is to a real one.
References ==
  provider = "printify" =>
    /\ latest.ref # NoCopy => latest.ref \in Copies /\ Billable(latest.ref)
    /\ \A c \in Callers :
         call[c].pc \in {"produce", "record"} /\ call[c].ref # NoCopy
           => call[c].ref \in Copies /\ Billable(call[c].ref)

\* What a row, or a call about to write one, calls done at a vendor without drafts.
Truth ==
  provider # "printful" =>
    /\ latest.ok => latest.ref \in Copies /\ Made(latest.ref)
    /\ confirmed => \E i \in Copies : Made(i)
    /\ \A c \in Callers : At(c, "record") /\ call[c].ok => call[c].ref \in Copies /\ Made(call[c].ref)

PrintfulRows == provider = "printful" /\ ~confirmed => latest.ref = NoCopy

Rests == TypeOK /\ Unpaid /\ OnlyPrintfulDrafts /\ Stages /\ References /\ Truth /\ PrintfulRows

\* While no retry has met another call: one call is under way at most; the payment's
\* has nothing billable before it until it creates or confirms, and neither has the
\* retry when it creates; so what is billable is one order.
Early == {"look", "confirm", "recover", "create"}
Alone ==
  /\ At("paid", "idle") \/ At("retry", "idle")
  /\ ~At("retry", "idle") => draft.pc \notin {"post", "record"}
  /\ call["paid"].pc \in Early => \A i \in Copies : ~Billable(i)
  /\ call["retry"].pc \in Early => \A i \in Copies : ~Landing(i)
  /\ ~At("retry", "confirm")
  /\ At("retry", "look") /\ provider = "printful" => latest.ref = NoCopy
  /\ At("retry", "create") /\ provider # "contrado" => \A i \in Copies : ~Billable(i)
  /\ \A i, j \in Copies : Billable(i) /\ Billable(j) => i = j

Routed == Rests /\ (~overlapped => Alone)

-----------------------------------------------------------------------------
(* What a step does to the calls and to the vendor's orders                *)

Pcs == {"idle", "look", "confirm", "recover", "create", "again", "produce", "record"}
CallType == [pc : Pcs, ok : BOOLEAN, ref : Copies \cup {NoCopy}]

LEMMA GotoMoves ==
  ASSUME call \in [Callers -> CallType], NEW c \in Callers, NEW pc \in Pcs, Goto(c, pc)
  PROVE  /\ call' \in [Callers -> CallType]
         /\ call'[c].pc = pc /\ call'[c].ok = call[c].ok /\ call'[c].ref = call[c].ref
         /\ \A d \in Callers : d # c => call'[d] = call[d]
  BY DEF Goto, CallType

LEMMA WithMoves ==
  ASSUME call \in [Callers -> CallType], NEW c \in Callers, NEW pc \in Pcs,
         NEW i \in Copies \cup {NoCopy}, With(c, pc, i)
  PROVE  /\ call' \in [Callers -> CallType]
         /\ call'[c].pc = pc /\ call'[c].ok = call[c].ok /\ call'[c].ref = i
         /\ \A d \in Callers : d # c => call'[d] = call[d]
<1> DEFINE m == [call EXCEPT ![c].pc = pc]
<1>1. /\ m \in [Callers -> CallType]
      /\ m[c].pc = pc /\ m[c].ok = call[c].ok /\ \A d \in Callers : d # c => m[d] = call[d]
  BY DEF CallType
<1>2. call' = [m EXCEPT ![c].ref = i]
  BY DEF With
<1> HIDE DEF m
<1> QED
  BY <1>1, <1>2 DEF CallType

LEMMA AnswerMoves ==
  ASSUME call \in [Callers -> CallType], NEW c \in Callers, NEW ok \in BOOLEAN,
         NEW i \in Copies \cup {NoCopy}, Answer(c, ok, i)
  PROVE  /\ call' \in [Callers -> CallType]
         /\ call'[c].pc = "record" /\ call'[c].ok = ok /\ call'[c].ref = i
         /\ \A d \in Callers : d # c => call'[d] = call[d]
  BY DEF Answer, CallType, Pcs

LEMMA TypesInit == Init => TypeOK
<1> SUFFICES ASSUME Init PROVE TypeOK
  OBVIOUS
<1>1. /\ latest \in [ok : BOOLEAN, ref : Copies \cup {NoCopy}]
      /\ draft \in [pc : {"todo", "post", "record", "done"}, ref : Copies \cup {NoCopy}]
  BY DEF Init, NoRow
<1>2. Idle \in CallType
  BY DEF Idle, CallType, Pcs
<1>3. call \in [Callers -> CallType]
  BY <1>2 DEF Init
<1>4. vendor \in [Copies -> {"none", "drafting", "landing", "draft", "held", "made", "gone"}]
  BY DEF Init
<1> QED
  BY <1>1, <1>3, <1>4 DEF Init, TypeOK, CallType, Pcs

LEMMA RestsInit == Init => Rests /\ Alone
<1> SUFFICES ASSUME Init PROVE Rests /\ Alone
  OBVIOUS
<1>1. TypeOK
  BY TypesInit
<1>2. Unpaid /\ OnlyPrintfulDrafts /\ Stages /\ References /\ Truth /\ PrintfulRows
  BY DEF Init, Unpaid, OnlyPrintfulDrafts, Stages, References, Truth, PrintfulRows, At, Owed, Billable,
         NoRow, Idle, Callers
<1>3. Alone
  BY DEF Init, Alone, At, Owed, Billable, Landing, Early, Idle, Callers
<1> QED
  BY <1>1, <1>2, <1>3 DEF Rests

-----------------------------------------------------------------------------
(* What holds whatever overlaps                                            *)

\* The vendor's orders of a state, and how a step may change them: what is billable
\* stays so, what is made stays made, and only Printful has drafts.
Orders == {"none", "drafting", "landing", "draft", "held", "made", "gone"}
VendorKept ==
  /\ vendor' \in [Copies -> Orders]
  /\ \A i \in Copies : Billable(i) => Billable(i)'
  /\ \A i \in Copies : Made(i) => Made(i)'
  /\ provider # "printful" => \A i \in Copies : vendor'[i] \notin {"drafting", "draft", "gone"}

LEMMA SameVendor ==
  ASSUME Rests, UNCHANGED vendor
  PROVE  VendorKept
  BY DEF Rests, TypeOK, OnlyPrintfulDrafts, VendorKept, Orders, Owed, Billable, Made

LEMMA Became ==
  ASSUME Rests, NEW i, NEW st \in Orders, Become(i, st),
         i \in Copies /\ Billable(i) => st \in Owed,
         i \in Copies /\ Made(i) => st = "made",
         provider # "printful" => st \notin {"drafting", "draft", "gone"}
  PROVE  /\ VendorKept
         /\ i \in Copies => vendor'[i] = st
         /\ \A j \in Copies : j # i => vendor'[j] = vendor[j]
  BY DEF Rests, TypeOK, OnlyPrintfulDrafts, VendorKept, Orders, Become, Owed, Billable, Made

\* The rows a call may leave behind.
Wrote(good, i) ==
  /\ latest' = [ok |-> good, ref |-> i] /\ confirmed' = (confirmed \/ good)
  /\ i # NoCopy /\ (good \/ provider # "printful")

\* A step of one call, by what it does to the rest.
LEMMA RestsCall ==
  ASSUME Rests, NEW c \in Callers, UNCHANGED <<world, draft, overlapped>>, VendorKept,
         call[c].pc # "idle",
         call' \in [Callers -> CallType],
         \A d \in Callers : d # c => call'[d] = call[d],
         UNCHANGED routes \/ (At(c, "record") /\ Wrote(call[c].ok, call[c].ref)),
         call'[c].pc = "confirm" => provider = "printful",
         call'[c].pc \in {"recover", "again"} => provider # "contrado",
         call'[c].pc = "produce" => provider = "printify" /\ call'[c].ref \in Copies,
         provider = "printify" /\ call'[c].pc \in {"produce", "record"} /\ call'[c].ref # NoCopy
           => call'[c].ref \in Copies /\ vendor'[call'[c].ref] \in Owed,
         provider # "printful" /\ call'[c].pc = "record" /\ call'[c].ok
           => call'[c].ref \in Copies /\ vendor'[call'[c].ref] = "made"
  PROVE  Rests'
<1>0. /\ call \in [Callers -> CallType] /\ provider' = provider /\ order' = order /\ draft' = draft
      /\ order # "pending"
      /\ \A i \in Copies : Billable(i) <=> vendor[i] \in Owed
      /\ \A i \in Copies : Billable(i)' <=> vendor'[i] \in Owed
  BY DEF Rests, TypeOK, CallType, Pcs, world, Unpaid, At, Billable
<1>1. TypeOK'
  <2>1. latest' \in [ok : BOOLEAN, ref : Copies \cup {NoCopy}] /\ confirmed' \in BOOLEAN
    BY <1>0 DEF Rests, TypeOK, Wrote, routes, CallType
  <2> QED
    BY <2>1 DEF Rests, TypeOK, world, VendorKept, Orders, CallType, Pcs
<1>2. Unpaid'
  BY <1>0 DEF Unpaid
<1>3. OnlyPrintfulDrafts'
  BY <1>0 DEF Rests, OnlyPrintfulDrafts, VendorKept
<1>4. Stages'
  BY <1>0 DEF Rests, Stages, At
<1>5. References'
  <2> SUFFICES ASSUME provider = "printify" PROVE References'
    BY <1>0 DEF References
  <2>1. latest'.ref # NoCopy => latest'.ref \in Copies /\ vendor'[latest'.ref] \in Owed
    <3>1. CASE UNCHANGED routes
      BY <1>0, <3>1 DEF Rests, References, VendorKept, routes
    <3>2. CASE At(c, "record") /\ Wrote(call[c].ok, call[c].ref)
      BY <1>0, <3>2 DEF Rests, References, VendorKept, Wrote, At
    <3> QED
      BY <3>1, <3>2
  <2>2. ASSUME NEW d \in Callers, call'[d].pc \in {"produce", "record"}, call'[d].ref # NoCopy
        PROVE  call'[d].ref \in Copies /\ vendor'[call'[d].ref] \in Owed
    <3>1. CASE d = c
      BY <1>0, <2>2, <3>1
    <3>2. CASE d # c
      BY <1>0, <2>2, <3>2 DEF Rests, References, VendorKept
    <3> QED
      BY <3>1, <3>2
  <2> QED
    BY <2>1, <2>2 DEF References, Billable
<1>6. Truth'
  <2> SUFFICES ASSUME provider # "printful" PROVE Truth'
    BY <1>0 DEF Truth
  <2>1. /\ latest'.ok => latest'.ref \in Copies /\ vendor'[latest'.ref] = "made"
        /\ confirmed' => \E i \in Copies : vendor'[i] = "made"
    <3>1. CASE UNCHANGED routes
      BY <3>1 DEF Rests, Truth, VendorKept, routes, Made
    <3>2. CASE At(c, "record") /\ Wrote(call[c].ok, call[c].ref)
      BY <3>2 DEF Rests, Truth, VendorKept, Wrote, At, Made
    <3> QED
      BY <3>1, <3>2
  <2>2. \A d \in Callers : call'[d].pc = "record" /\ call'[d].ok
                             => call'[d].ref \in Copies /\ vendor'[call'[d].ref] = "made"
    BY DEF Rests, Truth, VendorKept, At, Made
  <2> QED
    BY <2>1, <2>2 DEF Truth, Made, At
<1>7. PrintfulRows'
  <2>1. CASE UNCHANGED routes
    BY <1>0, <2>1 DEF Rests, PrintfulRows, routes
  <2>2. CASE At(c, "record") /\ Wrote(call[c].ok, call[c].ref)
    BY <1>0, <2>2 DEF PrintfulRows, Wrote
  <2> QED
    BY <2>1, <2>2
<1> QED
  BY <1>1, <1>2, <1>3, <1>4, <1>5, <1>6, <1>7 DEF Rests

LEMMA CallTyped == Rests => call \in [Callers -> CallType]
  BY DEF Rests, TypeOK, CallType, Pcs

\* The order a call names when it found one in the vendor's list.
LEMMA FoundCall ==
  ASSUME Rests, NEW c \in Callers, NEW i \in Copies, Listed(i), Found(c, i),
         call[c].pc \in {"recover", "again"}
  PROVE  \E pc \in {"produce", "record"} :
           /\ call' \in [Callers -> CallType] /\ \A d \in Callers : d # c => call'[d] = call[d]
           /\ call'[c].pc = pc /\ call'[c].ref = i
           /\ provider = "printify" <=> pc = "produce"
           /\ provider = "printful" \/ (provider = "printify" /\ vendor[i] \in Owed)
<1>0. call \in [Callers -> CallType] /\ call[c].ok \in BOOLEAN
  BY CallTyped DEF CallType
<1>1. CASE provider = "printify"
  <2>1. vendor[i] \in Owed
    BY <1>1 DEF Rests, OnlyPrintfulDrafts, Listed, Owed
  <2> QED
    BY <1>0, <1>1, <2>1, WithMoves DEF Found, Pcs
<1>2. CASE provider # "printify"
  <2>1. provider = "printful"
    BY <1>2, FulfillmentAssumption DEF Rests, TypeOK, Stages, At
  <2> QED
    BY <1>0, <1>2, <2>1, AnswerMoves DEF Found
<1> QED
  BY <1>1, <1>2

\* What the create of a paid order comes to.
LEMMA CreatedCall ==
  ASSUME Rests, NEW c \in Callers, CreatePaid(c)
  PROVE  /\ UNCHANGED <<world, routes, draft, overlapped>> /\ VendorKept
         /\ call' \in [Callers -> CallType] /\ \A d \in Callers : d # c => call'[d] = call[d]
         /\ call'[c].pc \in {"again", "produce", "record"}
         /\ call'[c].pc = "again" => provider # "contrado"
         /\ call'[c].pc = "produce" => provider = "printify"
         /\ call'[c].pc \in {"produce", "record"} /\ call'[c].ref # NoCopy
              => call'[c].ref \in Copies /\ vendor'[call'[c].ref] = (IF provider = "printify" THEN "held" ELSE "made")
         /\ call'[c].pc = "record" /\ provider = "printify" => call'[c].ref = NoCopy
         /\ call'[c].pc = "record" /\ call'[c].ok => call'[c].ref # NoCopy
         /\ call'[c].pc = "produce" => call'[c].ref \in Copies
         /\ \/ UNCHANGED vendor
            \/ \E i \in Copies : /\ provider = "contrado" => \A j \in Copies : vendor[j] = "none"
                                 /\ \A j \in Copies : j # i => vendor'[j] = vendor[j]
<1> DEFINE s == IF provider = "printify" THEN "held" ELSE "made"
           Then(i) == IF provider = "printify" THEN With(c, "produce", i) ELSE Answer(c, TRUE, i)
           Lost == IF provider = "contrado" THEN Answer(c, FALSE, NoCopy) ELSE Goto(c, "again")
<1>0. /\ call \in [Callers -> CallType] /\ call[c].ok \in BOOLEAN /\ call[c].ref \in Copies \cup {NoCopy}
      /\ NoCopy \notin Copies /\ At(c, "create")
  BY CallTyped, FulfillmentAssumption DEF CallType, CreatePaid
<1>1. UNCHANGED <<world, routes, draft, overlapped>> /\ Create(s, Then, Lost)
  BY DEF CreatePaid
<1>2. ASSUME Lost
      PROVE  /\ call' \in [Callers -> CallType] /\ \A d \in Callers : d # c => call'[d] = call[d]
             /\ \/ call'[c].pc = "again" /\ provider # "contrado"
                \/ call'[c].pc = "record" /\ call'[c].ref = NoCopy /\ ~call'[c].ok /\ provider = "contrado"
  <2>1. CASE provider = "contrado"
    <3>1. Answer(c, FALSE, NoCopy)
      BY <1>2, <2>1
    <3> QED
      BY <1>0, <2>1, <3>1, AnswerMoves
  <2>2. CASE provider # "contrado"
    <3>1. Goto(c, "again")
      BY <1>2, <2>2
    <3> QED
      BY <1>0, <2>2, <3>1, GotoMoves DEF Pcs
  <2> QED
    BY <2>1, <2>2
<1>3. ASSUME NEW i \in Copies, Then(i)
      PROVE  /\ call' \in [Callers -> CallType] /\ \A d \in Callers : d # c => call'[d] = call[d]
             /\ call'[c].ref = i
             /\ \/ call'[c].pc = "produce" /\ provider = "printify"
                \/ call'[c].pc = "record" /\ provider # "printify"
  BY <1>0, <1>3, WithMoves, AnswerMoves DEF Pcs
<1>4. CASE UNCHANGED vendor /\ Lost
  <2>1. VendorKept
    BY <1>4, SameVendor
  <2> QED
    BY <1>0, <1>1, <1>2, <1>4, <2>1
<1>5. CASE ~(UNCHANGED vendor /\ Lost)
  <2>1. PICK i \in Copies :
          /\ vendor[i] = "none"
          /\ provider = "contrado" => \A j \in Copies : vendor[j] = "none"
          /\ \/ Become(i, s) /\ (Then(i) \/ Lost)
             \/ Become(i, "landing") /\ Lost
    BY <1>1, <1>5 DEF Create
  <2>2. PICK st \in {s, "landing"} : Become(i, st) /\ ((st = s /\ Then(i)) \/ Lost)
    BY <2>1
  <2>3. VendorKept /\ vendor'[i] = st /\ \A j \in Copies : j # i => vendor'[j] = vendor[j]
    BY <2>1, <2>2, Became DEF Orders, Owed, Made
  <2>4. CASE Lost
    BY <1>0, <1>1, <1>2, <2>1, <2>3, <2>4
  <2>5. CASE st = s /\ Then(i)
    BY <1>0, <1>1, <1>3, <2>1, <2>3, <2>5
  <2> QED
    BY <2>2, <2>4, <2>5
<1> QED
  BY <1>4, <1>5

LEMMA RestsStepCall ==
  ASSUME Rests, NEW c \in Callers, Step(c)
  PROVE  Rests'
<1>0. /\ call \in [Callers -> CallType] /\ call[c].ok \in BOOLEAN /\ call[c].ref \in Copies \cup {NoCopy}
      /\ latest.ref \in Copies \cup {NoCopy} /\ latest.ok \in BOOLEAN /\ NoCopy \notin Copies
      /\ provider \in {"printful", "printify", "contrado"}
  BY CallTyped, FulfillmentAssumption DEF CallType, Rests, TypeOK
<1>1. CASE Look(c)
  <2>1. /\ At(c, "look") /\ UNCHANGED <<world, vendor, routes, draft, overlapped>>
    BY <1>1 DEF Look
  <2>2. /\ provider = "printify" /\ latest.ref # NoCopy => latest.ref \in Copies /\ vendor'[latest.ref] \in Owed
        /\ provider # "printful" /\ latest.ok => latest.ref \in Copies /\ vendor'[latest.ref] = "made"
    BY <2>1 DEF Rests, References, Truth, Billable, Made
  <2>3. VendorKept
    BY <2>1, SameVendor
  <2>4. CASE With(c, "confirm", latest.ref) /\ provider = "printful"
    BY <1>0, <2>1, <2>3, <2>4, WithMoves, RestsCall DEF At, Pcs
  <2>5. CASE Answer(c, TRUE, latest.ref) /\ provider # "printful" /\ latest.ok
    BY <1>0, <2>1, <2>2, <2>3, <2>5, AnswerMoves, RestsCall DEF At
  <2>6. CASE With(c, "produce", latest.ref) /\ provider = "printify" /\ latest.ref # NoCopy
    BY <1>0, <2>1, <2>2, <2>3, <2>6, WithMoves, RestsCall DEF At, Pcs
  <2>7. CASE Answer(c, FALSE, NoCopy)
    BY <1>0, <2>1, <2>3, <2>7, AnswerMoves, RestsCall DEF At
  <2>8. CASE \/ Goto(c, "recover") /\ provider # "contrado"
             \/ Goto(c, "create")
    BY <1>0, <2>1, <2>3, <2>8, GotoMoves, RestsCall DEF At, Pcs
  <2> QED
    BY <1>0, <1>1, <2>4, <2>5, <2>6, <2>7, <2>8 DEF Look
<1>2. CASE Confirm(c)
  <2>1. /\ At(c, "confirm") /\ provider = "printful" /\ UNCHANGED <<world, routes, draft, overlapped>>
    BY <1>2 DEF Confirm, Rests, Stages
  <2>2. With(c, "recover", NoCopy) \/ \E ok \in BOOLEAN : Answer(c, ok, call[c].ref)
    BY <1>2 DEF Confirm
  <2>3. /\ call' \in [Callers -> CallType] /\ call'[c].pc \in {"record", "recover"}
        /\ \A d \in Callers : d # c => call'[d] = call[d]
    BY <1>0, <2>2, WithMoves, AnswerMoves DEF Pcs
  <2>4. VendorKept
    <3>1. CASE UNCHANGED vendor
      BY <3>1, SameVendor
    <3>2. CASE vendor[call[c].ref] = "draft" /\ Become(call[c].ref, "made")
      BY <2>1, <3>2, Became DEF Orders, Owed
    <3> QED
      BY <1>2, <3>1, <3>2 DEF Confirm
  <2> QED
    BY <2>1, <2>3, <2>4, RestsCall DEF At
<1>3. CASE Recover(c) \/ Again(c)
  <2>1. /\ call[c].pc \in {"recover", "again"} /\ provider # "contrado"
        /\ UNCHANGED <<world, vendor, routes, draft, overlapped>>
    BY <1>3 DEF Recover, Again, Rests, Stages, At
  <2>2. VendorKept
    BY <2>1, SameVendor
  <2>3. CASE \E i \in Copies : Listed(i) /\ Found(c, i)
    <3>1. PICK i \in Copies : Listed(i) /\ Found(c, i)
      BY <2>3
    <3>2. PICK pc \in {"produce", "record"} :
            /\ call' \in [Callers -> CallType] /\ \A d \in Callers : d # c => call'[d] = call[d]
            /\ call'[c].pc = pc /\ call'[c].ref = i
            /\ provider = "printify" <=> pc = "produce"
            /\ provider = "printful" \/ (provider = "printify" /\ vendor[i] \in Owed)
      BY <2>1, <3>1, FoundCall
    <3> QED
      BY <2>1, <2>2, <3>2, RestsCall
  <2>4. CASE Goto(c, "create") \/ Answer(c, FALSE, NoCopy)
    <3>1. /\ call' \in [Callers -> CallType] /\ \A d \in Callers : d # c => call'[d] = call[d]
          /\ \/ call'[c].pc = "create"
             \/ call'[c].pc = "record" /\ call'[c].ref = NoCopy /\ ~call'[c].ok
      BY <1>0, <2>4, GotoMoves, AnswerMoves DEF Pcs
    <3> QED
      BY <2>1, <2>2, <3>1, RestsCall
  <2> QED
    BY <1>3, <2>3, <2>4 DEF Recover, Again
<1>4. CASE CreatePaid(c)
  <2>1. call[c].pc # "idle"
    BY <1>4 DEF CreatePaid, At
  <2>2. /\ UNCHANGED <<world, routes, draft, overlapped>> /\ VendorKept
        /\ call' \in [Callers -> CallType] /\ \A d \in Callers : d # c => call'[d] = call[d]
        /\ call'[c].pc \in {"again", "produce", "record"}
        /\ call'[c].pc = "again" => provider # "contrado"
    BY <1>4, CreatedCall
  <2>3. /\ call'[c].pc = "produce" => provider = "printify"
        /\ call'[c].pc \in {"produce", "record"} /\ call'[c].ref # NoCopy
             => call'[c].ref \in Copies /\ vendor'[call'[c].ref] = (IF provider = "printify" THEN "held" ELSE "made")
        /\ call'[c].pc = "record" /\ provider = "printify" => call'[c].ref = NoCopy
        /\ call'[c].pc = "record" /\ call'[c].ok => call'[c].ref # NoCopy
        /\ call'[c].pc = "produce" => call'[c].ref \in Copies
    BY <1>4, CreatedCall
  <2>4. /\ provider = "printify" /\ call'[c].pc \in {"produce", "record"} /\ call'[c].ref # NoCopy
             => call'[c].ref \in Copies /\ vendor'[call'[c].ref] \in Owed
        /\ provider # "printful" /\ call'[c].pc = "record" /\ call'[c].ok
             => call'[c].ref \in Copies /\ vendor'[call'[c].ref] = "made"
    BY <2>3 DEF Owed
  <2> QED
    BY <2>1, <2>2, <2>3, <2>4, RestsCall
<1>5. CASE Produce(c)
  <2> DEFINE i == call[c].ref
  <2>1. /\ At(c, "produce") /\ UNCHANGED <<world, routes, draft, overlapped>>
        /\ provider = "printify" /\ i \in Copies /\ vendor[i] \in Owed
    BY <1>0, <1>5 DEF Produce, Rests, Stages, References, Billable, At
  <2>2. PICK ok \in BOOLEAN : Answer(c, ok, i) /\ (Become(i, "made") \/ (UNCHANGED vendor /\ ~ok))
    BY <1>5 DEF Produce
  <2>3. /\ call' \in [Callers -> CallType] /\ call'[c].pc = "record" /\ call'[c].ok = ok /\ call'[c].ref = i
        /\ \A d \in Callers : d # c => call'[d] = call[d]
    BY <1>0, <2>2, AnswerMoves
  <2>4. VendorKept /\ vendor'[i] \in Owed /\ (ok => vendor'[i] = "made")
    <3>1. CASE UNCHANGED vendor /\ ~ok
      BY <2>1, <3>1, SameVendor
    <3>2. CASE Become(i, "made")
      BY <2>1, <3>2, Became DEF Orders, Owed
    <3> QED
      BY <2>2, <3>1, <3>2
  <2> QED
    BY <2>1, <2>3, <2>4, RestsCall DEF At
<1>6. CASE Record(c)
  <2>1. /\ At(c, "record") /\ UNCHANGED <<world, vendor, draft, overlapped>>
        /\ call' = [call EXCEPT ![c] = Idle] /\ Insert(call[c].ok, call[c].ref)
    BY <1>6 DEF Record
  <2>2. Idle \in CallType
    BY DEF Idle, CallType, Pcs
  <2>3. /\ call' \in [Callers -> CallType] /\ call'[c].pc = "idle"
        /\ \A d \in Callers : d # c => call'[d] = call[d]
    BY <1>0, <2>1, <2>2 DEF Idle
  <2>4. UNCHANGED routes \/ Wrote(call[c].ok, call[c].ref)
    BY <2>1 DEF Insert, Wrote
  <2>5. VendorKept
    BY <2>1, SameVendor
  <2> QED
    BY <2>1, <2>3, <2>4, <2>5, RestsCall DEF At
<1> QED
  BY <1>1, <1>2, <1>3, <1>4, <1>5, <1>6 DEF Step

\* The steps of checkout, of the vendor and of the rest of the system.
LEMMA RestsDraft ==
  ASSUME Rests, RouteOrder \/ PostDraft \/ RecordDraft
  PROVE  Rests'
<1> USE DEF Rests, TypeOK
<1>0. NoCopy \notin Copies
  BY FulfillmentAssumption
<1>1. CASE RouteOrder
  <2>1. TypeOK'
    BY <1>1 DEF RouteOrder, world, routes
  <2>2. OnlyPrintfulDrafts'
    BY <1>1 DEF RouteOrder, DraftsAtCheckout, OnlyPrintfulDrafts, world
  <2> QED
    BY <1>1, <2>1, <2>2
    DEF RouteOrder, Unpaid, Stages, References, Truth, PrintfulRows, At, Billable, Made, world, routes
<1>2. CASE PostDraft
  <2>0. draft.pc = "post" /\ provider = "printful" /\ UNCHANGED <<world, routes, call, overlapped>>
    BY <1>2 DEF PostDraft, OnlyPrintfulDrafts
  <2>1. /\ draft' = [draft EXCEPT !.pc = "done"] \/ \E i \in Copies : draft' = [pc |-> "record", ref |-> i]
        /\ \/ UNCHANGED vendor
           \/ \E i \in Copies, st \in {"draft", "drafting"} : vendor[i] = "none" /\ Become(i, st)
    BY <1>2, <2>0 DEF PostDraft, Create
  <2>2. /\ vendor' \in [Copies -> Orders]
        /\ \A i \in Copies : Billable(i)' <=> Billable(i)
    BY <2>1 DEF Become, Billable, Orders, Owed
  <2>3. TypeOK'
    BY <2>0, <2>1, <2>2 DEF Orders, world, routes
  <2> QED
    BY <2>0, <2>2, <2>3
    DEF Unpaid, OnlyPrintfulDrafts, Stages, References, Truth, PrintfulRows, At, world, routes
<1>3. CASE RecordDraft
  <2>0. /\ draft.pc = "record" /\ provider = "printful" /\ UNCHANGED <<world, vendor, call, overlapped>>
        /\ draft' = [draft EXCEPT !.pc = "done"]
        /\ UNCHANGED routes \/ (latest' = [ok |-> TRUE, ref |-> draft.ref] /\ confirmed' = TRUE)
    BY <1>3 DEF RecordDraft, OnlyPrintfulDrafts, Insert
  <2>1. draft' \in [pc : {"todo", "post", "record", "done"}, ref : Copies \cup {NoCopy}]
    BY <2>0
  <2>2. latest' \in [ok : BOOLEAN, ref : Copies \cup {NoCopy}] /\ confirmed' \in BOOLEAN
    <3>1. CASE UNCHANGED routes
      BY <3>1 DEF routes
    <3>2. CASE latest' = [ok |-> TRUE, ref |-> draft.ref] /\ confirmed' = TRUE
      <4>1. draft.ref \in Copies \cup {NoCopy}
        OBVIOUS
      <4> QED
        BY <3>2, <4>1
    <3> QED
      BY <2>0, <3>1, <3>2
  <2>3. TypeOK'
    BY <2>0, <2>1, <2>2 DEF world
  <2> QED
    BY <2>0, <2>3
    DEF Unpaid, OnlyPrintfulDrafts, Stages, References, Truth, PrintfulRows, At, Billable, world, routes
<1> QED
  BY <1>1, <1>2, <1>3

LEMMA RestsBegin ==
  ASSUME Rests, Pay \/ Retry
  PROVE  Rests'
<1> USE DEF Rests
<1>1. PICK c \in Callers :
        /\ At(c, "idle") /\ Goto(c, "look")
        /\ UNCHANGED <<provider, vendor, routes, draft>>
        /\ order' = "processing" /\ address' \in BOOLEAN /\ overlapped' \in BOOLEAN
  <2>1. CASE Pay
    BY <2>1 DEF Pay, Begin, Callers, TypeOK
  <2>2. CASE Retry
    BY <2>2 DEF Retry, Begin, Callers, TypeOK, world
  <2> QED
    BY <2>1, <2>2
<1>2. /\ call' \in [Callers -> CallType] /\ call'[c].pc = "look"
      /\ \A d \in Callers : d # c => call'[d] = call[d]
  BY <1>1, CallTyped, GotoMoves DEF Pcs
<1>3. TypeOK'
  BY <1>1, <1>2 DEF TypeOK, CallType, Pcs, routes
<1> QED
  BY <1>1, <1>2, <1>3
  DEF Unpaid, OnlyPrintfulDrafts, Stages, References, Truth, PrintfulRows, At, Billable, Made, routes

LEMMA RestsVendor ==
  ASSUME Rests, NEW i \in Copies, Land(i) \/ DeleteDraft(i)
  PROVE  Rests'
<1> USE DEF Rests
<1>0. provider \in {"printful", "printify", "contrado"}
  BY FulfillmentAssumption DEF TypeOK
<1>1. PICK st \in Orders :
        /\ Become(i, st) /\ UNCHANGED <<world, routes, draft, call, overlapped>>
        /\ (st \in Owed) <=> Billable(i)
        /\ Made(i) => st = "made"
        /\ st \in {"drafting", "draft", "gone"} => vendor[i] \in {"drafting", "draft"}
  <2>1. CASE Land(i)
    <3>1. vendor[i] = "drafting" \/ vendor[i] = "landing"
      BY <2>1 DEF Land, Landing
    <3>2. CASE vendor[i] = "drafting"
      <4>1. Become(i, "draft") /\ UNCHANGED <<world, routes, draft, call, overlapped>>
        BY <2>1, <3>2 DEF Land
      <4> QED
        BY <3>2, <4>1 DEF Orders, Owed, Billable, Made
    <3>3. CASE vendor[i] = "landing"
      <4>1. Become(i, IF provider = "printify" THEN "held" ELSE "made")
            /\ UNCHANGED <<world, routes, draft, call, overlapped>>
        BY <2>1, <3>3 DEF Land
      <4> QED
        BY <3>3, <4>1 DEF Orders, Owed, Billable, Made
    <3> QED
      BY <3>1, <3>2, <3>3
  <2>2. CASE DeleteDraft(i)
    BY <2>2 DEF DeleteDraft, Orders, Owed, Billable, Made
  <2> QED
    BY <2>1, <2>2
<1>2. /\ VendorKept /\ vendor'[i] = st /\ \A j \in Copies : j # i => vendor'[j] = vendor[j]
  BY <1>1, Became DEF OnlyPrintfulDrafts
<1>3. \A j \in Copies : Billable(j)' <=> Billable(j)
  BY <1>1, <1>2 DEF Billable
<1>4. TypeOK'
  BY <1>1, <1>2 DEF TypeOK, VendorKept, Orders, world, routes
<1>5. \A j \in Copies : Made(j) => Made(j)'
  BY <1>2 DEF VendorKept
<1>6. Truth'
  BY <1>1, <1>5 DEF Truth, At, Made, world, routes
<1> QED
  BY <1>1, <1>2, <1>3, <1>4, <1>6
  DEF VendorKept, Unpaid, OnlyPrintfulDrafts, Stages, References, PrintfulRows, At, world, routes

LEMMA RestsRest ==
  ASSUME Rests, Finish \/ GiveAddress \/ Crash \/ UNCHANGED vars
  PROVE  Rests'
<1> USE DEF Rests
<1>1. CASE Finish \/ GiveAddress \/ UNCHANGED vars
  <2>1. UNCHANGED <<provider, vendor, routes, draft, call, overlapped>>
        /\ address' \in BOOLEAN /\ order' \in {order, "over"}
    BY <1>1 DEF Finish, GiveAddress, vars, world, TypeOK
  <2> QED
    BY <2>1 DEF TypeOK, Unpaid, OnlyPrintfulDrafts, Stages, References, Truth, PrintfulRows, At, Billable,
                Made, world, routes
<1>2. CASE Crash
  <2>1. /\ UNCHANGED <<world, vendor, routes, overlapped>> /\ draft' = [draft EXCEPT !.pc = "done"]
        /\ \A c \in Callers : call'[c].pc = "idle"
    BY <1>2 DEF Crash, Idle
  <2>2. Idle \in CallType
    BY DEF Idle, CallType, Pcs
  <2>3. call' \in [Callers -> CallType]
    BY <1>2, <2>2 DEF Crash
  <2>4. TypeOK'
    BY <2>1, <2>3 DEF TypeOK, CallType, Pcs, world, routes
  <2>5. Unpaid' /\ OnlyPrintfulDrafts' /\ Stages' /\ PrintfulRows'
    BY <2>1 DEF TypeOK, Unpaid, OnlyPrintfulDrafts, Stages, PrintfulRows, At, Billable, world, routes
  <2>6. References'
    BY <2>1 DEF References, Billable, world, routes
  <2>7. Truth'
    BY <2>1 DEF Truth, At, Made, world, routes
  <2> QED
    BY <2>4, <2>5, <2>6, <2>7
<1> QED
  BY <1>1, <1>2

LEMMA RestsStep == Rests /\ [Next]_vars => Rests'
  BY RestsStepCall, RestsDraft, RestsBegin, RestsVendor, RestsRest DEF Next

LEMMA RestsInvariant == Spec => []Rests
  BY RestsInit, RestsStep, PTL DEF Spec

-----------------------------------------------------------------------------
(* One order at a time, while nothing overlaps                             *)

\* A step of the one call under way.
LEMMA AloneCall ==
  ASSUME Rests, Alone, NEW c \in Callers, call[c].pc # "idle", UNCHANGED <<provider, draft>>,
         \A d \in Callers : d # c => call'[d] = call[d],
         c = "retry" => call'[c].pc \notin {"look", "confirm"},
         call'[c].pc \in Early => call[c].pc \in Early /\ UNCHANGED vendor,
         call'[c].pc = "create" /\ provider # "contrado" => \A i \in Copies : ~Billable(i),
         \A i, j \in Copies : Billable(i)' /\ Billable(j)' => i = j
  PROVE  Alone'
<1> USE DEF Callers
<1>1. CASE c = "paid"
  <2>1. call["retry"].pc = "idle" /\ call'["retry"] = call["retry"]
    BY <1>1 DEF Alone, At
  <2> QED
    BY <1>1, <2>1 DEF Alone, At, Early, Billable, Landing
<1>2. CASE c = "retry"
  <2>1. call["paid"].pc = "idle" /\ call'["paid"] = call["paid"]
    BY <1>2 DEF Alone, At
  <2> QED
    BY <1>2, <2>1 DEF Alone, At, Early, Billable, Landing
<1> QED
  BY <1>1, <1>2

LEMMA AloneStepCall ==
  ASSUME Rests, Alone, NEW c \in Callers, Step(c)
  PROVE  Alone'
<1>0. /\ call \in [Callers -> CallType] /\ call[c].ref \in Copies \cup {NoCopy}
      /\ latest.ref \in Copies \cup {NoCopy} /\ vendor \in [Copies -> Orders] /\ NoCopy \notin Copies
      /\ \A i, j \in Copies : Billable(i) /\ Billable(j) => i = j
  BY CallTyped, FulfillmentAssumption DEF CallType, Rests, TypeOK, Alone, Orders
<1>s. ASSUME UNCHANGED vendor PROVE \A i, j \in Copies : Billable(i)' /\ Billable(j)' => i = j
  BY <1>0, <1>s DEF Billable
<1>1. CASE Look(c)
  <2>1. /\ At(c, "look") /\ UNCHANGED <<world, vendor, routes, draft, overlapped>>
    BY <1>1 DEF Look
  <2>2. CASE With(c, "confirm", latest.ref) /\ provider = "printful" /\ latest.ref # NoCopy
    <3>1. c # "retry"
      BY <2>1, <2>2 DEF Alone, At
    <3> QED
      BY <1>0, <1>s, <2>1, <2>2, <3>1, WithMoves, AloneCall DEF At, Pcs, Early, world
  <2>3. CASE \/ Answer(c, TRUE, latest.ref)
             \/ Answer(c, FALSE, NoCopy)
             \/ With(c, "produce", latest.ref)
    <3>1. /\ call'[c].pc \in {"record", "produce"} /\ \A d \in Callers : d # c => call'[d] = call[d]
      BY <1>0, <2>3, WithMoves, AnswerMoves DEF Pcs
    <3> QED
      BY <1>s, <2>1, <3>1, AloneCall DEF At, Early, world
  <2>4. CASE \/ Goto(c, "recover")
             \/ Goto(c, "create") /\ provider = "contrado"
    <3>1. /\ call'[c].pc \in {"recover", "create"} /\ \A d \in Callers : d # c => call'[d] = call[d]
          /\ call'[c].pc = "create" => provider = "contrado"
      BY <1>0, <2>4, GotoMoves DEF Pcs
    <3> QED
      BY <1>s, <2>1, <3>1, AloneCall DEF At, Early, world
  <2>5. provider \in {"printful", "printify", "contrado"}
    BY FulfillmentAssumption DEF Rests, TypeOK
  <2> QED
    BY <1>1, <2>2, <2>3, <2>4, <2>5 DEF Look
<1>2. CASE Confirm(c)
  <2>1. /\ At(c, "confirm") /\ UNCHANGED <<world, draft>> /\ c = "paid" /\ \A i \in Copies : ~Billable(i)
    BY <1>2 DEF Confirm, Alone, Callers, At, Early
  <2>2. CASE With(c, "recover", NoCopy) /\ UNCHANGED vendor
    <3>1. call'[c].pc = "recover" /\ \A d \in Callers : d # c => call'[d] = call[d]
      BY <1>0, <2>2, WithMoves DEF Pcs
    <3> QED
      BY <1>s, <2>1, <2>2, <3>1, AloneCall DEF At, Early, world
  <2>3. CASE \E ok \in BOOLEAN : Answer(c, ok, call[c].ref) /\ (UNCHANGED vendor \/ Become(call[c].ref, "made"))
    <3>1. call'[c].pc = "record" /\ \A d \in Callers : d # c => call'[d] = call[d]
      BY <1>0, <2>3, AnswerMoves
    <3>2. \A i \in Copies : i # call[c].ref => ~Billable(i)'
      BY <1>0, <2>1, <2>3 DEF Become, Billable
    <3>3. \A i, j \in Copies : Billable(i)' /\ Billable(j)' => i = j
      BY <3>2
    <3> QED
      BY <2>1, <3>1, <3>3, AloneCall DEF At, Early, world
  <2> QED
    BY <1>2, <2>2, <2>3 DEF Confirm
<1>3. CASE Recover(c) \/ Again(c)
  <2>1. /\ call[c].pc \in {"recover", "again"} /\ UNCHANGED <<world, vendor, draft>>
    BY <1>3 DEF Recover, Again, At
  <2>2. CASE \/ \E i \in Copies : Listed(i) /\ Found(c, i)
             \/ Answer(c, FALSE, NoCopy)
    <3>1. /\ call'[c].pc \in {"record", "produce"} /\ \A d \in Callers : d # c => call'[d] = call[d]
      BY <1>0, <2>1, <2>2, FoundCall, AnswerMoves
    <3> QED
      BY <1>s, <2>1, <3>1, AloneCall DEF Early, world
  <2>3. CASE At(c, "recover") /\ (\A i \in Copies : ~Listed(i)) /\ Goto(c, "create")
    <3>1. /\ call'[c].pc = "create" /\ \A d \in Callers : d # c => call'[d] = call[d]
      BY <1>0, <2>3, GotoMoves DEF Pcs
    <3>2. \A i \in Copies : ~Billable(i)
      <4>1. CASE c = "paid"
        BY <2>3, <4>1 DEF Alone, At, Early
      <4>2. CASE c = "retry"
        <5>1. \A i \in Copies : ~Landing(i) /\ ~Listed(i)
          BY <2>3, <4>2 DEF Alone, At, Early
        <5> QED
          BY <5>1 DEF Landing, Listed, Billable, Owed
      <4> QED
        BY <4>1, <4>2 DEF Callers
    <3> QED
      BY <1>s, <2>1, <2>3, <3>1, <3>2, AloneCall DEF At, Early, world
  <2> QED
    BY <1>3, <2>2, <2>3 DEF Recover, Again
<1>4. CASE CreatePaid(c)
  <2>1. /\ At(c, "create") /\ UNCHANGED <<world, draft>>
        /\ call'[c].pc \in {"again", "produce", "record"} /\ \A d \in Callers : d # c => call'[d] = call[d]
        /\ \/ UNCHANGED vendor
           \/ \E i \in Copies : /\ provider = "contrado" => \A j \in Copies : vendor[j] = "none"
                                /\ \A j \in Copies : j # i => vendor'[j] = vendor[j]
    BY <1>4, CreatedCall DEF CreatePaid
  <2>2. provider # "contrado" => \A i \in Copies : ~Billable(i)
    BY <2>1 DEF Alone, At, Early, Callers
  <2>3. \A i, j \in Copies : Billable(i)' /\ Billable(j)' => i = j
    BY <1>s, <2>1, <2>2 DEF Billable, Owed
  <2> QED
    BY <2>1, <2>3, AloneCall DEF At, Early, world
<1>5. CASE Produce(c)
  <2>1. /\ At(c, "produce") /\ UNCHANGED <<world, draft>>
        /\ call[c].ref \in Copies /\ Billable(call[c].ref)
    BY <1>0, <1>5 DEF Produce, Rests, Stages, References, At
  <2>2. /\ \E ok \in BOOLEAN : Answer(c, ok, call[c].ref)
        /\ UNCHANGED vendor \/ Become(call[c].ref, "made")
    BY <1>5 DEF Produce
  <2>3. call'[c].pc = "record" /\ \A d \in Callers : d # c => call'[d] = call[d]
    BY <1>0, <2>2, AnswerMoves
  <2>4. \A i \in Copies : Billable(i)' => Billable(i)
    BY <1>0, <2>1, <2>2 DEF Become, Billable
  <2>5. \A i, j \in Copies : Billable(i)' /\ Billable(j)' => i = j
    BY <1>0, <2>4
  <2> QED
    BY <2>1, <2>3, <2>5, AloneCall DEF At, Early, world
<1>6. CASE Record(c)
  <2>1. /\ At(c, "record") /\ UNCHANGED <<world, vendor, draft>>
        /\ call'[c].pc = "idle" /\ \A d \in Callers : d # c => call'[d] = call[d]
    BY <1>0, <1>6 DEF Record, Idle
  <2> QED
    BY <1>s, <2>1, AloneCall DEF At, Early, world
<1> QED
  BY <1>1, <1>2, <1>3, <1>4, <1>5, <1>6 DEF Step

LEMMA AloneStep ==
  ASSUME Rests, ~overlapped => Alone, [Next]_vars, ~overlapped'
  PROVE  Alone'
<1> USE DEF Rests, TypeOK
<1>c. call \in [Callers -> CallType]
  BY CallTyped
<1>0. ~overlapped
  BY DEF Next, Step, RouteOrder, PostDraft, RecordDraft, Pay, Retry, Look, Confirm, Recover, CreatePaid,
         Again, Produce, Record, Land, DeleteDraft, Finish, GiveAddress, Crash, vars
<1>1. ASSUME NEW c \in Callers, Step(c) PROVE Alone'
  BY <1>0, <1>1, AloneStepCall
<1>2. CASE RouteOrder
  <2>1. \A c \in Callers : call'[c].pc = "idle"
    BY <1>2 DEF RouteOrder, Unpaid, At
  <2> QED
    BY <1>0, <1>2, <2>1 DEF RouteOrder, Alone, At, Early, Callers, Billable
<1>3. CASE PostDraft
  <2>0. /\ draft.pc = "post" /\ provider = "printful" /\ UNCHANGED <<world, routes, call, overlapped>>
    BY <1>3 DEF PostDraft, OnlyPrintfulDrafts
  <2>1. \/ UNCHANGED vendor
        \/ \E i \in Copies, st \in {"draft", "drafting"} : vendor[i] = "none" /\ Become(i, st)
    BY <1>3, <2>0 DEF PostDraft, Create
  <2>2. \A i \in Copies : Billable(i)' <=> Billable(i)
    BY <2>1 DEF Become, Billable, Owed
  <2>3. call["retry"].pc = "idle" /\ Alone
    BY <1>0, <2>0 DEF Alone, At
  <2> QED
    BY <2>0, <2>2, <2>3 DEF Alone, At, Early
<1>4. CASE RecordDraft
  <2>1. draft.pc = "record" /\ UNCHANGED <<world, vendor, call>> /\ draft'.pc = "done"
    BY <1>4 DEF RecordDraft
  <2>2. call["retry"].pc = "idle" /\ Alone
    BY <1>0, <2>1 DEF Alone, At
  <2> QED
    BY <2>1, <2>2 DEF Alone, At, Early, Billable
<1>5. CASE Pay
  <2>1. /\ Goto("paid", "look") /\ UNCHANGED <<provider, vendor, routes, draft>>
        /\ call["retry"].pc = "idle" /\ \A i \in Copies : ~Billable(i)
    BY <1>5 DEF Pay, Begin, Unpaid, At, Callers
  <2>2. call'["retry"] = call["retry"] /\ call'["paid"].pc = "look"
    BY <1>c, <2>1, GotoMoves DEF Pcs, Callers
  <2> QED
    BY <2>1, <2>2 DEF Alone, At, Early, Billable
<1>6. CASE Retry
  <2>1. /\ Goto("retry", "look") /\ UNCHANGED <<world, vendor, routes, draft>>
        /\ ~confirmed /\ \A i \in Copies : ~Landing(i)
        /\ call["paid"].pc = "idle" /\ draft.pc \notin {"post", "record"}
    BY <1>6 DEF Retry, Begin, At
  <2>2. call'["paid"] = call["paid"] /\ call'["retry"].pc = "look"
    BY <1>c, <2>1, GotoMoves DEF Pcs, Callers
  <2>3. provider = "printful" => latest.ref = NoCopy
    BY <2>1 DEF PrintfulRows
  <2> QED
    BY <1>0, <2>1, <2>2, <2>3 DEF Alone, At, Early, Billable, Landing, world, routes
<1>7. ASSUME NEW i \in Copies, Land(i) \/ DeleteDraft(i) PROVE Alone'
  <2>1. UNCHANGED <<world, routes, draft, call>> /\ \A j \in Copies : j # i => vendor'[j] = vendor[j]
    BY <1>7 DEF Land, DeleteDraft, Become
  <2>2. Billable(i)' => Billable(i)
    BY <1>7 DEF Land, DeleteDraft, Landing, Become, Billable, Owed
  <2>3. Landing(i)' => Landing(i)
    BY <1>7 DEF Land, DeleteDraft, Landing, Become
  <2>4. \A j \in Copies : (Billable(j)' => Billable(j)) /\ (Landing(j)' => Landing(j))
    BY <2>1, <2>2, <2>3 DEF Billable, Landing
  <2> QED
    BY <1>0, <2>1, <2>4 DEF Alone, At, world, routes
<1>8. CASE Finish \/ GiveAddress \/ UNCHANGED vars
  BY <1>0, <1>8 DEF Finish, GiveAddress, vars, world, routes, Alone, At, Billable, Landing
<1>9. CASE Crash
  <2>1. /\ UNCHANGED vendor /\ \A c \in Callers : call'[c].pc = "idle"
    BY <1>9 DEF Crash, Idle
  <2> QED
    BY <1>0, <2>1 DEF Alone, At, Early, Billable, Callers
<1> QED
  BY <1>1, <1>2, <1>3, <1>4, <1>5, <1>6, <1>7, <1>8, <1>9 DEF Next

LEMMA RoutedInvariant == Spec => []Routed
<1>1. Init => Routed
  BY RestsInit DEF Routed
<1>2. Routed /\ [Next]_vars => Routed'
  BY RestsStep, AloneStep DEF Routed
<1> QED
  BY <1>1, <1>2, PTL DEF Spec

\* Nothing is printed before the payment; and while the payment's call and the hourly
\* retry do not overlap, one order is printed at most, whatever answers and rows are
\* lost and wherever processes die.
THEOREM PrintedOnceAndPaid == Spec => []PrintedOncePaid
<1>1. ASSUME Routed PROVE PrintedOnlyPaid
  BY <1>1 DEF Routed, Rests, Unpaid, PrintedOnlyPaid, Billable, Owed, Made
<1>2. ASSUME Routed PROVE PrintedOnce
  <2> SUFFICES ASSUME ~overlapped PROVE Cardinality({i \in Copies : Made(i)}) <= 1
    BY DEF PrintedOnce
  <2>1. \A i, j \in Copies : Made(i) /\ Made(j) => i = j
    BY <1>2 DEF Routed, Alone, Billable, Owed, Made
  <2>2. CASE {i \in Copies : Made(i)} = {}
    BY <2>2, FS_EmptySet
  <2>3. CASE \E i \in Copies : Made(i)
    <3>1. PICK i \in Copies : Made(i)
      BY <2>3
    <3>2. \A j \in Copies : Made(j) <=> j = i
      BY <2>1, <3>1
    <3>3. {j \in Copies : Made(j)} = {i}
      BY <3>1, <3>2
    <3>4. Cardinality({j \in Copies : Made(j)}) = 1
      BY ONLY <3>3, FS_Singleton
    <3> QED
      BY ONLY <3>4
  <2> QED
    BY <2>2, <2>3
<1>3. Routed => PrintedOncePaid
  BY <1>1, <1>2 DEF PrintedOncePaid
<1> QED
  BY <1>3, RoutedInvariant, PTL

\* A row that ends the retries of a vendor without drafts tells the truth.
THEOREM ConfirmedRoutesAreMade == Spec => []ConfirmedIsMade
<1>1. Routed => ConfirmedIsMade
  BY DEF Routed, Rests, Truth, ConfirmedIsMade
<1> QED
  BY <1>1, RoutedInvariant, PTL

THEOREM RoutingTypes == Spec => []TypeOK
<1>1. Routed => TypeOK
  BY DEF Routed, Rests
<1> QED
  BY <1>1, RoutedInvariant, PTL

-----------------------------------------------------------------------------
(* The parcels                                                             *)

\* The parcels without the question of who they are for.  A row is marked shipped
\* only with a carrier, a row is never deleted, and what was tracked stays so: a
\* request that means to write "delivered" read a shipped row, and whatever was
\* written over that status since, the carrier is still there.
Tracked ==
  /\ Parcelling!TypeOK
  /\ \A i \in Parcels : s_parcel[i].status \in {"shipped", "delivered"} => s_parcel[i].tracked
  /\ \A c \in Requests : s_call[c].to \in Parcelling!Statuses =>
       s_call[c].id \in Parcels /\ Parcelling!Exists(s_call[c].id)
  /\ \A c \in Requests : s_call[c].to = "delivered" => s_parcel[s_call[c].id].tracked

\* One split is under way at most, none of its parties has a parcel, and no party two.
Parted ==
  /\ \A c, d \in Requests : s_call[c].to = "split" /\ s_call[d].to = "split" => c = d
  /\ \A c \in Requests : s_call[c].to = "split" =>
       \A i \in Parcels : Parcelling!Exists(i) => s_parcel[i].party \notin s_call[c].left
  /\ \A i, j \in Parcels :
       Parcelling!Exists(i) /\ Parcelling!Exists(j) /\ i # j => s_parcel[i].party # s_parcel[j].party

Kept == Tracked /\ (~s_overlapped => Parted)

LEMMA KeptInit == Parcelling!Init => Kept
<1> SUFFICES ASSUME Parcelling!Init PROVE Kept
  OBVIOUS
<1>1. /\ \A i \in Parcels : s_parcel[i] = [party |-> NoParcel, status |-> "none", tracked |-> FALSE]
      /\ \A c \in Requests : s_call[c] = [to |-> "idle", id |-> NoParcel, left |-> {}]
  BY DEF Parcelling!Init, Parcelling!NoRow, Parcelling!Idle
<1>2. Parcelling!TypeOK
  BY DEF Parcelling!Init, Parcelling!TypeOK, Parcelling!NoRow, Parcelling!Idle
<1>3. Tracked
  BY <1>1, <1>2 DEF Tracked, Parcelling!Statuses
<1>4. Parted
  BY <1>1 DEF Parted, Parcelling!Exists
<1> QED
  BY <1>3, <1>4 DEF Kept

RowType == [party : Parties \cup {NoParcel}, status : Parcelling!Statuses \cup {"none"},
            tracked : BOOLEAN]
RequestType == [to : Parcelling!Statuses \cup {"idle", "split"}, id : Parcels \cup {NoParcel},
                left : SUBSET Parties]

\* A split makes one row of what was none, and strikes its party off.
SplitEffect(c, i, p) ==
  /\ s_parcel[i].status = "none" /\ p \in s_call[c].left /\ s_call[c].to = "split"
  /\ s_parcel'[i] = [party |-> p, status |-> "pending", tracked |-> FALSE]
  /\ \A j \in Parcels : j # i => s_parcel'[j] = s_parcel[j]
  /\ s_parcel' \in [Parcels -> RowType] /\ s_call' \in [Requests -> RequestType]
  /\ \A d \in Requests : d # c => s_call'[d] = s_call[d]
  /\ s_call'[c].to \in {"idle", "split"}
  /\ s_call'[c].to = "split" => s_call'[c].left = s_call[c].left \ {p}
  /\ s_overlapped' = s_overlapped /\ s_address' = s_address

LEMMA SplitMoves ==
  ASSUME Tracked, NEW c \in Requests, NEW i \in Parcels, NEW p \in Parties,
         Parcelling!Split(c, i, p)
  PROVE  SplitEffect(c, i, p)
<1>1. /\ s_parcel \in [Parcels -> RowType] /\ s_call \in [Requests -> RequestType]
  BY DEF Tracked, Parcelling!TypeOK, RowType, RequestType
<1>2. /\ s_parcel[i].status = "none" /\ p \in s_call[c].left /\ s_call[c].to = "split"
      /\ s_parcel' = [s_parcel EXCEPT ![i] = [party |-> p, status |-> "pending", tracked |-> FALSE]]
      /\ s_overlapped' = s_overlapped /\ s_address' = s_address
  BY DEF Parcelling!Split, Parcelling!Exists
<1>3. [party |-> p, status |-> "pending", tracked |-> FALSE] \in RowType
  BY DEF RowType, Parcelling!Statuses
<1> DEFINE rest == [s_call[c] EXCEPT !.left = s_call[c].left \ {p}]
<1>4. s_call[c] \in RequestType
  BY <1>1
<1>5. rest \in RequestType /\ rest.to = "split" /\ rest.left = s_call[c].left \ {p}
  BY <1>2, <1>4 DEF RequestType
<1>6. Parcelling!Idle \in RequestType /\ Parcelling!Idle.to = "idle"
  BY DEF Parcelling!Idle, RequestType
<1>7. \E next \in {Parcelling!Idle, rest} : s_call' = [s_call EXCEPT ![c] = next]
  <2>1. s_call' = [s_call EXCEPT ![c] = IF s_call[c].left = {p} THEN Parcelling!Idle ELSE rest]
    BY DEF Parcelling!Split
  <2>2. CASE s_call[c].left = {p}
    BY <2>1, <2>2
  <2>3. CASE s_call[c].left # {p}
    BY <2>1, <2>3
  <2> QED
    BY <2>2, <2>3
<1>8. PICK next \in {Parcelling!Idle, rest} : s_call' = [s_call EXCEPT ![c] = next]
  BY <1>7
<1> HIDE DEF rest
<1>9. next \in RequestType /\ next.to \in {"idle", "split"}
      /\ (next.to = "split" => next.left = s_call[c].left \ {p})
  BY <1>5, <1>6, <1>8
<1>10. /\ s_parcel'[i] = [party |-> p, status |-> "pending", tracked |-> FALSE]
       /\ \A j \in Parcels : j # i => s_parcel'[j] = s_parcel[j]
       /\ s_parcel' \in [Parcels -> RowType]
  BY <1>1, <1>2, <1>3
<1>11. /\ s_call'[c] = next /\ s_call' \in [Requests -> RequestType]
       /\ \A d \in Requests : d # c => s_call'[d] = s_call[d]
  BY <1>1, <1>8, <1>9
<1> QED
  BY <1>2, <1>9, <1>10, <1>11 DEF SplitEffect

\* A write moves the status of one row, and can only add its carrier.
WriteEffect(c) ==
  /\ s_call[c].id \in Parcels /\ s_call[c].to \in Parcelling!Statuses
  /\ \A i \in Parcels :
       /\ s_parcel'[i].party = s_parcel[i].party
       /\ i # s_call[c].id => s_parcel'[i] = s_parcel[i]
       /\ i = s_call[c].id =>
            /\ s_parcel'[i].status = s_call[c].to
            /\ s_parcel'[i].tracked = (s_parcel[i].tracked \/ s_call[c].to = "shipped")
  /\ s_parcel' \in [Parcels -> RowType] /\ s_call' \in [Requests -> RequestType]
  /\ \A d \in Requests : d # c => s_call'[d] = s_call[d]
  /\ s_call'[c].to = "idle"
  /\ s_overlapped' = s_overlapped /\ s_address' = s_address

LEMMA WriteMoves ==
  ASSUME Tracked, NEW c \in Requests, Parcelling!Write(c)
  PROVE  WriteEffect(c)
<1> DEFINE i == s_call[c].id
           to == s_call[c].to
           row == [party |-> s_parcel[i].party, status |-> to,
                   tracked |-> s_parcel[i].tracked \/ to = "shipped"]
<1>1. i \in Parcels /\ to \in Parcelling!Statuses
  BY DEF Tracked, Parcelling!Write
<1>2. s_parcel \in [Parcels -> RowType]
  BY DEF Tracked, Parcelling!TypeOK, RowType
<1>3. s_parcel' = [s_parcel EXCEPT ![i].status = to, ![i].tracked = @ \/ to = "shipped"]
  BY DEF Parcelling!Write
<1> DEFINE moved == [s_parcel EXCEPT ![i].status = to]
<1>a. s_parcel[i] \in RowType
  BY <1>1, <1>2
<1>4. s_parcel' = [s_parcel EXCEPT ![i] = row]
  <2>1. moved = [s_parcel EXCEPT ![i] = [s_parcel[i] EXCEPT !.status = to]]
    BY <1>1, <1>2
  <2>2. s_parcel' = [moved EXCEPT ![i].tracked = @ \/ to = "shipped"]
    BY <1>3
  <2>3. moved[i] = [s_parcel[i] EXCEPT !.status = to] /\ DOMAIN moved = Parcels
    BY <1>1, <1>2, <2>1
  <2>4. [moved[i] EXCEPT !.tracked = @ \/ to = "shipped"] = row
    BY <1>a, <2>3 DEF RowType
  <2>5. s_parcel' = [moved EXCEPT ![i] = row]
    BY <2>2, <2>4
  <2> QED
    BY <1>1, <1>2, <2>1, <2>5
<1>5. row \in RowType
  BY <1>1, <1>a DEF RowType
<1>6. s_parcel'[i] = row /\ \A j \in Parcels : j # i => s_parcel'[j] = s_parcel[j]
  BY <1>1, <1>2, <1>4
<1>7. s_parcel' \in [Parcels -> RowType]
  BY <1>1, <1>2, <1>4, <1>5
<1>8. s_call \in [Requests -> RequestType] /\ Parcelling!Idle \in RequestType
  BY DEF Tracked, Parcelling!TypeOK, RequestType, Parcelling!Idle
<1>9. /\ s_call' = [s_call EXCEPT ![c] = Parcelling!Idle]
      /\ s_overlapped' = s_overlapped /\ s_address' = s_address
  BY DEF Parcelling!Write
<1>10. /\ s_call' \in [Requests -> RequestType] /\ s_call'[c] = Parcelling!Idle
       /\ \A d \in Requests : d # c => s_call'[d] = s_call[d]
  BY <1>8, <1>9
<1>11. s_call'[c].to = "idle"
  BY <1>10 DEF Parcelling!Idle
<1> QED
  BY <1>1, <1>6, <1>7, <1>9, <1>10, <1>11 DEF WriteEffect

LEMMA TrackedStep == Tracked /\ [Parcelling!Next]_svars => Tracked'
<1> SUFFICES ASSUME Tracked, [Parcelling!Next]_svars PROVE Tracked'
  OBVIOUS
<1> USE DEF Parcelling!Idle, Parcelling!Exists, Parcelling!Statuses
<1>1. ASSUME NEW c \in Requests, Parcelling!Plan(c) PROVE Tracked'
  BY <1>1 DEF Tracked, Parcelling!Plan, Parcelling!TypeOK
<1>2. ASSUME NEW c \in Requests, Parcelling!Crash(c) PROVE Tracked'
  BY <1>2 DEF Tracked, Parcelling!Crash, Parcelling!TypeOK
<1>3. ASSUME NEW c \in Requests, NEW i \in Parcels, NEW p \in Parties, Parcelling!Split(c, i, p)
      PROVE  Tracked'
  <2>1. SplitEffect(c, i, p)
    BY <1>3, SplitMoves
  <2>2. Parcelling!TypeOK'
    BY <2>1 DEF SplitEffect, Tracked, Parcelling!TypeOK, RowType, RequestType
  <2> QED
    BY <2>1, <2>2 DEF SplitEffect, Tracked
<1>4. ASSUME NEW c \in Requests, NEW i \in Parcels, NEW to \in Parcelling!Statuses,
             Parcelling!Read(c, i, to)
      PROVE  Tracked'
  BY <1>4 DEF Tracked, Parcelling!Read, Parcelling!Transitions, Parcelling!TypeOK
<1>5. ASSUME NEW c \in Requests, Parcelling!Write(c) PROVE Tracked'
  <2>1. WriteEffect(c)
    BY <1>5, WriteMoves
  <2>2. Parcelling!TypeOK'
    BY <2>1 DEF WriteEffect, Tracked, Parcelling!TypeOK, RowType, RequestType
  <2>3. \A i \in Parcels : s_parcel'[i].status \in {"shipped", "delivered"} => s_parcel'[i].tracked
    BY <2>1 DEF WriteEffect, Tracked
  <2>4. \A i \in Parcels : s_parcel[i].status # "none" => s_parcel'[i].status # "none"
    BY <2>1 DEF WriteEffect
  <2>5. \A i \in Parcels : s_parcel[i].tracked => s_parcel'[i].tracked
    BY <2>1 DEF WriteEffect
  <2>6. \A d \in Requests : s_call'[d].to \in Parcelling!Statuses => d # c
    BY <2>1 DEF WriteEffect
  <2>7. \A d \in Requests : s_call'[d].to \in Parcelling!Statuses => s_call'[d] = s_call[d]
    BY <2>1, <2>6 DEF WriteEffect
  <2> QED
    BY <2>2, <2>3, <2>4, <2>5, <2>7 DEF Tracked
<1>6. CASE UNCHANGED svars
  BY <1>6 DEF Tracked, svars, Parcelling!TypeOK
<1> QED
  BY <1>1, <1>2, <1>3, <1>4, <1>5, <1>6 DEF Parcelling!Next

LEMMA PartedStep ==
  Kept /\ [Parcelling!Next]_svars => (~s_overlapped' => Parted')
<1> SUFFICES ASSUME Kept, [Parcelling!Next]_svars, ~s_overlapped' PROVE Parted'
  OBVIOUS
<1>0. Tracked /\ (~s_overlapped => Parted)
  BY DEF Kept
<1> USE DEF Parcelling!Idle, Parcelling!Exists, Parcelling!Statuses
<1>1. ASSUME NEW c \in Requests, Parcelling!Plan(c) PROVE Parted'
  BY <1>0, <1>1 DEF Tracked, Parted, Parcelling!Plan, Parcelling!TypeOK
<1>2. ASSUME NEW c \in Requests, Parcelling!Crash(c) PROVE Parted'
  BY <1>0, <1>2 DEF Tracked, Parted, Parcelling!Crash, Parcelling!TypeOK
<1>3. ASSUME NEW c \in Requests, NEW i \in Parcels, NEW p \in Parties, Parcelling!Split(c, i, p)
      PROVE  Parted'
  <2>1. Parted /\ SplitEffect(c, i, p)
    <3>1. SplitEffect(c, i, p)
      BY <1>0, <1>3, SplitMoves
    <3> QED
      BY <1>0, <3>1 DEF SplitEffect
  <2>2. \A j \in Parcels : s_parcel[j].status # "none" => s_parcel[j].party # p
    BY <2>1 DEF Parted, SplitEffect
  <2>3. \A d \in Requests : s_call'[d].to = "split" => d = c
    BY <2>1 DEF Parted, SplitEffect
  <2>4. \A d \in Requests : s_call'[d].to = "split" =>
          \A j \in Parcels : s_parcel'[j].status # "none" => s_parcel'[j].party \notin s_call'[d].left
    <3> SUFFICES ASSUME s_call'[c].to = "split", NEW j \in Parcels, s_parcel'[j].status # "none"
                 PROVE  s_parcel'[j].party \notin s_call'[c].left
      BY <2>3
    <3> QED
      BY <2>1 DEF Parted, SplitEffect
  <2>5. \A j, k \in Parcels :
          s_parcel'[j].status # "none" /\ s_parcel'[k].status # "none" /\ j # k
            => s_parcel'[j].party # s_parcel'[k].party
    BY <2>1, <2>2 DEF Parted, SplitEffect
  <2> QED
    BY <2>3, <2>4, <2>5 DEF Parted
<1>4. ASSUME NEW c \in Requests, NEW i \in Parcels, NEW to \in Parcelling!Statuses,
             Parcelling!Read(c, i, to)
      PROVE  Parted'
  BY <1>0, <1>4 DEF Tracked, Parted, Parcelling!Read, Parcelling!TypeOK
<1>5. ASSUME NEW c \in Requests, Parcelling!Write(c) PROVE Parted'
  <2>1. WriteEffect(c)
    BY <1>0, <1>5, WriteMoves
  <2> QED
    BY <1>0, <2>1 DEF Tracked, Parted, WriteEffect
<1>6. CASE UNCHANGED svars
  BY <1>0, <1>6 DEF Parted, svars
<1> QED
  BY <1>1, <1>2, <1>3, <1>4, <1>5, <1>6 DEF Parcelling!Next

LEMMA KeptStep == Kept /\ [Parcelling!Next]_svars => Kept'
  BY TrackedStep, PartedStep DEF Kept

-----------------------------------------------------------------------------
(* The partners                                                            *)

\* What a partner may be sent of an order never changes: its hook, its credential and
\* the vendors of the order are set, so every delivery adds lines that are its own.
Addressed == Partners!TypeOK /\ Partners!OwnLinesOnly

CallsType == [Partners!Callers -> [pc : {"idle", "open", "post"}, attempt : 1 .. 2]]
RowsType ==
  [last : {"none", "genuine", "hard", "soft"}, cooled : BOOLEAN,
   count : 0 .. Partners!MaxRows, fails : 0 .. Partners!PauseAfter]

LEMMA AddressedInit == Partners!Init => Addressed
<1> SUFFICES ASSUME Partners!Init PROVE Addressed
  OBVIOUS
<1>1. Partners!TypeOK
  BY AfterSaleAssumption
  DEF Partners!Init, Partners!TypeOK, Partners!NoRows, Partners!Idle, Partners!MaxRows,
      Partners!PauseAfter
<1>2. Partners!OwnLinesOnly
  BY DEF Partners!Init, Partners!OwnLinesOnly
<1> QED
  BY <1>1, <1>2 DEF Addressed

LEMMA RowTyped ==
  ASSUME Partners!TypeOK, NEW kind \in {"genuine", "hard", "soft"},
         NEW fails \in 0 .. Partners!PauseAfter, Partners!Row(kind, fails)
  PROVE  w_rows' \in RowsType
  BY DEF Partners!TypeOK, Partners!Row, RowsType, Partners!MaxRows, Partners!PauseAfter

LEMMA ScopedOwn ==
  ASSUME Partners!TypeOK
  PROVE  /\ Partners!Scoped \subseteq Vendors \cup {NoVendor}
         /\ w_setup.topic = "order" =>
              /\ Partners!Scoped \subseteq w_setup.lines
              /\ w_setup.cred # NoVendor => Partners!Scoped \subseteq {w_setup.cred}
  BY DEF Partners!TypeOK, Partners!SetupType, Partners!Scoped, Partners!Owns

\* What one call of deliver() and its callers change.
LEMMA CallsTyped ==
  ASSUME Partners!TypeOK, NEW c \in Partners!Callers,
         \/ Partners!Begin(c) \/ Partners!Done(c) \/ Partners!Next2(c)
         \/ w_call' = [w_call EXCEPT ![c].pc = "post"]
  PROVE  w_call' \in CallsType
<1>1. w_call \in CallsType
  BY DEF Partners!TypeOK, CallsType
<1>2. Partners!Begin(c) \/ w_call' = [w_call EXCEPT ![c].pc = "post"] => w_call' \in CallsType
  BY <1>1 DEF Partners!Begin, CallsType
<1>3. Partners!Done(c) => w_call' \in CallsType
  BY <1>1 DEF Partners!Done, Partners!Idle, CallsType
<1>4. Partners!Next2(c) => w_call' \in CallsType
  BY <1>1, <1>3 DEF Partners!Next2, CallsType
<1> QED
  BY <1>2, <1>3, <1>4

LEMMA AddressedStep == Addressed /\ [Partners!Next]_wvars => Addressed'
<1> SUFFICES ASSUME Addressed, [Partners!Next]_wvars PROVE Addressed'
  OBVIOUS
<1>0. Partners!TypeOK /\ Partners!OwnLinesOnly
  BY DEF Addressed
<1>a. ASSUME w_setup' = w_setup, w_got' = w_got,
             w_order' \in {"pending", "processing", "over"}, w_hook' \in {"active", "paused"},
             w_secret' \in BOOLEAN, w_young' \in BOOLEAN, w_events' \in 0 .. Events,
             w_rows' \in RowsType, w_call' \in CallsType
      PROVE  Addressed'
  BY <1>0, <1>a DEF Addressed, Partners!TypeOK, Partners!OwnLinesOnly, RowsType, CallsType
<1>b. w_rows \in RowsType /\ w_call \in CallsType
  BY <1>0 DEF Partners!TypeOK, RowsType, CallsType
<1>1. CASE Partners!Emit
  <2>1. Partners!Begin("event") /\ UNCHANGED <<w_setup, w_hook, w_secret, w_rows, w_young, w_got>>
    BY <1>1 DEF Partners!Emit
  <2>2. w_call' \in CallsType
    BY <1>0, <2>1, CallsTyped DEF Partners!Callers
  <2>3. w_order' \in {"pending", "processing", "over"} /\ w_events' \in 0 .. Events
    BY <1>0, <1>1, AfterSaleAssumption DEF Partners!Emit, Partners!TypeOK
  <2> QED
    BY <1>0, <1>a, <1>b, <2>1, <2>2, <2>3 DEF Partners!TypeOK
<1>2. CASE Partners!Redeliver
  <2>1. /\ Partners!Begin("hourly")
        /\ UNCHANGED <<w_setup, w_order, w_hook, w_secret, w_rows, w_young, w_events, w_got>>
    BY <1>2 DEF Partners!Redeliver
  <2>2. w_call' \in CallsType
    BY <1>0, <2>1, CallsTyped DEF Partners!Callers
  <2> QED
    BY <1>0, <1>a, <1>b, <2>1, <2>2 DEF Partners!TypeOK
<1>3. ASSUME NEW c \in Partners!Callers, Partners!Open(c) PROVE Addressed'
  <2>1. UNCHANGED <<w_setup, w_order, w_secret, w_young, w_events, w_got>>
    BY <1>3 DEF Partners!Open
  <2>2. w_call' \in CallsType
    <3>1. Partners!Done(c) \/ w_call' = [w_call EXCEPT ![c].pc = "post"]
      BY <1>3 DEF Partners!Open
    <3> QED
      BY <1>0, <3>1, CallsTyped
  <2>3. w_hook' \in {"active", "paused"}
    BY <1>0, <1>3 DEF Partners!Open, Partners!TypeOK
  <2>4. w_rows' \in RowsType
    <3>1. \/ w_rows' = w_rows
          \/ \E fails \in 0 .. Partners!PauseAfter : Partners!Row("soft", fails)
      BY <1>0, <1>3 DEF Partners!Open, Partners!TypeOK, Partners!PauseAfter
    <3> QED
      BY <1>0, <1>b, <3>1, RowTyped
  <2> QED
    BY <1>0, <1>a, <2>1, <2>2, <2>3, <2>4 DEF Partners!TypeOK
<1>4. ASSUME NEW c \in Partners!Callers, Partners!Post(c) PROVE Addressed'
  <2>1. UNCHANGED <<w_setup, w_order, w_hook, w_secret, w_young, w_events>>
    BY <1>4 DEF Partners!Post
  <2>2. w_call' \in CallsType
    <3>1. Partners!Done(c) \/ Partners!Next2(c)
      BY <1>4 DEF Partners!Post
    <3> QED
      BY <1>0, <3>1, CallsTyped
  <2>3. w_rows' \in RowsType
    <3>1. \E kind \in {"genuine", "hard", "soft"} : Partners!Row(kind, 0)
      BY <1>4 DEF Partners!Post, Partners!Judged, Partners!Transient
    <3>2. 0 \in 0 .. Partners!PauseAfter
      BY DEF Partners!PauseAfter
    <3> QED
      BY <1>0, <3>1, <3>2, RowTyped
  <2>4. w_got' = w_got \/ w_got' = w_got \cup Partners!Scoped
    BY <1>4 DEF Partners!Post
  <2>5. /\ w_got' \subseteq Vendors \cup {NoVendor}
        /\ w_setup.topic = "order" =>
             /\ w_got' \subseteq w_setup.lines
             /\ w_setup.cred # NoVendor => w_got' \subseteq {w_setup.cred}
    BY <1>0, <2>4, ScopedOwn DEF Partners!TypeOK, Partners!OwnLinesOnly
  <2>6. Partners!TypeOK'
    BY <1>0, <2>1, <2>2, <2>3, <2>5 DEF Partners!TypeOK, RowsType, CallsType
  <2>7. Partners!OwnLinesOnly'
    BY <2>1, <2>5 DEF Partners!OwnLinesOnly
  <2> QED
    BY <2>6, <2>7 DEF Addressed
<1>5. CASE Partners!Cool
  <2>1. UNCHANGED <<w_setup, w_order, w_hook, w_secret, w_young, w_call, w_events, w_got>>
    BY <1>5 DEF Partners!Cool
  <2>2. w_rows' \in RowsType
    BY <1>b, <1>5 DEF Partners!Cool, RowsType
  <2> QED
    BY <1>0, <1>a, <1>b, <2>1, <2>2 DEF Partners!TypeOK
<1>6. CASE Partners!GrowOld \/ Partners!KeyDrift
  BY <1>0, <1>a, <1>b, <1>6 DEF Partners!GrowOld, Partners!KeyDrift, Partners!TypeOK
<1>7. CASE Partners!Crash
  <2>1. w_call' \in CallsType
    BY <1>7 DEF Partners!Crash, Partners!Idle, CallsType
  <2> QED
    BY <1>0, <1>a, <1>b, <1>7, <2>1 DEF Partners!Crash, Partners!TypeOK
<1>8. CASE UNCHANGED wvars
  BY <1>0, <1>a, <1>b, <1>8 DEF wvars, Partners!TypeOK
<1> QED
  BY <1>1, <1>2, <1>3, <1>4, <1>5, <1>6, <1>7, <1>8 DEF Partners!Next

-----------------------------------------------------------------------------
(* The three together                                                      *)

LEMMA PartsInvariant == AfterSaleSpec => [](Rests /\ Kept /\ Addressed)
<1>1. AfterSaleInit => Rests /\ Kept /\ Addressed
  BY RestsInit, KeptInit, AddressedInit DEF AfterSaleInit
<1>2. Rests /\ Kept /\ Addressed /\ [AfterSaleNext]_all => (Rests /\ Kept /\ Addressed)'
  <2> SUFFICES ASSUME Rests /\ Kept /\ Addressed, [AfterSaleNext]_all
               PROVE  Rests' /\ Kept' /\ Addressed'
    OBVIOUS
  <2>1. [Next]_vars /\ [Parcelling!Next]_svars /\ [Partners!Next]_wvars
    BY DEF AfterSaleNext, VendorsMove, ParcelsMove, PartnersMove, all, svars, wvars
  <2> QED
    BY <2>1, RestsStep, KeptStep, AddressedStep
<1> QED
  BY <1>1, <1>2, PTL DEF AfterSaleSpec

\* To the routing alone, the other two parts are stutters, so that what is proved of
\* Fulfillment holds of an order after its payment.
THEOREM RoutingIsAPart == AfterSaleSpec => Spec
<1>1. AfterSaleInit => Init
  BY DEF AfterSaleInit
<1>2. [AfterSaleNext]_all => [Next]_vars
  BY DEF AfterSaleNext, VendorsMove, ParcelsMove, PartnersMove, all
<1> QED
  BY <1>1, <1>2, PTL DEF AfterSaleSpec, Spec

\* Every part keeps its types; what was delivered had a carrier and a number, whichever
\* requests write over each other; and no party is given two parcels of an order, unless
\* two requests split it at the same time.
THEOREM ParcelsAreKept == AfterSaleSpec => []ParcelsKept
<1>1. Rests /\ Kept /\ Addressed => ParcelsKept
  BY DEF Rests, Kept, Tracked, Parted, Addressed, ParcelsKept, TypesOK,
         Parcelling!DeliveredIsTracked, Parcelling!OneParcelEach
<1> QED
  BY <1>1, PartsInvariant, PTL

\* A partner is sent its own lines and nobody else's, whatever is lost or sent again.
THEOREM PartnersSeeTheirOwn == AfterSaleSpec => []OwnLinesOnly
<1>1. Rests /\ Kept /\ Addressed => OwnLinesOnly
  BY DEF Addressed, OwnLinesOnly
<1> QED
  BY <1>1, PartsInvariant, PTL

=============================================================================
