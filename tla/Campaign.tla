------------------------------ MODULE Campaign ------------------------------
(***************************************************************************)
(* src/src/services/campaignSend.service.ts with the consent half of       *)
(* src/src/services/marketing.service.ts: how one campaign goes out.       *)
(* schedule() freezes the audience as one row per address; run() drains    *)
(* the queued rows in batches; cancel() drops, pauses or resumes.          *)
(*                                                                         *)
(* The marketing worker runs one job at a time, but a job it seems to have *)
(* lost (a stall, a deployment) is run again while the first goes on:      *)
(* Runs holds the runs that may overlap.  Operators act one at a time.     *)
(***************************************************************************)
EXTENDS Integers, FiniteSets

CONSTANTS
  People, Nobody,   \* the addresses, and none of them
  Runs              \* calls of run() that may overlap

ASSUME NobodyIsNoAddress == Nobody \notin People

VARIABLES
  carrier,   \* "smtp", which says when it failed with the message in hand; "api", another
             \* way to send mail; or "text"
  status,    \* campaign.status
  row,       \* campaignSend.status of each address; "none" when there is no row
  consent,   \* is the address subscribed?  (Who opted out and who was deleted is not.)
  run,       \* each run: [pc, batch, willing, gone, who, attempt, good]
  op,        \* the operator's call: [pc, seen]
  copies,    \* history: messages each address received
  alone      \* history: no run of a text overlapped another or died

vars == <<carrier, status, row, consent, run, op, copies, alone>>

Mail == carrier # "text"
Idle == [pc |-> "idle", batch |-> {}, willing |-> {}, gone |-> {}, who |-> Nobody,
         attempt |-> 1, good |-> FALSE]
Rest == [pc |-> "idle", seen |-> "draft"]

Statuses == {"draft", "scheduled", "sending", "paused", "sent"}
Copies == 2      \* copies are counted up to it

RunType ==
  [pc : {"idle", "mark", "look", "each", "post", "record", "finish"},
   batch : SUBSET People, willing : SUBSET People, gone : SUBSET People,
   who : People \cup {Nobody}, attempt : 1 .. 2, good : BOOLEAN]

TypeOK ==
  /\ carrier \in {"smtp", "api", "text"}
  /\ status \in Statuses
  /\ row \in [People -> {"none", "queued", "claimed", "sent", "failed", "skipped"}]
  /\ consent \in [People -> BOOLEAN]
  /\ run \in [Runs -> RunType]
  /\ op \in [pc : {"idle", "freeze", "plan", "drop", "draft", "set"}, seen : Statuses]
  /\ copies \in [People -> 0 .. Copies]
  /\ alone \in BOOLEAN

Init ==
  /\ carrier \in {"smtp", "api", "text"}
  /\ status = "draft"
  /\ row = [p \in People |-> "none"]
  /\ consent = [p \in People |-> TRUE]
  /\ run = [r \in Runs |-> Idle] /\ op = Rest
  /\ copies = [p \in People |-> 0] /\ alone = TRUE

Queued == {p \in People : row[p] = "queued"}
Goto(r, pc) == run' = [run EXCEPT ![r].pc = pc]
Stop(r) == run' = [run EXCEPT ![r] = Idle]
Write(p, s) == row' = [row EXCEPT ![p] = s]

-----------------------------------------------------------------------------
(* schedule() and cancel()                                                 *)

\* Either call reads the status first and decides on it.
Ask ==
  /\ op.pc = "idle"
  /\ \/ status \in {"draft", "scheduled", "paused"} /\ op' = [pc |-> "freeze", seen |-> status]
     \/ status = "scheduled" /\ op' = [pc |-> "drop", seen |-> status]
     \/ status \in {"sending", "paused"} /\ op' = [pc |-> "set", seen |-> status]
  /\ UNCHANGED <<carrier, status, row, consent, run, copies, alone>>

\* Mutant: the rows of everyone are made anew.
FreezeAll ==
  /\ op.pc = "freeze" /\ op' = [op EXCEPT !.pc = "plan"]
  /\ row' = [p \in People |-> IF consent[p] THEN "queued" ELSE row[p]]
  /\ UNCHANGED <<carrier, status, consent, run, copies, alone>>

\* createMany: an address that has a row of this campaign keeps it.
Freeze ==
  /\ op.pc = "freeze" /\ op' = [op EXCEPT !.pc = "plan"]
  /\ row' = [p \in People |-> IF row[p] = "none" /\ consent[p] THEN "queued" ELSE row[p]]
  /\ UNCHANGED <<carrier, status, consent, run, copies, alone>>

Plan ==
  /\ op.pc = "plan" /\ op' = Rest /\ status' = "scheduled"
  /\ UNCHANGED <<carrier, row, consent, run, copies, alone>>

\* A scheduled campaign goes back to draft: its queued rows go, and then its status.
\* A run may have read them: a row of that address made later has another id.
Drop ==
  /\ op.pc = "drop" /\ op' = [op EXCEPT !.pc = "draft"]
  /\ row' = [p \in People |-> IF row[p] = "queued" THEN "none" ELSE row[p]]
  /\ run' = [r \in Runs |-> [run[r] EXCEPT !.gone = @ \cup (Queued \cap (run[r].batch \cup {run[r].who}))]]
  /\ UNCHANGED <<carrier, status, consent, copies, alone>>

Draft ==
  /\ op.pc = "draft" /\ op' = Rest /\ status' = "draft"
  /\ UNCHANGED <<carrier, row, consent, run, copies, alone>>

\* Mutant: a campaign that goes on gets the status of a row.
SetQueued ==
  /\ op.pc = "set" /\ op' = Rest
  /\ status' = IF op.seen = "sending" THEN "paused" ELSE "queued"
  /\ UNCHANGED <<carrier, row, consent, run, copies, alone>>

\* One that is going out is paused, and one that is paused goes on.
Set ==
  /\ op.pc = "set" /\ op' = Rest
  /\ status' = IF op.seen = "sending" THEN "paused" ELSE "scheduled"
  /\ UNCHANGED <<carrier, row, consent, run, copies, alone>>

-----------------------------------------------------------------------------
(* run()                                                                   *)

Overlaps(r) == \E s \in Runs \ {r} : run[s].pc # "idle"

Start(r) ==
  /\ run[r].pc = "idle" /\ status \in {"scheduled", "sending"}
  /\ Goto(r, "mark")
  /\ alone' = (alone /\ (Mail \/ ~Overlaps(r)))
  /\ UNCHANGED <<carrier, status, row, consent, op, copies>>

Mark(r) ==
  /\ run[r].pc = "mark" /\ Goto(r, "look") /\ status' = "sending"
  /\ UNCHANGED <<carrier, row, consent, op, copies, alone>>

\* The status is read again, then the next batch with the consent of its people,
\* which is not read again before their turn comes.
Look(r) ==
  /\ run[r].pc = "look"
  /\ \/ status # "sending" /\ Stop(r)
     \/ status = "sending" /\ Queued = {} /\ Goto(r, "finish")
     \/ /\ status = "sending" /\ Queued # {}
        /\ run' = [run EXCEPT ![r].pc = "each", ![r].batch = Queued,
                     ![r].willing = {p \in Queued : consent[p]}, ![r].gone = {}]
  /\ UNCHANGED <<carrier, status, row, consent, op, copies, alone>>

Drops(r, p) == [run EXCEPT ![r].batch = @ \ {p}]

\* Nobody is mailed who had opted out, or who has had enough this week.  The row is
\* updated by its id, and the run dies if an operator has deleted it.
Skip(r, p) ==
  /\ run[r].pc = "each" /\ p \in run[r].batch
  /\ IF p \in run[r].gone
     THEN Stop(r) /\ UNCHANGED row /\ alone' = Mail
     ELSE run' = Drops(r, p) /\ Write(p, "skipped") /\ UNCHANGED alone
  /\ UNCHANGED <<carrier, status, consent, op, copies>>

Takes(r, p) == [run EXCEPT ![r].batch = @ \ {p}, ![r].pc = "post", ![r].who = p, ![r].attempt = 1]

\* Mutant: the claim does not look at the row.
ClaimAny(r, p) ==
  /\ run[r].pc = "each" /\ p \in run[r].batch \cap run[r].willing
  /\ IF Mail /\ p \notin run[r].gone
     THEN run' = Takes(r, p) /\ Write(p, "claimed")
     ELSE run' = (IF Mail THEN Drops(r, p) ELSE Takes(r, p)) /\ UNCHANGED row
  /\ UNCHANGED <<carrier, status, consent, op, copies, alone>>

\* A mail is claimed, from queued only, before it is handed over; a text is not.
Claim(r, p) ==
  /\ run[r].pc = "each" /\ p \in run[r].batch \cap run[r].willing
  /\ IF Mail /\ row[p] = "queued" /\ p \notin run[r].gone
     THEN run' = Takes(r, p) /\ Write(p, "claimed")
     ELSE run' = (IF Mail THEN Drops(r, p) ELSE Takes(r, p)) /\ UNCHANGED row
  /\ UNCHANGED <<carrier, status, consent, op, copies, alone>>

Deliver(p) == copies' = [copies EXCEPT ![p] = IF @ < Copies THEN @ + 1 ELSE @]
Records(r, good) == run' = [run EXCEPT ![r].pc = "record", ![r].good = good]

\* Mutant: whatever went wrong, it is tried again.
RetryableAlways(r) == Mail /\ run[r].attempt = 1

\* An error after DATA, when the server has the message, is not tried again.  An API
\* has no DATA: its lost answer is an error like any other.
Retryable(r) == carrier = "api" /\ run[r].attempt = 1

\* The message is handed to the transport: it is accepted; it is refused; or the
\* transport has it and the answer is an error.
Post(r) ==
  /\ run[r].pc = "post"
  /\ \/ Deliver(run[r].who) /\ Records(r, TRUE)
     \/ /\ UNCHANGED copies
        /\ IF Mail /\ run[r].attempt = 1
           THEN run' = [run EXCEPT ![r].attempt = 2] ELSE Records(r, FALSE)
     \/ /\ Deliver(run[r].who)
        /\ IF Retryable(r) THEN run' = [run EXCEPT ![r].attempt = 2] ELSE Records(r, FALSE)
  /\ UNCHANGED <<carrier, status, row, consent, op, alone>>

Record(r) ==
  /\ run[r].pc = "record"
  /\ IF run[r].who \in run[r].gone
     THEN Stop(r) /\ UNCHANGED row /\ alone' = Mail
     ELSE /\ run' = [run EXCEPT ![r].pc = "each", ![r].who = Nobody]
          /\ Write(run[r].who, IF run[r].good THEN "sent" ELSE "failed")
          /\ UNCHANGED alone
  /\ UNCHANGED <<carrier, status, consent, op, copies>>

NextBatch(r) ==
  /\ run[r].pc = "each" /\ run[r].batch = {}
  /\ Goto(r, "look")
  /\ UNCHANGED <<carrier, status, row, consent, op, copies, alone>>

\* The status is overwritten, whatever an operator has made it meanwhile.
Finish(r) ==
  /\ run[r].pc = "finish" /\ Stop(r) /\ status' = "sent"
  /\ UNCHANGED <<carrier, row, consent, op, copies, alone>>

\* The worker dies.  What it claimed stays claimed, what it texted stays queued.
Crash(r) ==
  /\ run[r].pc # "idle" /\ Stop(r) /\ alone' = Mail
  /\ UNCHANGED <<carrier, status, row, consent, op, copies>>

-----------------------------------------------------------------------------
(* subscribe(), unsubscribe() and deleteSubscriber()                       *)

\* Somebody opts out, comes back, or is deleted and signs up anew.
Change(p) ==
  /\ consent' = [consent EXCEPT ![p] = ~@]
  /\ UNCHANGED <<carrier, status, row, run, op, copies, alone>>

Step(r) ==
  \/ Start(r) \/ Mark(r) \/ Look(r) \/ Post(r) \/ Record(r) \/ NextBatch(r) \/ Finish(r) \/ Crash(r)
  \/ \E p \in People : Skip(r, p) \/ Claim(r, p)

Next ==
  \/ Ask \/ Freeze \/ Plan \/ Drop \/ Draft \/ Set
  \/ \E r \in Runs : Step(r)
  \/ \E p \in People : Change(p)

Spec == Init /\ [][Next]_vars

-----------------------------------------------------------------------------
(* Properties                                                              *)

\* The same message never goes twice to one address.  A mail over SMTP does not
\* whatever runs overlap, die or are scheduled again ("the row status is the lock",
\* campaignSend.service.ts:152); a text, which is not claimed, and a mail over an
\* API, whose lost answer is retried, do not only under conditions the code does not
\* establish (a text: while runs do not overlap or die) and are left out here.
OneCopyEach ==
  \A p \in People : (carrier = "smtp") \/ (carrier = "text" /\ alone) => copies[p] <= 1

=============================================================================
