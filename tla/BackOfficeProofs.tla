-------------------------- MODULE BackOfficeProofs --------------------------
(***************************************************************************)
(* Theorems about the shop's own side.  Of Campaign, for any addresses and *)
(* any number of runs that overlap, die and are started again while an     *)
(* operator pauses, cancels and schedules the campaign; of                 *)
(* CustomerAccounts, for any addresses, accounts and requests; of Cache,   *)
(* for any readers, any writers and any number of writes; and of the four  *)
(* parts of BackOffice together.                                           *)
(***************************************************************************)
EXTENDS BackOffice, TLAPS

-----------------------------------------------------------------------------
(* Campaign: the invariant                                                 *)

Fresh == {"none", "queued"}
Handling(r) == run[r].pc \in {"post", "record"}

\* A run at work on an address knows which.
WhoIsThere == \A r \in Runs : Handling(r) => run[r].who \in People

\* A mail: who has a copy has a row past "queued", and the run that is about to hand
\* one over has claimed it for itself.
MailSafe ==
  carrier = "smtp" =>
    /\ \A p \in People : row[p] \in Fresh => copies[p] = 0
    /\ \A r \in Runs : run[r].pc = "post" => row[run[r].who] \notin Fresh /\ copies[run[r].who] = 0
    /\ \A r, s \in Runs : (r # s /\ run[r].pc = "post" /\ run[s].pc = "post") => run[r].who # run[s].who

\* A text, while its runs keep to themselves: only the message being recorded has been
\* sent while its row is still queued.
TextSafe ==
  (carrier = "text" /\ alone) =>
    /\ \A r, s \in Runs : (run[r].pc # "idle" /\ run[s].pc # "idle") => r = s
    /\ \A r \in Runs : (run[r].pc = "each" \/ Handling(r)) => \A p \in run[r].batch : row[p] \in Fresh
    /\ \A r \in Runs : Handling(r) => run[r].who \notin run[r].batch /\ row[run[r].who] \in Fresh
    /\ \A p \in People : (row[p] \in Fresh /\ copies[p] # 0) =>
         \E r \in Runs : run[r].pc = "record" /\ run[r].who = p

Inv == TypeOK /\ WhoIsThere /\ MailSafe /\ TextSafe /\ OneCopyEach

LEMMA InitInv == Init => Inv
  BY DEF Init, Inv, TypeOK, WhoIsThere, MailSafe, TextSafe, OneCopyEach, RunType, Idle, Rest,
         Handling, Fresh, Statuses, Copies

-----------------------------------------------------------------------------
(* Updates of one run, one row and one count                               *)

\* What the updates of one run leave to the others.
LEMMA RunUpdate ==
  ASSUME run \in [Runs -> RunType], NEW r \in Runs, NEW v \in RunType,
         run' = [run EXCEPT ![r] = v]
  PROVE  run' \in [Runs -> RunType] /\ run'[r] = v /\ \A s \in Runs : s # r => run'[s] = run[s]
  OBVIOUS

LEMMA GotoUpdate ==
  ASSUME run \in [Runs -> RunType], NEW r \in Runs,
         NEW pc \in {"idle", "mark", "look", "each", "finish"}, Goto(r, pc)
  PROVE  /\ run' \in [Runs -> RunType]
         /\ run'[r].pc = pc /\ run'[r].batch = run[r].batch
         /\ \A s \in Runs : s # r => run'[s] = run[s]
  BY DEF Goto, RunType

LEMMA StopUpdate ==
  ASSUME run \in [Runs -> RunType], NEW r \in Runs, Stop(r)
  PROVE  /\ run' \in [Runs -> RunType]
         /\ run'[r] = Idle /\ \A s \in Runs : s # r => run'[s] = run[s]
  BY DEF Stop, RunType, Idle

LEMMA WriteUpdate ==
  ASSUME TypeOK, NEW p \in People, NEW x \in {"none", "queued", "claimed", "sent", "failed", "skipped"},
         Write(p, x)
  PROVE  /\ row' \in [People -> {"none", "queued", "claimed", "sent", "failed", "skipped"}]
         /\ row'[p] = x /\ \A q \in People : q # p => row'[q] = row[q]
  BY DEF Write, TypeOK

LEMMA DeliverUpdate ==
  ASSUME TypeOK, NEW p \in People, Deliver(p)
  PROVE  /\ copies' \in [People -> 0 .. Copies]
         /\ copies[p] = 0 => copies'[p] = 1
         /\ \A q \in People : q # p => copies'[q] = copies[q]
  BY DEF Deliver, TypeOK, Copies

-----------------------------------------------------------------------------
(* The operator and the subscribers                                        *)

LEMMA AskInv == Inv /\ Ask => Inv'
  BY DEF Inv, Ask, TypeOK, WhoIsThere, MailSafe, TextSafe, OneCopyEach, Handling, Statuses

LEMMA FreezeInv == Inv /\ Freeze => Inv'
<1> SUFFICES ASSUME Inv, Freeze PROVE Inv'
  OBVIOUS
<1>1. TypeOK' /\ WhoIsThere' /\ OneCopyEach'
  BY DEF Inv, Freeze, TypeOK, WhoIsThere, OneCopyEach, Handling
<1>2. \A p \in People : row'[p] \in Fresh <=> row[p] \in Fresh
  BY DEF Freeze, Fresh, Inv, TypeOK
<1>3. MailSafe' /\ TextSafe'
  BY <1>2 DEF Inv, Freeze, TypeOK, WhoIsThere, MailSafe, TextSafe, Handling, RunType
<1> QED
  BY <1>1, <1>3 DEF Inv

LEMMA PlanInv == Inv /\ Plan => Inv'
  BY DEF Inv, Plan, TypeOK, WhoIsThere, MailSafe, TextSafe, OneCopyEach, Handling, Statuses, Rest

LEMMA DropInv == Inv /\ Drop => Inv'
<1> SUFFICES ASSUME Inv, Drop PROVE Inv'
  OBVIOUS
<1>1. \A r \in Runs : /\ run'[r] \in RunType
                      /\ run'[r].pc = run[r].pc /\ run'[r].who = run[r].who
                      /\ run'[r].batch = run[r].batch
  BY DEF Drop, Inv, TypeOK, RunType, Queued
<1>2. TypeOK' /\ WhoIsThere' /\ OneCopyEach'
  BY <1>1 DEF Inv, Drop, TypeOK, WhoIsThere, OneCopyEach, Handling
<1>3. \A p \in People : row'[p] \in Fresh <=> row[p] \in Fresh
  BY DEF Drop, Fresh, Inv, TypeOK
<1>4. /\ UNCHANGED <<carrier, copies, alone>>
      /\ \A r \in Runs : run[r].batch \subseteq People
  BY DEF Drop, Inv, TypeOK, RunType
<1>5. MailSafe'
  BY <1>1, <1>3, <1>4 DEF Inv, WhoIsThere, MailSafe, Handling
<1>6. TextSafe'
  BY <1>1, <1>3, <1>4 DEF Inv, WhoIsThere, TextSafe, Handling
<1> QED
  BY <1>2, <1>5, <1>6 DEF Inv

LEMMA DraftInv == Inv /\ Draft => Inv'
  BY DEF Inv, Draft, TypeOK, WhoIsThere, MailSafe, TextSafe, OneCopyEach, Handling, Statuses, Rest

LEMMA SetInv == Inv /\ Set => Inv'
  BY DEF Inv, Set, TypeOK, WhoIsThere, MailSafe, TextSafe, OneCopyEach, Handling, Statuses, Rest

LEMMA ChangeInv ==
  ASSUME Inv, NEW p \in People, Change(p)
  PROVE  Inv'
  BY DEF Inv, Change, TypeOK, WhoIsThere, MailSafe, TextSafe, OneCopyEach, Handling

-----------------------------------------------------------------------------
(* A run                                                                   *)

LEMMA StartInv ==
  ASSUME Inv, NEW r \in Runs, Start(r)
  PROVE  Inv'
<1>1. /\ run' \in [Runs -> RunType]
      /\ run'[r].pc = "mark" /\ run'[r].batch = run[r].batch
      /\ \A s \in Runs : s # r => run'[s] = run[s]
  BY GotoUpdate DEF Inv, TypeOK, Start
<1>2. TypeOK' /\ WhoIsThere' /\ OneCopyEach' /\ MailSafe'
  BY <1>1 DEF Inv, Start, TypeOK, WhoIsThere, OneCopyEach, MailSafe, Handling
<1>3. ASSUME (carrier = "text")', alone'
      PROVE  alone /\ carrier = "text" /\ \A s \in Runs \ {r} : run[s].pc = "idle"
  BY <1>3 DEF Start, Mail, Overlaps
<1>4. TextSafe'
  BY <1>1, <1>3 DEF Inv, Start, TextSafe, Handling
<1> QED
  BY <1>2, <1>4 DEF Inv

LEMMA MarkInv ==
  ASSUME Inv, NEW r \in Runs, Mark(r)
  PROVE  Inv'
<1>1. /\ run' \in [Runs -> RunType]
      /\ run'[r].pc = "look" /\ run'[r].batch = run[r].batch
      /\ \A s \in Runs : s # r => run'[s] = run[s]
  BY GotoUpdate DEF Inv, TypeOK, Mark
<1> QED
  BY <1>1 DEF Inv, Mark, TypeOK, WhoIsThere, MailSafe, TextSafe, OneCopyEach, Handling, Statuses

LEMMA NextBatchInv ==
  ASSUME Inv, NEW r \in Runs, NextBatch(r)
  PROVE  Inv'
<1>1. /\ run' \in [Runs -> RunType]
      /\ run'[r].pc = "look" /\ run'[r].batch = run[r].batch
      /\ \A s \in Runs : s # r => run'[s] = run[s]
  BY GotoUpdate DEF Inv, TypeOK, NextBatch
<1> QED
  BY <1>1 DEF Inv, NextBatch, TypeOK, WhoIsThere, MailSafe, TextSafe, OneCopyEach, Handling, Statuses

LEMMA LookInv ==
  ASSUME Inv, NEW r \in Runs, Look(r)
  PROVE  Inv'
<1> DEFINE v == [run[r] EXCEPT !.pc = "each", !.batch = Queued,
                   !.willing = {p \in Queued : consent[p]}, !.gone = {}]
<1>1. /\ run' \in [Runs -> RunType]
      /\ run'[r].pc \in {"idle", "finish", "each"}
      /\ run'[r].pc = "each" => run'[r].batch = Queued
      /\ \A s \in Runs : s # r => run'[s] = run[s]
  <2>1. CASE Stop(r)
    BY <2>1, StopUpdate DEF Inv, TypeOK, Idle
  <2>2. CASE Goto(r, "finish")
    BY <2>2, GotoUpdate DEF Inv, TypeOK
  <2>3. CASE run' = [run EXCEPT ![r].pc = "each", ![r].batch = Queued,
                       ![r].willing = {p \in Queued : consent[p]}, ![r].gone = {}]
    <3>1. run' = [run EXCEPT ![r] = v]
      BY <2>3
    <3>2. v \in RunType /\ v.pc = "each" /\ v.batch = Queued
      BY DEF Inv, TypeOK, RunType, Queued
    <3> QED
      BY <3>1, <3>2 DEF Inv, TypeOK
  <2> QED
    BY <2>1, <2>2, <2>3 DEF Look
<1>2. run'[r].pc = "each" => \A p \in run'[r].batch : row[p] \in Fresh
  BY <1>1 DEF Queued, Fresh
<1>3. UNCHANGED <<carrier, status, row, consent, op, copies, alone>>
  BY DEF Look
<1>4. TypeOK' /\ WhoIsThere' /\ OneCopyEach' /\ MailSafe'
  BY <1>1, <1>3 DEF Inv, TypeOK, WhoIsThere, OneCopyEach, MailSafe, Handling
<1>5. run[r].pc = "look"
  BY DEF Look
<1>6. TextSafe'
  BY <1>1, <1>2, <1>3, <1>5 DEF Inv, TextSafe, Handling
<1> QED
  BY <1>4, <1>6 DEF Inv

LEMMA FinishInv ==
  ASSUME Inv, NEW r \in Runs, Finish(r)
  PROVE  Inv'
<1>1. /\ run' \in [Runs -> RunType]
      /\ run'[r] = Idle
      /\ \A s \in Runs : s # r => run'[s] = run[s]
  BY StopUpdate DEF Inv, TypeOK, Finish
<1> QED
  BY <1>1 DEF Inv, Finish, TypeOK, WhoIsThere, MailSafe, TextSafe, OneCopyEach, Handling, Idle, Statuses

LEMMA CrashInv ==
  ASSUME Inv, NEW r \in Runs, Crash(r)
  PROVE  Inv'
<1>1. /\ run' \in [Runs -> RunType]
      /\ run'[r] = Idle
      /\ \A s \in Runs : s # r => run'[s] = run[s]
  BY StopUpdate DEF Inv, TypeOK, Crash
<1>2. TypeOK' /\ WhoIsThere' /\ OneCopyEach'
  BY <1>1 DEF Inv, Crash, Mail, TypeOK, WhoIsThere, OneCopyEach, Handling, Idle
<1>3. UNCHANGED <<carrier, row, copies>> /\ (alone' => carrier # "text")
  BY DEF Crash, Mail
<1>4. MailSafe'
  BY <1>1, <1>3 DEF Inv, MailSafe, Idle
<1>5. TextSafe'
  BY <1>3 DEF TextSafe
<1> QED
  BY <1>2, <1>4, <1>5 DEF Inv

LEMMA SkipInv ==
  ASSUME Inv, NEW r \in Runs, NEW p \in People, Skip(r, p)
  PROVE  Inv'
<1>1. CASE p \in run[r].gone
  <2>1. /\ run' \in [Runs -> RunType]
        /\ run'[r] = Idle
        /\ \A s \in Runs : s # r => run'[s] = run[s]
    BY <1>1, StopUpdate DEF Inv, TypeOK, Skip
  <2> QED
    BY <1>1, <2>1 DEF Inv, Skip, Mail, TypeOK, WhoIsThere, MailSafe, TextSafe, OneCopyEach, Handling, Idle
<1>2. CASE p \notin run[r].gone
  <2> DEFINE v == [run[r] EXCEPT !.batch = @ \ {p}]
  <2>1. /\ v \in RunType
        /\ v.pc = "each" /\ v.batch = run[r].batch \ {p}
        /\ run' = [run EXCEPT ![r] = v]
    BY <1>2 DEF Inv, TypeOK, Skip, Drops, RunType
  <2>2. /\ run' \in [Runs -> RunType] /\ run'[r] = v
        /\ \A s \in Runs : s # r => run'[s] = run[s]
    BY <2>1, RunUpdate DEF Inv, TypeOK
  <2>3. /\ row' \in [People -> {"none", "queued", "claimed", "sent", "failed", "skipped"}]
        /\ row'[p] = "skipped" /\ \A q \in People : q # p => row'[q] = row[q]
    BY <1>2, WriteUpdate DEF Inv, Skip
  <2>4. /\ UNCHANGED <<carrier, status, consent, op, copies, alone>>
        /\ p \in run[r].batch /\ run[r].pc = "each"
    BY <1>2 DEF Skip
  <2> HIDE DEF v
  <2>5. TypeOK' /\ WhoIsThere' /\ OneCopyEach'
    BY <2>1, <2>2, <2>3, <2>4 DEF Inv, TypeOK, WhoIsThere, OneCopyEach, Handling
  <2>6. MailSafe'
    BY <2>1, <2>2, <2>3, <2>4 DEF Inv, WhoIsThere, MailSafe, Handling, Fresh
  <2>7. TextSafe'
    <3>1. \A q \in run[r].batch : q \in People
      BY DEF Inv, TypeOK, RunType
    <3> SUFFICES ASSUME carrier = "text", alone
                 PROVE  TextSafe'
      BY <2>4 DEF TextSafe
    <3>2. \A s \in Runs : s # r => run[s].pc = "idle" /\ run'[s].pc = "idle"
      BY <2>2, <2>4 DEF Inv, TextSafe
    <3>3. \A s \in Runs, q \in People : ~(run[s].pc = "record" /\ run[s].who = q)
      BY <2>4, <3>2
    <3>4. \A q \in People : row'[q] \in Fresh => row[q] \in Fresh
      BY <2>3 DEF Fresh
    <3>5. \A q \in run'[r].batch : row'[q] \in Fresh
      BY <2>1, <2>2, <2>3, <2>4, <3>1 DEF Inv, TextSafe
    <3>6. \A s \in Runs : ~Handling(s)'
      BY <2>1, <2>2, <3>2 DEF Handling
    <3> QED
      BY <2>1, <2>2, <2>4, <3>2, <3>3, <3>4, <3>5, <3>6 DEF Inv, TextSafe
  <2> QED
    BY <2>5, <2>6, <2>7 DEF Inv
<1> QED
  BY <1>1, <1>2

LEMMA ClaimInv ==
  ASSUME Inv, NEW r \in Runs, NEW p \in People, Claim(r, p)
  PROVE  Inv'
<1> DEFINE takes == [run[r] EXCEPT !.batch = @ \ {p}, !.pc = "post", !.who = p, !.attempt = 1]
           drops == [run[r] EXCEPT !.batch = @ \ {p}]
<1>0. /\ UNCHANGED <<carrier, status, consent, op, copies, alone>>
      /\ p \in run[r].batch /\ run[r].pc = "each"
  BY DEF Claim
<1>1. /\ takes \in RunType /\ takes.pc = "post" /\ takes.who = p /\ takes.batch = run[r].batch \ {p}
      /\ drops \in RunType /\ drops.pc = "each" /\ drops.batch = run[r].batch \ {p}
  <2>1. run[r] \in RunType
    BY DEF Inv, TypeOK
  <2>2. takes \in RunType /\ takes.pc = "post" /\ takes.who = p /\ takes.batch = run[r].batch \ {p}
    <3>1. run[r].batch \ {p} \in SUBSET People /\ p \in People \cup {Nobody} /\ 1 \in 1 .. 2
      BY <2>1 DEF RunType
    <3>2. [run[r] EXCEPT !.batch = @ \ {p}] \in RunType
      BY <2>1, <3>1 DEF RunType
    <3>3. [[run[r] EXCEPT !.batch = @ \ {p}] EXCEPT !.pc = "post", !.who = p, !.attempt = 1] \in RunType
      BY <3>1, <3>2 DEF RunType
    <3>4. takes = [[run[r] EXCEPT !.batch = @ \ {p}] EXCEPT !.pc = "post", !.who = p, !.attempt = 1]
      BY <2>1 DEF RunType
    <3> QED
      BY <2>1, <3>3, <3>4 DEF RunType
  <2>3. drops \in RunType /\ drops.pc = "each" /\ drops.batch = run[r].batch \ {p}
    BY <2>1, <1>0 DEF RunType
  <2> QED
    BY <2>2, <2>3
<1> HIDE DEF takes, drops
<1>2. CASE Mail /\ row[p] = "queued" /\ p \notin run[r].gone
  <2>1. run' = [run EXCEPT ![r] = takes]
    BY <1>2 DEF Claim, Takes, takes
  <2>2. /\ run' \in [Runs -> RunType] /\ run'[r] = takes
        /\ \A s \in Runs : s # r => run'[s] = run[s]
    BY <1>1, <2>1, RunUpdate DEF Inv, TypeOK
  <2>3. /\ row' \in [People -> {"none", "queued", "claimed", "sent", "failed", "skipped"}]
        /\ row'[p] = "claimed" /\ \A q \in People : q # p => row'[q] = row[q]
    BY <1>2, WriteUpdate DEF Inv, Claim
  <2>4. TypeOK' /\ WhoIsThere' /\ OneCopyEach'
    BY <1>0, <1>1, <2>2, <2>3 DEF Inv, TypeOK, WhoIsThere, OneCopyEach, Handling
  <2>5. ASSUME carrier = "smtp"
        PROVE  copies[p] = 0 /\ \A s \in Runs : run[s].pc = "post" => run[s].who # p
    BY <1>2, <2>5 DEF Inv, MailSafe, Fresh
  <2>6. MailSafe'
    BY <1>0, <1>1, <2>2, <2>3, <2>5 DEF Inv, WhoIsThere, MailSafe, Handling, Fresh
  <2>7. TextSafe'
    BY <1>0, <1>2 DEF Mail, TextSafe
  <2> QED
    BY <2>4, <2>6, <2>7 DEF Inv
<1>3. CASE Mail /\ ~(row[p] = "queued" /\ p \notin run[r].gone)
  <2>1. run' = [run EXCEPT ![r] = drops] /\ UNCHANGED row
    BY <1>3 DEF Claim, Drops, drops
  <2>2. /\ run' \in [Runs -> RunType] /\ run'[r] = drops
        /\ \A s \in Runs : s # r => run'[s] = run[s]
    BY <1>1, <2>1, RunUpdate DEF Inv, TypeOK
  <2>3. TypeOK' /\ WhoIsThere' /\ OneCopyEach' /\ MailSafe'
    BY <1>0, <1>1, <2>1, <2>2 DEF Inv, TypeOK, WhoIsThere, OneCopyEach, MailSafe, Handling
  <2>4. TextSafe'
    BY <1>0, <1>3 DEF Mail, TextSafe
  <2> QED
    BY <2>3, <2>4 DEF Inv
<1>4. CASE ~Mail
  <2>1. run' = [run EXCEPT ![r] = takes] /\ UNCHANGED row
    BY <1>4 DEF Claim, Takes, takes
  <2>2. /\ run' \in [Runs -> RunType] /\ run'[r] = takes
        /\ \A s \in Runs : s # r => run'[s] = run[s]
    BY <1>1, <2>1, RunUpdate DEF Inv, TypeOK
  <2>3. TypeOK' /\ WhoIsThere' /\ OneCopyEach'
    BY <1>0, <1>1, <2>1, <2>2 DEF Inv, TypeOK, WhoIsThere, OneCopyEach, Handling
  <2>4. MailSafe'
    BY <1>0, <1>4 DEF Mail, MailSafe
  <2>5. TextSafe'
    <3> SUFFICES ASSUME carrier = "text", alone
                 PROVE  TextSafe'
      BY <1>0 DEF TextSafe
    <3>1. \A s \in Runs : s # r => run[s].pc = "idle" /\ run'[s].pc = "idle"
      BY <1>0, <2>2 DEF Inv, TextSafe
    <3>2. row[p] \in Fresh /\ \A q \in run'[r].batch : row[q] \in Fresh
      BY <1>0, <1>1, <2>2 DEF Inv, TextSafe
    <3>3. \A s \in Runs, q \in People : ~(run[s].pc = "record" /\ run[s].who = q)
      BY <1>0, <3>1
    <3> QED
      BY <1>0, <1>1, <2>1, <2>2, <3>1, <3>2, <3>3 DEF Inv, TextSafe, Handling
  <2> QED
    BY <2>3, <2>4, <2>5 DEF Inv
<1> QED
  BY <1>2, <1>3, <1>4

\* About to hand a message over, a run knows the address has none yet.
LEMMA PostIsFirst ==
  ASSUME Inv, NEW r \in Runs, run[r].pc = "post",
         carrier = "smtp" \/ (carrier = "text" /\ alone)
  PROVE  run[r].who \in People /\ copies[run[r].who] = 0
<1>1. run[r].who \in People
  BY DEF Inv, WhoIsThere, Handling
<1>2. CASE carrier = "smtp"
  BY <1>1, <1>2 DEF Inv, MailSafe
<1>3. CASE carrier = "text" /\ alone
  <2>1. \A s \in Runs : run[s].pc # "record"
    BY <1>3 DEF Inv, TextSafe
  <2> QED
    BY <1>1, <1>3, <2>1 DEF Inv, TextSafe, Handling, TypeOK
<1> QED
  BY <1>1, <1>2, <1>3

LEMMA PostInv ==
  ASSUME Inv, NEW r \in Runs, Post(r)
  PROVE  Inv'
<1> DEFINE p == run[r].who
           again == [run[r] EXCEPT !.attempt = 2]
           done(g) == [run[r] EXCEPT !.pc = "record", !.good = g]
<1>0. /\ UNCHANGED <<carrier, status, row, consent, op, alone>>
      /\ run[r].pc = "post" /\ p \in People
  BY DEF Post, Inv, WhoIsThere, Handling
<1>1. CASE \E g \in BOOLEAN : Records(r, g) /\ (Deliver(p) \/ UNCHANGED copies)
  <2> PICK g \in BOOLEAN : Records(r, g) /\ (Deliver(p) \/ UNCHANGED copies)
    BY <1>1
  <2>1. /\ done(g) \in RunType /\ done(g).pc = "record"
        /\ done(g).who = p /\ done(g).batch = run[r].batch
        /\ run' = [run EXCEPT ![r] = done(g)]
    BY <1>0 DEF Inv, TypeOK, RunType, Records
  <2> HIDE DEF done
  <2>2. /\ run' \in [Runs -> RunType]
        /\ run'[r].pc = "record" /\ run'[r].who = p /\ run'[r].batch = run[r].batch
        /\ \A s \in Runs : s # r => run'[s] = run[s]
    BY <2>1, RunUpdate DEF Inv, TypeOK
  <2>3. /\ copies' \in [People -> 0 .. Copies]
        /\ copies[p] = 0 => copies'[p] <= 1
        /\ \A q \in People : q # p => copies'[q] = copies[q]
    BY <1>0, DeliverUpdate DEF Inv, TypeOK, Copies
  <2>4. TypeOK' /\ WhoIsThere' /\ OneCopyEach'
    BY <1>0, <2>2, <2>3, PostIsFirst DEF Inv, TypeOK, WhoIsThere, OneCopyEach, Handling
  <2>5. MailSafe'
    BY <1>0, <2>2, <2>3 DEF Inv, WhoIsThere, MailSafe, Handling
  <2>6. TextSafe'
    BY <1>0, <2>2, <2>3 DEF Inv, TextSafe, Handling
  <2> QED
    BY <2>4, <2>5, <2>6 DEF Inv
<1>2. CASE run' = [run EXCEPT ![r].attempt = 2] /\ Mail /\ (UNCHANGED copies \/ (Deliver(p) /\ carrier = "api"))
  <2>1. /\ again \in RunType /\ again.pc = "post"
        /\ again.who = p /\ again.batch = run[r].batch
        /\ run' = [run EXCEPT ![r] = again]
    BY <1>0, <1>2 DEF Inv, TypeOK, RunType
  <2> HIDE DEF again
  <2>2. /\ run' \in [Runs -> RunType]
        /\ run'[r].pc = "post" /\ run'[r].who = p /\ run'[r].batch = run[r].batch
        /\ \A s \in Runs : s # r => run'[s] = run[s]
    BY <2>1, RunUpdate DEF Inv, TypeOK
  <2>3. /\ copies' \in [People -> 0 .. Copies]
        /\ carrier = "api" \/ copies' = copies
    BY <1>0, <1>2, DeliverUpdate DEF Inv, TypeOK
  <2>4. TypeOK' /\ WhoIsThere' /\ OneCopyEach'
    BY <1>0, <1>2, <2>2, <2>3 DEF Inv, TypeOK, WhoIsThere, OneCopyEach, Handling, Mail
  <2>5. MailSafe' /\ TextSafe'
    BY <1>0, <1>2, <2>2, <2>3 DEF Inv, WhoIsThere, MailSafe, TextSafe, Handling, Mail
  <2> QED
    BY <2>4, <2>5 DEF Inv
<1> QED
  BY <1>1, <1>2 DEF Post, Retryable, Mail

LEMMA RecordInv ==
  ASSUME Inv, NEW r \in Runs, Record(r)
  PROVE  Inv'
<1> DEFINE p == run[r].who
           x == IF run[r].good THEN "sent" ELSE "failed"
           next == [run[r] EXCEPT !.pc = "each", !.who = Nobody]
<1>0. run[r].pc = "record" /\ p \in People
  BY DEF Record, Inv, WhoIsThere, Handling
<1>1. CASE p \in run[r].gone
  <2>1. /\ run' \in [Runs -> RunType]
        /\ run'[r] = Idle
        /\ \A s \in Runs : s # r => run'[s] = run[s]
    BY <1>1, StopUpdate DEF Inv, TypeOK, Record
  <2>2. UNCHANGED <<carrier, status, row, consent, op, copies>> /\ (alone' <=> Mail)
    BY <1>1 DEF Record
  <2>3. TypeOK' /\ WhoIsThere'
    BY <1>1, <2>1, <2>2 DEF Inv, Record, Mail, TypeOK, WhoIsThere, Handling, Idle
  <2>4. OneCopyEach' /\ MailSafe'
    BY <2>1, <2>2 DEF Inv, MailSafe, OneCopyEach, Mail, Idle
  <2>5. TextSafe'
    BY <2>2 DEF TextSafe, Mail
  <2> QED
    BY <2>3, <2>4, <2>5 DEF Inv
<1>2. CASE p \notin run[r].gone
  <2>1. /\ next \in RunType /\ next.pc = "each" /\ next.batch = run[r].batch
        /\ run' = [run EXCEPT ![r] = next]
    BY <1>2 DEF Inv, TypeOK, RunType, Record
  <2> HIDE DEF next
  <2>2. /\ run' \in [Runs -> RunType]
        /\ run'[r].pc = "each" /\ run'[r].batch = run[r].batch
        /\ \A s \in Runs : s # r => run'[s] = run[s]
    BY <2>1, RunUpdate DEF Inv, TypeOK
  <2>3. /\ row' \in [People -> {"none", "queued", "claimed", "sent", "failed", "skipped"}]
        /\ row'[p] \notin Fresh /\ \A q \in People : q # p => row'[q] = row[q]
    BY <1>0, <1>2, WriteUpdate DEF Inv, Record, Fresh
  <2>4. UNCHANGED <<carrier, status, consent, op, copies, alone>>
    BY <1>2 DEF Record
  <2>5. TypeOK' /\ WhoIsThere' /\ OneCopyEach'
    BY <2>2, <2>3, <2>4 DEF Inv, TypeOK, WhoIsThere, OneCopyEach, Handling
  <2>6. MailSafe'
    BY <1>0, <2>2, <2>3, <2>4 DEF Inv, WhoIsThere, MailSafe, Handling
  <2>7. TextSafe'
    <3> SUFFICES ASSUME carrier = "text", alone
                 PROVE  TextSafe'
      BY <2>4 DEF TextSafe
    <3>1. \A s \in Runs : s # r => run[s].pc = "idle" /\ run'[s].pc = "idle"
      BY <1>0, <2>2 DEF Inv, TextSafe
    <3>2. p \notin run[r].batch /\ run[r].batch \subseteq People
          /\ \A q \in run[r].batch : row[q] \in Fresh
      BY <1>0 DEF Inv, TextSafe, Handling, TypeOK, RunType
    <3>3. \A q \in run'[r].batch : row'[q] \in Fresh
      BY <2>2, <2>3, <3>2
    <3>4. \A q \in People : (row'[q] \in Fresh) => row[q] \in Fresh /\ copies'[q] = 0
      BY <1>0, <2>3, <2>4, <3>1 DEF Inv, TextSafe, TypeOK
    <3> QED
      BY <2>2, <2>4, <3>1, <3>3, <3>4 DEF TextSafe, Handling
  <2> QED
    BY <2>5, <2>6, <2>7 DEF Inv
<1> QED
  BY <1>1, <1>2

-----------------------------------------------------------------------------
(* The theorems                                                            *)

LEMMA NextInv == Inv /\ [Next]_vars => Inv'
<1> SUFFICES ASSUME Inv, [Next]_vars PROVE Inv'
  OBVIOUS
<1>1. CASE Ask \/ Freeze \/ Plan \/ Drop \/ Draft \/ Set
  BY <1>1, AskInv, FreezeInv, PlanInv, DropInv, DraftInv, SetInv
<1>2. CASE \E r \in Runs : Step(r)
  BY <1>2, StartInv, MarkInv, LookInv, PostInv, RecordInv, NextBatchInv, FinishInv, CrashInv,
     SkipInv, ClaimInv DEF Step
<1>3. CASE \E p \in People : Change(p)
  BY <1>3, ChangeInv
<1>4. CASE UNCHANGED vars
  BY <1>4 DEF vars, Inv, TypeOK, WhoIsThere, MailSafe, TextSafe, OneCopyEach, Handling
<1> QED
  BY <1>1, <1>2, <1>3, <1>4 DEF Next

\* The inductive invariant, with the types: whoever has a copy has left the queue, or is
\* at the hands of the one run that records it.
THEOREM CampaignInvariant == Spec => []Inv
  BY InitInv, NextInv, PTL DEF Spec

\* No mail goes twice to an address, however runs of the campaign overlap, die and are
\* started again; nor does a text while they do not.
THEOREM OneCopyForAll == Spec => []OneCopyEach
<1>1. Inv => OneCopyEach
  BY DEF Inv
<1> QED
  BY <1>1, CampaignInvariant, PTL

-----------------------------------------------------------------------------
(* CustomerAccounts: the invariant                                         *)

Pcs == {"idle", "create", "identify", "redeem", "promote", "scalar", "void", "rename",
        "upsert", "link", "add", "primary", "remove", "unlink"}
Homeless == {"idle", "create", "redeem", "upsert"}
Holders == [holder : Accounts \cup {Nobody}, verified : BOOLEAN]
Requesting == [pc : Pcs, x : Addresses \cup {Nobody}, a : Accounts \cup {Nobody}]

None(a) == \A x \in Addresses : a_ident[x].holder # a
Other(a, x) == \E y \in Addresses \ {x} : a_ident[y].holder = a /\ a_ident[y].verified

\* The column of the account is about to be freed, or given another address.
Renaming(a) ==
  \E c \in Requests : a_call[c].pc = "rename" /\ a_call[c].a = a /\ a_call[c].x = a_email[a]

\* A request at work knows its address, and its account where it has come to one.
Placed ==
  \A c \in Requests :
    /\ a_call[c].pc # "idle" => a_call[c].x \in Addresses
    /\ a_call[c].pc \notin Homeless => a_call[c].a \in Accounts /\ a_email[a_call[c].a] # Nobody

\* No account, no identities and no password; and the column is unique.
Existing == \A a \in Accounts : a_email[a] = Nobody => None(a) /\ ~a_password[a]
Unique == \A a, b \in Accounts : a # b /\ a_email[a] = a_email[b] => a_email[a] \notin Addresses

\* One request at most moves the addresses of an account, and finds what it read.
OneEdit ==
  \A c, d \in Requests :
    c # d /\ a_call[c].pc \in SignIn!Edits /\ a_call[d].pc \in SignIn!Edits => a_call[c].a # a_call[d].a
Unmoved ==
  \A c \in Requests :
    /\ a_call[c].pc \in {"scalar", "primary"} => a_ident[a_call[c].x].holder = a_call[c].a
    /\ a_call[c].pc = "remove" => a_email[a_call[c].a] # a_call[c].x
    /\ a_call[c].pc = "unlink" => Other(a_call[c].a, a_call[c].x)

\* The column of an account that has identities is one of them; and the first that a
\* request is about to give an account is for its column.
Backed ==
  \A a \in Accounts :
    a_email[a] \in Addresses /\ ~None(a) => a_ident[a_email[a]].holder = a \/ Renaming(a)
First ==
  \A c \in Requests :
    a_call[c].pc \in {"identify", "link"} =>
      (a_email[a_call[c].a] \in Addresses /\ None(a_call[c].a) =>
         a_email[a_call[c].a] = a_call[c].x \/ Renaming(a_call[c].a))

Tables == SignIn!TypeOK /\ Placed /\ Existing /\ Unique
Order == OneEdit /\ Unmoved /\ Backed /\ First
Settled == Tables /\ (a_orderly => Order)

LEMMA SettledInit == SignIn!Init => Settled
<1> SUFFICES ASSUME SignIn!Init PROVE Settled
  OBVIOUS
<1>1. /\ \A a \in Accounts : a_email[a] = Nobody /\ ~a_password[a]
      /\ \A x \in Addresses : a_ident[x].holder = Nobody
      /\ \A c \in Requests : a_call[c].pc = "idle"
  BY DEF SignIn!Init, SignIn!Free, SignIn!Idle
<1>2. SignIn!TypeOK
  BY DEF SignIn!Init, SignIn!TypeOK, SignIn!Free, SignIn!Idle
<1>3. Placed /\ OneEdit /\ Unmoved /\ First
  BY <1>1 DEF Placed, OneEdit, Unmoved, First, Homeless, SignIn!Edits
<1>4. Existing /\ Unique /\ Backed
  BY <1>1, BackOfficeAssumption DEF Existing, Unique, Backed, None
<1> QED
  BY <1>2, <1>3, <1>4 DEF Settled, Tables, Order

-----------------------------------------------------------------------------
(* CustomerAccounts: what a step of one request changes                    *)

\* A request comes to pc, with x and a; the others stay where they are.
Now(c, pc, x, a) ==
  /\ a_call' \in [Requests -> Requesting]
  /\ a_call'[c].pc = pc /\ a_call'[c].x = x /\ a_call'[c].a = a
  /\ \A d \in Requests : d # c => a_call'[d] = a_call[d]

LEMMA GotoNow ==
  ASSUME SignIn!TypeOK, NEW c \in Requests, NEW pc \in Pcs, NEW x \in Addresses \cup {Nobody},
         NEW a \in Accounts \cup {Nobody}, SignIn!Goto(c, pc, x, a)
  PROVE  Now(c, pc, x, a)
<1>1. a_call \in [Requests -> Requesting] /\ [pc |-> pc, x |-> x, a |-> a] \in Requesting
  BY DEF SignIn!TypeOK, Requesting, Pcs
<1>2. a_call' = [a_call EXCEPT ![c] = [pc |-> pc, x |-> x, a |-> a]]
  BY DEF SignIn!Goto
<1> QED
  BY <1>1, <1>2 DEF Now

LEMMA DoneNow ==
  ASSUME SignIn!TypeOK, NEW c \in Requests, SignIn!Done(c)
  PROVE  Now(c, "idle", Nobody, Nobody)
<1>1. SignIn!Goto(c, "idle", Nobody, Nobody)
  BY DEF SignIn!Done, SignIn!Goto, SignIn!Idle
<1> QED
  BY <1>1, GotoNow DEF Pcs

\* What an orderly step of a request to pc has to find.
Fits(c, pc, x, a) ==
  /\ a_call[c].pc = "rename" => a_email[a_call[c].a] # a_call[c].x
  /\ pc \in SignIn!Edits =>
       \A d \in Requests : d # c /\ a_call[d].pc \in SignIn!Edits => a_call[d].a # a
  /\ pc \in {"identify", "link"} /\ a_email[a] \in Addresses /\ None(a) => a_email[a] = x
  /\ pc \in {"scalar", "primary"} => a_ident[x].holder = a
  /\ pc = "remove" => a_email[a] # x
  /\ pc = "unlink" => Other(a, x)

\* A step that only moves a request.
LEMMA QuietStep ==
  ASSUME Settled, NEW c \in Requests, NEW pc \in Pcs, NEW x, NEW a, Now(c, pc, x, a),
         UNCHANGED <<a_email, a_ident, a_password, a_codes>>,
         pc # "idle" => x \in Addresses,
         pc \notin Homeless => a \in Accounts /\ a_email[a] # Nobody,
         a_orderly' \in BOOLEAN,
         a_orderly' => a_orderly /\ Fits(c, pc, x, a)
  PROVE  Settled'
<1>1. SignIn!TypeOK'
  BY DEF Settled, Tables, Now, SignIn!TypeOK, Requesting, Pcs
<1>2. Placed'
  BY DEF Settled, Tables, Now, Placed
<1>3. Existing' /\ Unique'
  BY DEF Settled, Tables, Existing, Unique, None
<1>4. ASSUME a_orderly' PROVE Order'
  <2>0. Order /\ Fits(c, pc, x, a)
    BY <1>4 DEF Settled
  <2>1. OneEdit'
    BY <2>0 DEF Order, OneEdit, Now, Fits
  <2>2. Unmoved'
    BY <2>0 DEF Order, Unmoved, Now, Fits, Other
  <2>3. \A b \in Accounts : Renaming(b) => Renaming(b)'
    BY <2>0 DEF Renaming, Now, Fits
  <2>4. Backed'
    BY <2>0, <2>3 DEF Order, Backed, None
  <2>5. First'
    BY <2>0, <2>3 DEF Settled, Tables, Placed, Homeless, Order, First, Now, Fits, None
  <2> QED
    BY <2>1, <2>2, <2>4, <2>5 DEF Order
<1> QED
  BY <1>1, <1>2, <1>3, <1>4 DEF Settled, Tables

\* A new account, with x in its column, and perhaps a request that goes on with it.
LEMMA NewStep ==
  ASSUME Settled, NEW n \in Accounts, NEW x \in Addresses, a_email[n] = Nobody,
         \A b \in Accounts : a_email[b] # x,
         a_email' = [a_email EXCEPT ![n] = x],
         UNCHANGED <<a_ident, a_password, a_codes, a_orderly>>,
         \/ UNCHANGED a_call
         \/ \E c \in Requests, pc \in {"identify", "link"} :
              a_call[c].pc # "rename" /\ Now(c, pc, x, n)
  PROVE  Settled'
<1>1. a_email'[n] = x /\ \A b \in Accounts : b # n => a_email'[b] = a_email[b]
  BY DEF Settled, Tables, SignIn!TypeOK
<1>2. /\ x # Nobody /\ None(n)
      /\ \A d \in Requests : a_call[d].pc \notin Homeless => a_call[d].a # n
  BY BackOfficeAssumption DEF Settled, Tables, Placed, Existing
<1>3. SignIn!TypeOK'
  BY DEF Settled, Tables, Now, SignIn!TypeOK, Requesting, Pcs
<1>4. Placed'
  BY <1>1, <1>2 DEF Settled, Tables, Placed, Now, Homeless
<1>5. Existing' /\ Unique'
  BY <1>1, <1>2 DEF Settled, Tables, Existing, Unique, None
<1>6. ASSUME a_orderly' PROVE Order'
  <2>0. Order
    BY <1>6 DEF Settled
  <2>1. OneEdit'
    BY <2>0 DEF Order, OneEdit, Now, SignIn!Edits
  <2>2. Unmoved'
    BY <2>0, <1>1, <1>2 DEF Order, Unmoved, Now, Other, Homeless
  <2>3. \A b \in Accounts : Renaming(b) => Renaming(b)'
    BY <1>1, <1>2 DEF Renaming, Now, Homeless
  <2>4. Backed'
    BY <2>0, <2>3, <1>1, <1>2 DEF Order, Backed, None
  <2>5. First'
    BY <2>0, <2>3, <1>1, <1>2 DEF Settled, Tables, Placed, Homeless, Order, First, Now, None
  <2> QED
    BY <2>1, <2>2, <2>4, <2>5 DEF Order
<1> QED
  BY <1>3, <1>4, <1>5, <1>6 DEF Settled, Tables

\* An address that is free, or the account's already, is given to an account.
LEMMA GiveStep ==
  ASSUME Settled, NEW c \in Requests, NEW x \in Addresses, NEW a \in Accounts, NEW v \in BOOLEAN,
         a_ident[x].holder \in {Nobody, a}, a_ident[x].holder = a /\ a_ident[x].verified => v,
         a_ident' = [a_ident EXCEPT ![x] = [holder |-> a, verified |-> v]],
         UNCHANGED a_email, a_email[a] # Nobody,
         a_password' \in [Accounts -> BOOLEAN],
         \A b \in Accounts : a_password'[b] => a_email[b] # Nobody,
         a_codes' \subseteq Addresses,
         a_call[c].pc # "rename", Now(c, "idle", Nobody, Nobody),
         a_orderly' \in BOOLEAN,
         a_orderly' =>
           a_orderly /\ (a_email[a] \in Addresses /\ None(a) => a_email[a] = x \/ Renaming(a))
  PROVE  Settled'
<1>1. /\ a_ident'[x].holder = a /\ a_ident'[x].verified = v
      /\ \A y \in Addresses : y # x => a_ident'[y] = a_ident[y]
      /\ a_ident' \in [Addresses -> Holders]
  BY DEF Settled, Tables, SignIn!TypeOK, Holders
<1>2. /\ a # Nobody
      /\ \A b \in Accounts : None(b)' => None(b)
      /\ \A b \in Accounts : b # a /\ ~None(b)' => ~None(b)
      /\ \A b \in Accounts, y \in Addresses : a_ident[y].holder = b => a_ident'[y].holder = b
  BY <1>1, BackOfficeAssumption DEF None
<1>3. SignIn!TypeOK'
  BY <1>1 DEF Settled, Tables, Now, SignIn!TypeOK, Requesting, Pcs, Holders
<1>4. Placed'
  BY DEF Settled, Tables, Placed, Now, Homeless
<1>5. Existing' /\ Unique'
  BY <1>2 DEF Settled, Tables, Existing, Unique
<1>6. ASSUME a_orderly' PROVE Order'
  <2>0. Order /\ (a_email[a] \in Addresses /\ None(a) => a_email[a] = x \/ Renaming(a))
    BY <1>6 DEF Settled
  <2>1. OneEdit'
    BY <2>0 DEF Order, OneEdit, Now, SignIn!Edits
  <2>2. Unmoved'
    <3>1. \A b \in Accounts, y \in Addresses : Other(b, y) => Other(b, y)'
      BY <1>1, <1>2 DEF Other
    <3> QED
      BY <2>0, <3>1, <1>2 DEF Settled, Tables, Placed, Homeless, Order, Unmoved, Now
  <2>3. \A b \in Accounts : Renaming(b) => Renaming(b)'
    BY DEF Renaming, Now
  <2>4. Backed'
    BY <2>0, <2>3, <1>1, <1>2 DEF Order, Backed
  <2>5. First'
    BY <2>0, <2>3, <1>2 DEF Settled, Tables, Placed, Homeless, Order, First, Now
  <2> QED
    BY <2>1, <2>2, <2>4, <2>5 DEF Order
<1> QED
  BY <1>3, <1>4, <1>5, <1>6 DEF Settled, Tables

\* A claim that was never proven is voided, and the column is to be freed next.
LEMMA VoidStep ==
  ASSUME Settled, NEW c \in Requests, NEW x \in Addresses, NEW a \in Accounts,
         a_call[c].pc = "void", a_ident[x].holder = a, a_email[a] # Nobody,
         a_ident' = [a_ident EXCEPT ![x] = SignIn!Free],
         UNCHANGED <<a_email, a_password, a_codes>>,
         Now(c, "rename", x, a), a_orderly' = (a_orderly /\ ~SignIn!Clashes(c, a))
  PROVE  Settled'
<1>1. /\ a_ident'[x].holder = Nobody
      /\ \A y \in Addresses : y # x => a_ident'[y] = a_ident[y]
      /\ a_ident' \in [Addresses -> Holders]
  BY DEF Settled, Tables, SignIn!TypeOK, SignIn!Free, Holders
<1>2. /\ a # Nobody /\ \A b \in Accounts : b # Nobody
      /\ \A b \in Accounts : None(b) => None(b)'
      /\ \A b \in Accounts : b # a /\ None(b)' => None(b)
  BY <1>1, BackOfficeAssumption DEF None
<1>3. SignIn!TypeOK'
  BY <1>1 DEF Settled, Tables, Now, SignIn!TypeOK, Requesting, Pcs, Holders
<1>4. Placed'
  BY DEF Settled, Tables, Placed, Now, Homeless
<1>5. Existing' /\ Unique'
  BY <1>2 DEF Settled, Tables, Existing, Unique
<1>6. ASSUME a_orderly' PROVE Order'
  <2>0. /\ Order
        /\ \A d \in Requests : d # c /\ a_call[d].pc \in SignIn!Edits => a_call[d].a # a
    BY <1>6 DEF Settled, SignIn!Clashes
  <2>1. OneEdit'
    BY <2>0 DEF Order, OneEdit, Now
  <2>2. Unmoved'
    <3>1. \A b \in Accounts, y \in Addresses : b # a /\ Other(b, y) => Other(b, y)'
      BY <1>1 DEF Other
    <3> QED
      BY <2>0, <3>1, <1>1 DEF Settled, Tables, Placed, Homeless, Order, Unmoved, Now, SignIn!Edits
  <2>3. /\ \A b \in Accounts : Renaming(b) => Renaming(b)'
        /\ a_email[a] = x => Renaming(a)'
    BY DEF Renaming, Now
  <2>4. Backed'
    BY <2>0, <2>3, <1>1, <1>2 DEF Order, Backed
  <2>5. None(a)' /\ a_email[a] \in Addresses => None(a) \/ Renaming(a)'
    BY <2>0, <2>3, <1>1 DEF Order, Backed, None
  <2>6. First'
    BY <2>0, <2>3, <2>5, <1>2 DEF Settled, Tables, Placed, Homeless, Order, First, Now
  <2> QED
    BY <2>1, <2>2, <2>4, <2>6 DEF Order
<1> QED
  BY <1>3, <1>4, <1>5, <1>6 DEF Settled, Tables

\* An address is taken from an account that no longer has it in its column.
LEMMA DropStep ==
  ASSUME Settled, NEW c \in Requests, NEW x \in Addresses, NEW a \in Accounts,
         a_call[c].pc = "remove", a_call[c].x = x, a_call[c].a = a, a_ident[x].holder = a,
         a_ident' = [a_ident EXCEPT ![x] = SignIn!Free],
         UNCHANGED <<a_email, a_password, a_codes, a_orderly>>, Now(c, "idle", Nobody, Nobody)
  PROVE  Settled'
<1>1. /\ a_ident'[x].holder = Nobody
      /\ \A y \in Addresses : y # x => a_ident'[y] = a_ident[y]
      /\ a_ident' \in [Addresses -> Holders]
  BY DEF Settled, Tables, SignIn!TypeOK, SignIn!Free, Holders
<1>2. /\ a # Nobody /\ \A b \in Accounts : b # Nobody
      /\ \A b \in Accounts : None(b) => None(b)'
      /\ \A b \in Accounts : b # a /\ None(b)' => None(b)
  BY <1>1, BackOfficeAssumption DEF None
<1>3. SignIn!TypeOK'
  BY <1>1 DEF Settled, Tables, Now, SignIn!TypeOK, Requesting, Pcs, Holders
<1>4. Placed'
  BY DEF Settled, Tables, Placed, Now, Homeless
<1>5. Existing' /\ Unique'
  BY <1>2 DEF Settled, Tables, Existing, Unique
<1>6. ASSUME a_orderly' PROVE Order'
  <2>0. /\ Order
        /\ \A d \in Requests : d # c /\ a_call[d].pc \in SignIn!Edits => a_call[d].a # a
        /\ a_email[a] # x
    BY <1>6 DEF Settled, Order, OneEdit, Unmoved, SignIn!Edits
  <2>1. OneEdit'
    BY <2>0 DEF Order, OneEdit, Now, SignIn!Edits
  <2>2. Unmoved'
    <3>1. \A b \in Accounts, y \in Addresses : b # a /\ Other(b, y) => Other(b, y)'
      BY <1>1 DEF Other
    <3> QED
      BY <2>0, <3>1, <1>1 DEF Settled, Tables, Placed, Homeless, Order, Unmoved, Now, SignIn!Edits
  <2>3. \A b \in Accounts : Renaming(b) => Renaming(b)'
    BY DEF Renaming, Now
  <2>4. Backed'
    BY <2>0, <2>3, <1>1, <1>2 DEF Order, Backed
  <2>5. None(a)' /\ a_email[a] \in Addresses => None(a) \/ Renaming(a)'
    BY <2>0, <2>3, <1>1 DEF Order, Backed, None
  <2>6. First'
    BY <2>0, <2>3, <2>5, <1>2 DEF Settled, Tables, Placed, Homeless, Order, First, Now
  <2> QED
    BY <2>1, <2>2, <2>4, <2>6 DEF Order
<1> QED
  BY <1>3, <1>4, <1>5, <1>6 DEF Settled, Tables

\* An address is proven by its account: confirmed, or promoted by a session, which
\* goes on to the column.
LEMMA ProveStep ==
  ASSUME Settled, NEW x \in Addresses, NEW h \in Accounts, a_ident[x].holder = h,
         a_ident' = [a_ident EXCEPT ![x] = [holder |-> h, verified |-> TRUE]],
         UNCHANGED <<a_email, a_password>>, a_codes' \subseteq Addresses,
         \/ UNCHANGED <<a_call, a_orderly>>
         \/ \E c \in Requests :
              /\ a_call[c].pc = "promote" /\ Now(c, "scalar", x, h)
              /\ a_orderly' = (a_orderly /\ ~SignIn!Clashes(c, h))
  PROVE  Settled'
<1>1. /\ a_ident'[x].holder = h /\ a_ident'[x].verified
      /\ \A y \in Addresses : y # x => a_ident'[y] = a_ident[y]
      /\ a_ident' \in [Addresses -> Holders]
  <2>1. a_ident \in [Addresses -> Holders]
    BY DEF Settled, Tables, SignIn!TypeOK, Holders
  <2> DEFINE proven == [holder |-> h, verified |-> TRUE]
  <2>2. proven \in Holders /\ proven.holder = h /\ proven.verified
    BY DEF Holders
  <2>3. a_ident' = [a_ident EXCEPT ![x] = proven]
    OBVIOUS
  <2> HIDE DEF proven
  <2> QED
    BY <2>1, <2>2, <2>3
<1>2. /\ \A b \in Accounts : None(b)' <=> None(b)
      /\ \A y \in Addresses : a_ident'[y].holder = a_ident[y].holder
      /\ \A b \in Accounts, y \in Addresses : Other(b, y) => Other(b, y)'
      /\ ~None(h)
  BY <1>1 DEF None, Other
<1>3. a_call \in [Requests -> Requesting] /\ a_orderly \in BOOLEAN /\ a_email[h] # Nobody
  BY <1>2 DEF Settled, Tables, SignIn!TypeOK, Requesting, Pcs, Existing
<1>4. CASE UNCHANGED <<a_call, a_orderly>>
  <2>1. Tables'
    BY <1>1, <1>2, <1>4
    DEF Settled, Tables, SignIn!TypeOK, Holders, Placed, Existing, Unique
  <2>2. a_orderly' => Order'
    BY <1>2, <1>4 DEF Settled, Tables, Placed, Homeless, Order, OneEdit, Unmoved, Backed, First, Renaming
  <2> QED
    BY <2>1, <2>2 DEF Settled
<1>5. ASSUME NEW c \in Requests, a_call[c].pc = "promote", Now(c, "scalar", x, h),
             a_orderly' = (a_orderly /\ ~SignIn!Clashes(c, h))
      PROVE  Settled'
  <2>1. SignIn!TypeOK'
    BY <1>1, <1>3, <1>5 DEF Settled, Tables, Now, SignIn!TypeOK, Requesting, Pcs, Holders
  <2>2. Placed'
    BY <1>3, <1>5 DEF Settled, Tables, Placed, Now, Homeless
  <2>3. Existing' /\ Unique'
    BY <1>2 DEF Settled, Tables, Existing, Unique
  <2>4. ASSUME a_orderly' PROVE Order'
    <3>1. /\ Order
          /\ \A d \in Requests : d # c /\ a_call[d].pc \in SignIn!Edits => a_call[d].a # h
      BY <1>5, <2>4 DEF Settled, SignIn!Clashes
    <3>2. OneEdit'
      BY <1>5, <3>1 DEF Order, OneEdit, Now
    <3>3. Unmoved'
      BY <1>1, <1>2, <1>5, <3>1 DEF Settled, Tables, Placed, Homeless, Order, Unmoved, Now
    <3>4. \A b \in Accounts : Renaming(b) => Renaming(b)'
      BY <1>5 DEF Renaming, Now
    <3>5. Backed'
      BY <1>2, <3>1, <3>4 DEF Order, Backed
    <3>6. First'
      BY <1>2, <1>5, <3>1, <3>4 DEF Settled, Tables, Placed, Homeless, Order, First, Now
    <3> QED
      BY <3>2, <3>3, <3>5, <3>6 DEF Order
  <2> QED
    BY <2>1, <2>2, <2>3, <2>4 DEF Settled, Tables
<1> QED
  BY <1>4, <1>5

\* The request that moves an account's addresses writes its column: to an address of
\* the account's that nobody else has there, or to none.
Column(c, h, v, pc, x, a) ==
  /\ a_call[c].pc \in SignIn!Edits /\ a_call[c].a = h /\ a_email[h] # Nobody
  /\ Now(c, pc, x, a)
  /\ pc # "idle" => x \in Addresses
  /\ pc = "remove" => a = h /\ x # v
  /\ a_email' = [a_email EXCEPT ![h] = v]
  /\ \A b \in Accounts : b # h => a_email[b] # v \/ v = "void"
  /\ a_orderly /\ v # "void" => a_ident[v].holder = h
  /\ UNCHANGED <<a_ident, a_password, a_codes, a_orderly>>

LEMMA ColumnStep ==
  ASSUME Settled, NEW c \in Requests, NEW h \in Accounts, NEW v \in Addresses \cup {"void"},
         NEW pc \in {"idle", "upsert", "remove"}, NEW x, NEW a, Column(c, h, v, pc, x, a)
  PROVE  Settled'
<1> USE DEF Column
<1>1. /\ a_email'[h] = v /\ v # Nobody /\ "void" \notin Addresses
      /\ \A b \in Accounts : b # h => a_email'[b] = a_email[b]
      /\ a_email' \in [Accounts -> Addresses \cup {"void", Nobody}]
  BY BackOfficeAssumption DEF Settled, Tables, SignIn!TypeOK
<1>2. \A b \in Accounts : None(b)' <=> None(b)
  BY DEF None
<1>3. SignIn!TypeOK'
  BY <1>1 DEF Settled, Tables, SignIn!TypeOK, Now, Requesting, Pcs
<1>4. Placed'
  BY <1>1 DEF Settled, Tables, Placed, Now, Homeless
<1>5. Existing' /\ Unique'
  BY <1>1, <1>2 DEF Settled, Tables, Existing, Unique
<1>6. ASSUME a_orderly' PROVE Order'
  <2>0. /\ Order
        /\ \A d \in Requests : d # c /\ a_call[d].pc \in SignIn!Edits => a_call[d].a # h
    BY <1>6 DEF Settled, Order, OneEdit
  <2>1. OneEdit'
    BY <2>0 DEF Order, OneEdit, Now, SignIn!Edits
  <2>2. Unmoved'
    BY <2>0, <1>1 DEF Settled, Tables, Placed, Homeless, Order, Unmoved, Now, Other, SignIn!Edits
  <2>3. \A b \in Accounts : b # h /\ Renaming(b) => Renaming(b)'
    BY <1>1 DEF Renaming, Now
  <2>4. a_email'[h] \in Addresses => a_ident[a_email'[h]].holder = h /\ ~None(h)
    BY <1>1, <1>6 DEF None
  <2>5. Backed'
    BY <2>0, <2>3, <2>4, <1>1, <1>2 DEF Order, Backed
  <2>6. First'
    BY <2>0, <2>3, <2>4, <1>1, <1>2 DEF Settled, Tables, Placed, Homeless, Order, First, Now
  <2> QED
    BY <2>1, <2>2, <2>5, <2>6 DEF Order
<1> QED
  BY <1>3, <1>4, <1>5, <1>6 DEF Settled, Tables

-----------------------------------------------------------------------------
(* CustomerAccounts: the actions                                           *)

LEMMA BeginSettled ==
  ASSUME Settled, NEW c \in Requests, SignIn!Begin(c)
  PROVE  Settled'
<1>0. SignIn!TypeOK /\ Nobody \in Addresses \cup {Nobody} /\ Nobody \in Accounts \cup {Nobody}
  BY DEF Settled, Tables
<1>1. PICK x \in Addresses :
        \/ SignIn!Register(c, x) \/ SignIn!Redeem(c, x)
        \/ \E a \in Accounts : \/ SignIn!RequestAdd(c, a, x) \/ SignIn!AskPrimary(c, a, x)
                               \/ SignIn!AskRemove(c, a, x) \/ SignIn!AskUnlink(c, a, x)
  BY DEF SignIn!Begin
<1>2. ASSUME NEW pc \in {"create", "redeem"}, SignIn!Starts(c, pc, x, Nobody),
             UNCHANGED <<a_email, a_ident, a_password, a_codes, a_orderly>>
      PROVE  Settled'
  <2>1. Now(c, pc, x, Nobody) /\ a_call[c].pc = "idle"
    BY <1>0, <1>2, GotoNow DEF SignIn!Starts, SignIn!At, Pcs
  <2>2. Fits(c, pc, x, Nobody)
    BY <2>1 DEF Fits, SignIn!Edits
  <2> QED
    BY <1>0, <1>2, <2>1, <2>2, QuietStep DEF Homeless, Pcs, SignIn!TypeOK
<1>3. CASE SignIn!Register(c, x)
  BY <1>2, <1>3 DEF SignIn!Register
<1>4. CASE SignIn!Redeem(c, x)
  BY <1>2, <1>4 DEF SignIn!Redeem
<1>5. ASSUME NEW a \in Accounts, SignIn!RequestAdd(c, a, x) PROVE Settled'
  <2>1. Now(c, "add", x, a) /\ a_call[c].pc = "idle"
    BY <1>0, <1>5, GotoNow DEF SignIn!RequestAdd, SignIn!Starts, SignIn!At, Pcs
  <2>2. a_email[a] # Nobody
    BY <1>5 DEF SignIn!RequestAdd, SignIn!Reproves, SignIn!VerifiedEmails, SignIn!Emails, Settled,
                Tables, Existing, None
  <2>3. Fits(c, "add", x, a)
    BY <2>1 DEF Fits, SignIn!Edits
  <2>4. UNCHANGED <<a_email, a_ident, a_password, a_codes, a_orderly>>
    BY <1>5 DEF SignIn!RequestAdd
  <2> QED
    BY <1>0, <2>1, <2>2, <2>3, <2>4, QuietStep DEF Pcs, SignIn!TypeOK
<1>6. ASSUME NEW a \in Accounts, NEW pc \in {"primary", "remove", "unlink"},
             SignIn!Edit(c, a, x, pc), ~None(a),
             pc = "primary" => a_ident[x].holder = a,
             pc = "remove" => a_email[a] # x,
             pc = "unlink" => Other(a, x)
      PROVE  Settled'
  <2>1. Now(c, pc, x, a) /\ a_call[c].pc = "idle"
    BY <1>0, <1>6, GotoNow DEF SignIn!Edit, SignIn!Starts, SignIn!At, Pcs
  <2>2. /\ UNCHANGED <<a_email, a_ident, a_password, a_codes>>
        /\ a_orderly' = (a_orderly /\ ~SignIn!Clashes(c, a))
    BY <1>6 DEF SignIn!Edit
  <2>3. a_email[a] # Nobody
    BY <1>6 DEF Settled, Tables, Existing
  <2>4. a_orderly' => Fits(c, pc, x, a)
    BY <1>6, <2>1, <2>2 DEF Fits, SignIn!Clashes
  <2> QED
    BY <1>0, <2>1, <2>2, <2>3, <2>4, QuietStep DEF Pcs, SignIn!TypeOK
<1>7. ASSUME NEW a \in Accounts, SignIn!AskPrimary(c, a, x) PROVE Settled'
  BY <1>6, <1>7 DEF SignIn!AskPrimary, SignIn!VerifiedEmails, SignIn!Emails, None
<1>8. ASSUME NEW a \in Accounts, SignIn!AskRemove(c, a, x) PROVE Settled'
  BY <1>6, <1>8 DEF SignIn!AskRemove, SignIn!Emails, None
<1>9. ASSUME NEW a \in Accounts, SignIn!AskUnlink(c, a, x) PROVE Settled'
  <2>1. ~None(a)
    BY <1>9 DEF SignIn!AskUnlink, SignIn!Emails, None
  <2>2. a_email[a] = x => Other(a, x)
    BY <1>9 DEF SignIn!AskUnlink, SignIn!VerifiedEmails, SignIn!Emails, Other
  <2>3. CASE a_email[a] = x
    BY <1>6, <1>9, <2>1, <2>2, <2>3 DEF SignIn!AskUnlink
  <2>4. CASE a_email[a] # x
    BY <1>6, <1>9, <2>1, <2>4 DEF SignIn!AskUnlink
  <2> QED
    BY <2>3, <2>4
<1> QED
  BY <1>1, <1>3, <1>4, <1>5, <1>7, <1>8, <1>9

\* A request that goes on, ends or dies without a write.
LEMMA PauseSettled ==
  ASSUME Settled, NEW c \in Requests, NEW pc \in {"idle", "promote", "void", "upsert"}, NEW x, NEW a,
         Now(c, pc, x, a), UNCHANGED <<a_email, a_ident, a_password, a_codes>>,
         pc # "idle" => x \in Addresses,
         pc \in {"promote", "void"} => a \in Accounts /\ a_email[a] # Nobody,
         a_orderly' \in BOOLEAN, a_orderly' => a_orderly,
         a_orderly' /\ a_call[c].pc = "rename" => a_email[a_call[c].a] # a_call[c].x
  PROVE  Settled'
<1>1. a_orderly' => Fits(c, pc, x, a)
  BY DEF Fits, SignIn!Edits
<1>2. pc \notin Homeless => pc \in {"promote", "void"}
  BY DEF Homeless
<1> QED
  BY <1>1, <1>2, QuietStep DEF Pcs

LEMMA FindSettled ==
  ASSUME Settled, NEW c \in Requests, SignIn!Find(c)
  PROVE  Settled'
<1> DEFINE x == a_call[c].x
           h == a_ident[x].holder
<1>0. /\ SignIn!TypeOK /\ a_call[c].pc = "redeem" /\ x \in Addresses /\ a_orderly \in BOOLEAN
      /\ h \in Accounts \cup {Nobody}
  BY DEF Settled, Tables, Placed, SignIn!Find, SignIn!At, SignIn!TypeOK
<1>1. UNCHANGED <<a_email, a_ident, a_password, a_codes, a_orderly>>
  BY DEF SignIn!Find
<1>2. CASE SignIn!Done(c)
  <2>1. Now(c, "idle", Nobody, Nobody)
    BY <1>0, <1>2, DoneNow
  <2> QED
    BY <1>0, <1>1, <1>2, <2>1, PauseSettled
<1>3. ASSUME NEW pc \in {"promote", "void"}, h # Nobody, SignIn!Goto(c, pc, x, h) PROVE Settled'
  <2>1. Now(c, pc, x, h)
    BY <1>0, <1>3, GotoNow DEF Pcs
  <2>2. h \in Accounts /\ a_email[h] # Nobody
    BY <1>0, <1>3 DEF Settled, Tables, Existing, None
  <2> QED
    BY <1>0, <1>1, <1>3, <2>1, <2>2, PauseSettled
<1>4. CASE SignIn!Goto(c, "upsert", x, Nobody)
  <2>1. Now(c, "upsert", x, Nobody)
    BY <1>0, <1>4, GotoNow DEF Pcs
  <2> QED
    BY <1>0, <1>1, <1>4, <2>1, PauseSettled
<1> QED
  BY <1>2, <1>3, <1>4 DEF SignIn!Find

LEMMA PromoteSettled ==
  ASSUME Settled, NEW c \in Requests, SignIn!Promote(c)
  PROVE  Settled'
<1> DEFINE x == a_call[c].x
           h == a_call[c].a
<1>0. /\ SignIn!TypeOK /\ a_call[c].pc = "promote" /\ x \in Addresses /\ h \in Accounts
      /\ a_orderly \in BOOLEAN
  BY DEF Settled, Tables, Placed, Homeless, SignIn!Promote, SignIn!At, SignIn!TypeOK
<1>1. UNCHANGED <<a_email, a_password, a_codes>> /\ a_codes' \subseteq Addresses
  BY DEF SignIn!Promote, Settled, Tables, SignIn!TypeOK
<1>2. CASE a_ident[x].holder # h
  <2>1. SignIn!Done(c) /\ UNCHANGED <<a_ident, a_orderly>>
    BY <1>2 DEF SignIn!Promote
  <2>2. Now(c, "idle", Nobody, Nobody)
    BY <1>0, <2>1, DoneNow
  <2> QED
    BY <1>0, <1>1, <2>1, <2>2, PauseSettled
<1>3. CASE a_ident[x].holder = h
  <2>1. /\ a_ident' = [a_ident EXCEPT ![x] = [holder |-> h, verified |-> TRUE]]
        /\ SignIn!Goto(c, "scalar", x, h) /\ a_orderly' = (a_orderly /\ ~SignIn!Clashes(c, h))
    BY <1>3 DEF SignIn!Promote
  <2>2. Now(c, "scalar", x, h)
    BY <1>0, <2>1, GotoNow DEF Pcs
  <2> HIDE DEF x, h
  <2> QED
    BY <1>0, <1>1, <1>3, <2>1, <2>2, ProveStep
<1> QED
  BY <1>2, <1>3

LEMMA ReadScalarSettled ==
  ASSUME Settled, NEW c \in Requests, SignIn!ReadScalar(c)
  PROVE  Settled'
<1> DEFINE x == a_call[c].x
           h == a_call[c].a
<1>0. /\ SignIn!TypeOK /\ a_call[c].pc = "scalar" /\ x \in Addresses /\ h \in Accounts
      /\ a_email[h] # Nobody /\ a_orderly \in BOOLEAN
  BY DEF Settled, Tables, Placed, Homeless, SignIn!ReadScalar, SignIn!At, SignIn!TypeOK
<1>1. UNCHANGED <<a_email, a_ident, a_password, a_codes, a_orderly>>
  BY DEF SignIn!ReadScalar
<1>2. CASE a_email[h] = "void"
  <2>1. SignIn!Goto(c, "primary", x, h)
    BY <1>2 DEF SignIn!ReadScalar
  <2>2. Now(c, "primary", x, h)
    BY <1>0, <2>1, GotoNow DEF Pcs
  <2>3. a_orderly => Fits(c, "primary", x, h)
    BY <1>0 DEF Settled, Order, OneEdit, Unmoved, Fits, SignIn!Edits
  <2> HIDE DEF x, h
  <2> QED
    BY <1>0, <1>1, <2>2, <2>3, QuietStep DEF Pcs
<1>3. CASE a_email[h] # "void"
  <2>1. SignIn!Done(c)
    BY <1>3 DEF SignIn!ReadScalar
  <2>2. Now(c, "idle", Nobody, Nobody)
    BY <1>0, <2>1, DoneNow
  <2> QED
    BY <1>0, <1>1, <2>2, PauseSettled
<1> QED
  BY <1>2, <1>3

LEMMA VoidSettled ==
  ASSUME Settled, NEW c \in Requests, SignIn!Void(c)
  PROVE  Settled'
<1> DEFINE x == a_call[c].x
           h == a_call[c].a
<1>0. /\ SignIn!TypeOK /\ a_call[c].pc = "void" /\ x \in Addresses /\ h \in Accounts
      /\ a_email[h] # Nobody /\ a_orderly \in BOOLEAN
  BY DEF Settled, Tables, Placed, Homeless, SignIn!Void, SignIn!At, SignIn!TypeOK
<1>1. UNCHANGED <<a_email, a_password, a_codes>>
  BY DEF SignIn!Void
<1>2. CASE a_ident[x].holder # h
  <2>1. SignIn!Done(c) /\ UNCHANGED <<a_ident, a_orderly>>
    BY <1>2 DEF SignIn!Void
  <2>2. Now(c, "idle", Nobody, Nobody)
    BY <1>0, <2>1, DoneNow
  <2> QED
    BY <1>0, <1>1, <2>1, <2>2, PauseSettled
<1>3. CASE a_ident[x].holder = h
  <2>1. /\ a_ident' = [a_ident EXCEPT ![x] = SignIn!Free]
        /\ SignIn!Goto(c, "rename", x, h) /\ a_orderly' = (a_orderly /\ ~SignIn!Clashes(c, h))
    BY <1>3 DEF SignIn!Void
  <2>2. Now(c, "rename", x, h)
    BY <1>0, <2>1, GotoNow DEF Pcs
  <2> HIDE DEF x, h
  <2> QED
    BY <1>0, <1>1, <1>3, <2>1, <2>2, VoidStep
<1> QED
  BY <1>2, <1>3

LEMMA RenameSettled ==
  ASSUME Settled, NEW c \in Requests, SignIn!Rename(c)
  PROVE  Settled'
<1> DEFINE x == a_call[c].x
           h == a_call[c].a
<1>0. /\ SignIn!TypeOK /\ a_call[c].pc = "rename" /\ x \in Addresses /\ h \in Accounts
      /\ a_email[h] # Nobody /\ a_orderly \in BOOLEAN /\ a_call[c].pc \in SignIn!Edits
  BY DEF Settled, Tables, Placed, Homeless, SignIn!Rename, SignIn!At, SignIn!TypeOK, SignIn!Edits
<1>1. UNCHANGED <<a_ident, a_password, a_codes>>
  BY DEF SignIn!Rename
<1>2. CASE a_email[h] # x /\ SignIn!Goto(c, "upsert", x, Nobody) /\ UNCHANGED <<a_email, a_orderly>>
  <2>1. Now(c, "upsert", x, Nobody)
    BY <1>0, <1>2, GotoNow DEF Pcs
  <2> QED
    BY <1>0, <1>1, <1>2, <2>1, PauseSettled
<1>3. CASE /\ a_email' = [a_email EXCEPT ![h] = "void"] /\ UNCHANGED a_orderly
           /\ SignIn!Goto(c, "upsert", x, Nobody)
  <2>1. Now(c, "upsert", x, Nobody)
    BY <1>0, <1>3, GotoNow DEF Pcs
  <2>2. x \in Addresses /\ h \in Accounts /\ a_call[c].a = h /\ "void" \in Addresses \cup {"void"}
    BY <1>0
  <2>3. Column(c, h, "void", "upsert", x, Nobody)
    BY <1>0, <1>1, <1>3, <2>1 DEF Column
  <2> HIDE DEF x, h
  <2> QED
    BY <2>2, <2>3, ColumnStep
<1>4. ASSUME NEW y \in SignIn!VerifiedEmails(h), a_email[h] = x,
             IF SignIn!Taken(y)
             THEN SignIn!Done(c) /\ UNCHANGED a_email /\ a_orderly' = FALSE
             ELSE /\ a_email' = [a_email EXCEPT ![h] = y]
                  /\ SignIn!Goto(c, "upsert", x, Nobody) /\ UNCHANGED a_orderly
      PROVE  Settled'
  <2>1. y \in Addresses /\ a_ident[y].holder = h
    BY DEF SignIn!VerifiedEmails, SignIn!Emails
  <2>2. CASE SignIn!Taken(y)
    <3>1. Now(c, "idle", Nobody, Nobody)
      BY <1>0, <1>4, <2>2, DoneNow
    <3> QED
      BY <1>0, <1>1, <1>4, <2>2, <3>1, PauseSettled
  <2>3. CASE ~SignIn!Taken(y)
    <3>1. Now(c, "upsert", x, Nobody)
      BY <1>0, <1>4, <2>3, GotoNow DEF Pcs
    <3>2. \A b \in Accounts : a_email[b] # y
      BY <2>3 DEF SignIn!Taken
    <3>3. Column(c, h, y, "upsert", x, Nobody)
      BY <1>0, <1>1, <1>4, <2>1, <2>3, <3>1, <3>2 DEF Column
    <3>4. h \in Accounts /\ y \in Addresses \cup {"void"}
      BY <1>0, <2>1
    <3> HIDE DEF x, h
    <3> QED
      BY <3>3, <3>4, ColumnStep
  <2> QED
    BY <2>2, <2>3
<1> QED
  BY <1>2, <1>3, <1>4 DEF SignIn!Rename

LEMMA CreateSettled ==
  ASSUME Settled, NEW c \in Requests, SignIn!CreateCustomer(c)
  PROVE  Settled'
<1> DEFINE x == a_call[c].x
<1>0. /\ SignIn!TypeOK /\ a_call[c].pc = "create" /\ x \in Addresses /\ a_orderly \in BOOLEAN
  BY DEF Settled, Tables, Placed, SignIn!CreateCustomer, SignIn!At, SignIn!TypeOK
<1>1. UNCHANGED <<a_ident, a_password, a_codes, a_orderly>>
  BY DEF SignIn!CreateCustomer
<1>2. CASE SignIn!Taken(x)
  <2>1. SignIn!Done(c) /\ UNCHANGED a_email
    BY <1>2 DEF SignIn!CreateCustomer
  <2>2. Now(c, "idle", Nobody, Nobody)
    BY <1>0, <2>1, DoneNow
  <2> QED
    BY <1>0, <1>1, <2>1, <2>2, PauseSettled
<1>3. CASE ~SignIn!Taken(x)
  <2>1. PICK n \in SignIn!Unused :
          a_email' = [a_email EXCEPT ![n] = x] /\ SignIn!Goto(c, "identify", x, n)
    BY <1>3 DEF SignIn!CreateCustomer
  <2>2. n \in Accounts /\ a_email[n] = Nobody /\ \A b \in Accounts : a_email[b] # x
    BY <1>3 DEF SignIn!Unused, SignIn!Taken
  <2>3. Now(c, "identify", x, n)
    BY <1>0, <2>1, <2>2, GotoNow DEF Pcs
  <2> HIDE DEF x
  <2> QED
    BY <1>0, <1>1, <2>1, <2>2, <2>3, NewStep
<1> QED
  BY <1>2, <1>3

LEMMA UpsertSettled ==
  ASSUME Settled, NEW c \in Requests, SignIn!Upsert(c)
  PROVE  Settled'
<1> DEFINE x == a_call[c].x
<1>0. /\ SignIn!TypeOK /\ a_call[c].pc = "upsert" /\ x \in Addresses /\ a_orderly \in BOOLEAN
  BY DEF Settled, Tables, Placed, SignIn!Upsert, SignIn!At, SignIn!TypeOK
<1>1. UNCHANGED <<a_ident, a_password, a_codes, a_orderly>>
  BY DEF SignIn!Upsert
<1>2. CASE /\ SignIn!Resolves(x) # Nobody /\ SignIn!Goto(c, "link", x, SignIn!Resolves(x))
           /\ UNCHANGED a_email
  <2>1. PICK a \in Accounts :
          /\ a = SignIn!Resolves(x)
          /\ a_ident[x].holder = a \/ (a_email[a] = x /\ None(a))
    <3>1. CASE a_ident[x].verified
      BY <1>0, <1>2, <3>1 DEF SignIn!Resolves, SignIn!TypeOK
    <3>2. CASE ~a_ident[x].verified
      <4>1. \E a \in Accounts : a_email[a] = x /\ SignIn!Emails(a) = {}
        BY <1>2, <3>2 DEF SignIn!Resolves
      <4>2. PICK a \in Accounts : a_email[a] = x /\ SignIn!Emails(a) = {}
        BY <4>1
      <4>3. \A b \in Accounts : a_email[b] = x => b = a
        BY <1>0, <4>2 DEF Settled, Tables, Unique
      <4>4. SignIn!Resolves(x) = CHOOSE b \in Accounts : a_email[b] = x
        BY <3>2, <4>1 DEF SignIn!Resolves
      <4>5. SignIn!Resolves(x) = a
        BY <4>2, <4>3, <4>4
      <4> QED
        BY <4>2, <4>5 DEF SignIn!Emails, None
    <3> QED
      BY <3>1, <3>2
  <2>2. Now(c, "link", x, a)
    BY <1>0, <1>2, <2>1, GotoNow DEF Pcs
  <2>3. a_email[a] # Nobody
    BY <1>0, <2>1, BackOfficeAssumption DEF Settled, Tables, Existing, None
  <2>4. Fits(c, "link", x, a)
    BY <1>0, <2>1 DEF Fits, SignIn!Edits, None
  <2> QED
    BY <1>0, <1>1, <1>2, <2>2, <2>3, <2>4, QuietStep DEF Pcs
<1>3. CASE SignIn!Done(c) /\ UNCHANGED a_email
  <2>1. Now(c, "idle", Nobody, Nobody)
    BY <1>0, <1>3, DoneNow
  <2> QED
    BY <1>0, <1>1, <1>3, <2>1, PauseSettled
<1>4. ASSUME ~SignIn!Taken(x), NEW n \in SignIn!Unused, a_email' = [a_email EXCEPT ![n] = x],
             SignIn!Goto(c, "link", x, n)
      PROVE  Settled'
  <2>1. n \in Accounts /\ a_email[n] = Nobody /\ \A b \in Accounts : a_email[b] # x
    BY <1>4 DEF SignIn!Unused, SignIn!Taken
  <2>2. Now(c, "link", x, n)
    BY <1>0, <1>4, <2>1, GotoNow DEF Pcs
  <2> HIDE DEF x
  <2> QED
    BY <1>0, <1>1, <1>4, <2>1, <2>2, NewStep
<1> QED
  BY <1>2, <1>3, <1>4 DEF SignIn!Upsert

\* What a request that is about to give an account an address finds, in order.
LEMMA FirstFits ==
  ASSUME Settled, NEW c \in Requests, a_call[c].pc \in {"identify", "link"}
  PROVE  a_orderly => (a_email[a_call[c].a] \in Addresses /\ None(a_call[c].a) =>
                         a_email[a_call[c].a] = a_call[c].x \/ Renaming(a_call[c].a))
  BY DEF Settled, Order, First

LEMMA IdentifySettled ==
  ASSUME Settled, NEW c \in Requests, SignIn!Identify(c)
  PROVE  Settled'
<1> DEFINE x == a_call[c].x
           a == a_call[c].a
<1>0. /\ SignIn!TypeOK /\ a_call[c].pc = "identify" /\ x \in Addresses /\ a \in Accounts
      /\ a_email[a] # Nobody /\ a_orderly \in BOOLEAN /\ a_codes \subseteq Addresses
      /\ a_password \in [Accounts -> BOOLEAN]
  BY DEF Settled, Tables, Placed, Homeless, SignIn!Identify, SignIn!At, SignIn!TypeOK
<1>1. /\ UNCHANGED <<a_email, a_codes, a_orderly>> /\ SignIn!Done(c)
      /\ a_password' = [a_password EXCEPT ![a] = TRUE]
  BY DEF SignIn!Identify
<1>2. Now(c, "idle", Nobody, Nobody)
  BY <1>0, <1>1, DoneNow
<1>3. /\ a_password' \in [Accounts -> BOOLEAN]
      /\ \A b \in Accounts : a_password'[b] => a_email[b] # Nobody
  BY <1>0, <1>1 DEF Settled, Tables, Existing
<1>4. a_orderly => (a_email[a] \in Addresses /\ None(a) => a_email[a] = x \/ Renaming(a))
  BY <1>0, FirstFits
<1>5. CASE a_ident[x].holder = Nobody
  <2>1. a_ident' = [a_ident EXCEPT ![x] = [holder |-> a, verified |-> FALSE]]
    BY <1>5 DEF SignIn!Identify
  <2>2. a # Nobody
    BY <1>0, BackOfficeAssumption
  <2> HIDE DEF x, a
  <2> QED
    BY <1>0, <1>1, <1>2, <1>3, <1>4, <1>5, <2>1, <2>2, GiveStep
<1>6. CASE a_ident[x].holder # Nobody
  <2>1. UNCHANGED a_ident
    BY <1>6 DEF SignIn!Identify
  <2>2. Placed' /\ Unique' /\ (a_orderly' => OneEdit' /\ Unmoved')
    BY <1>1, <1>2, <2>1 DEF Settled, Tables, Order, Placed, Homeless, Unique, OneEdit, Unmoved, Now,
                            Other, SignIn!Edits
  <2>3. SignIn!TypeOK'
    BY <1>0, <1>1, <1>2, <1>3, <2>1 DEF SignIn!TypeOK, Now, Requesting, Pcs
  <2>4. Existing'
    BY <1>1, <1>3, <2>1 DEF Settled, Tables, Existing, None
  <2>5. \A b \in Accounts : Renaming(b) => Renaming(b)'
    BY <1>0, <1>1, <1>2 DEF Renaming, Now
  <2>6. a_orderly' => Backed'
    BY <1>1, <2>1, <2>5 DEF Settled, Order, Backed, None
  <2>7. a_orderly' => First'
    BY <1>1, <1>2, <2>1, <2>5 DEF Settled, Tables, Placed, Homeless, Order, First, Now, None
  <2> QED
    BY <2>2, <2>3, <2>4, <2>6, <2>7 DEF Settled, Tables, Order
<1> QED
  BY <1>5, <1>6

LEMMA LinkSettled ==
  ASSUME Settled, NEW c \in Requests, SignIn!Link(c)
  PROVE  Settled'
<1> DEFINE x == a_call[c].x
           a == a_call[c].a
<1>0. /\ SignIn!TypeOK /\ a_call[c].pc = "link" /\ x \in Addresses /\ a \in Accounts
      /\ a_email[a] # Nobody /\ a_orderly \in BOOLEAN /\ a_codes \subseteq Addresses
      /\ a_password \in [Accounts -> BOOLEAN]
  BY DEF Settled, Tables, Placed, Homeless, SignIn!Link, SignIn!At, SignIn!TypeOK
<1>1. UNCHANGED <<a_email, a_password, a_codes, a_orderly>> /\ SignIn!Done(c)
  BY DEF SignIn!Link
<1>2. Now(c, "idle", Nobody, Nobody)
  BY <1>0, <1>1, DoneNow
<1>3. CASE a_ident[x].holder # Nobody
  <2>1. UNCHANGED a_ident
    BY <1>3 DEF SignIn!Link
  <2> QED
    BY <1>0, <1>1, <1>2, <2>1, PauseSettled
<1>4. CASE a_ident[x].holder = Nobody
  <2>1. a_ident' = [a_ident EXCEPT ![x] = [holder |-> a, verified |-> TRUE]]
    BY <1>4 DEF SignIn!Link
  <2>2. a_orderly => (a_email[a] \in Addresses /\ None(a) => a_email[a] = x \/ Renaming(a))
    BY <1>0, FirstFits
  <2>3. a # Nobody /\ \A b \in Accounts : a_password[b] => a_email[b] # Nobody
    BY <1>0, BackOfficeAssumption DEF Settled, Tables, Existing
  <2> HIDE DEF x, a
  <2> QED
    BY <1>0, <1>1, <1>2, <1>4, <2>1, <2>2, <2>3, GiveStep
<1> QED
  BY <1>3, <1>4

LEMMA AddSettled ==
  ASSUME Settled, NEW c \in Requests, SignIn!Add(c)
  PROVE  Settled'
<1> DEFINE x == a_call[c].x
           a == a_call[c].a
           v == a_ident[x].verified
<1>0. /\ SignIn!TypeOK /\ a_call[c].pc = "add" /\ x \in Addresses /\ a \in Accounts
      /\ a_email[a] # Nobody /\ a_orderly \in BOOLEAN /\ a_codes \subseteq Addresses
      /\ a_password \in [Accounts -> BOOLEAN] /\ v \in BOOLEAN
  BY DEF Settled, Tables, Placed, Homeless, SignIn!Add, SignIn!At, SignIn!TypeOK
<1>1. UNCHANGED <<a_email, a_password>> /\ SignIn!Done(c)
  BY DEF SignIn!Add
<1>2. Now(c, "idle", Nobody, Nobody)
  BY <1>0, <1>1, DoneNow
<1>3. CASE a_ident[x].holder \notin {Nobody, a}
  <2>1. UNCHANGED <<a_ident, a_codes, a_orderly>>
    BY <1>3 DEF SignIn!Add
  <2> QED
    BY <1>0, <1>1, <1>2, <2>1, PauseSettled
<1>4. CASE a_ident[x].holder \in {Nobody, a}
  <2>1. /\ a_ident' = [a_ident EXCEPT ![x] = [holder |-> a, verified |-> v]]
        /\ a_codes' = a_codes \cup {x}
        /\ a_orderly' = (a_orderly /\ (a_email[a] \in SignIn!Emails(a) \cup {x, "void"}))
    BY <1>4 DEF SignIn!Add
  <2>2. a_orderly' => a_orderly /\ (a_email[a] \in Addresses /\ None(a) => a_email[a] = x \/ Renaming(a))
    BY <2>1, BackOfficeAssumption DEF SignIn!Emails, None
  <2>3. \A b \in Accounts : a_password[b] => a_email[b] # Nobody
    BY DEF Settled, Tables, Existing
  <2>4. a_ident[x].verified => v
    OBVIOUS
  <2>5. a_codes' \subseteq Addresses /\ a_orderly' \in BOOLEAN
    BY <1>0, <2>1
  <2> HIDE DEF x, a, v
  <2> QED
    BY <1>0, <1>1, <1>2, <1>4, <2>1, <2>2, <2>3, <2>4, <2>5, GiveStep
<1> QED
  BY <1>3, <1>4

LEMMA SetPrimarySettled ==
  ASSUME Settled, NEW c \in Requests, SignIn!SetPrimary(c)
  PROVE  Settled'
<1> DEFINE x == a_call[c].x
           a == a_call[c].a
<1>0. /\ SignIn!TypeOK /\ a_call[c].pc = "primary" /\ x \in Addresses /\ a \in Accounts
      /\ a_email[a] # Nobody /\ a_orderly \in BOOLEAN /\ a_call[c].pc \in SignIn!Edits
  BY DEF Settled, Tables, Placed, Homeless, SignIn!SetPrimary, SignIn!At, SignIn!TypeOK, SignIn!Edits
<1>1. UNCHANGED <<a_ident, a_password, a_codes, a_orderly>> /\ SignIn!Done(c)
  BY DEF SignIn!SetPrimary
<1>2. Now(c, "idle", Nobody, Nobody)
  BY <1>0, <1>1, DoneNow
<1>3. CASE \E b \in Accounts \ {a} : a_email[b] = x
  <2>1. UNCHANGED a_email
    BY <1>3 DEF SignIn!SetPrimary
  <2> QED
    BY <1>0, <1>1, <1>2, <2>1, PauseSettled
<1>4. CASE ~\E b \in Accounts \ {a} : a_email[b] = x
  <2>1. a_email' = [a_email EXCEPT ![a] = x]
    BY <1>4 DEF SignIn!SetPrimary
  <2>2. a_orderly => a_ident[x].holder = a
    BY <1>0 DEF Settled, Order, Unmoved
  <2>3. Column(c, a, x, "idle", Nobody, Nobody)
    BY <1>0, <1>1, <1>2, <1>4, <2>1, <2>2 DEF Column
  <2>4. a \in Accounts /\ x \in Addresses \cup {"void"}
    BY <1>0
  <2> HIDE DEF x, a
  <2> QED
    BY <2>3, <2>4, ColumnStep
<1> QED
  BY <1>3, <1>4

LEMMA RepointSettled ==
  ASSUME Settled, NEW c \in Requests, SignIn!Repoint(c)
  PROVE  Settled'
<1> DEFINE x == a_call[c].x
           a == a_call[c].a
<1>0. /\ SignIn!TypeOK /\ a_call[c].pc = "unlink" /\ x \in Addresses /\ a \in Accounts
      /\ a_email[a] # Nobody /\ a_orderly \in BOOLEAN /\ a_call[c].pc \in SignIn!Edits
  BY DEF Settled, Tables, Placed, Homeless, SignIn!Repoint, SignIn!At, SignIn!TypeOK, SignIn!Edits
<1>1. UNCHANGED <<a_ident, a_password, a_codes, a_orderly>>
  BY DEF SignIn!Repoint
<1>2. PICK y \in Addresses \ {x} :
        /\ SignIn!VerifiedEmails(a) \ {x} # {} => y \in SignIn!VerifiedEmails(a)
        /\ IF \E b \in Accounts \ {a} : a_email[b] = y
           THEN SignIn!Done(c) /\ UNCHANGED a_email
           ELSE a_email' = [a_email EXCEPT ![a] = y] /\ SignIn!Goto(c, "remove", x, a)
  BY DEF SignIn!Repoint
<1>3. CASE \E b \in Accounts \ {a} : a_email[b] = y
  <2>1. Now(c, "idle", Nobody, Nobody)
    BY <1>0, <1>2, <1>3, DoneNow
  <2> QED
    BY <1>0, <1>1, <1>2, <1>3, <2>1, PauseSettled
<1>4. CASE ~\E b \in Accounts \ {a} : a_email[b] = y
  <2>1. a_email' = [a_email EXCEPT ![a] = y]
    BY <1>2, <1>4
  <2>2. Now(c, "remove", x, a)
    BY <1>0, <1>2, <1>4, GotoNow DEF Pcs
  <2>3. a_orderly => Other(a, x)
    BY <1>0 DEF Settled, Order, Unmoved
  <2>4. a_orderly => a_ident[y].holder = a
    BY <1>2, <2>3 DEF Other, SignIn!VerifiedEmails, SignIn!Emails
  <2>5. Column(c, a, y, "remove", x, a)
    BY <1>0, <1>1, <1>4, <2>1, <2>2, <2>4 DEF Column
  <2>6. a \in Accounts /\ y \in Addresses \cup {"void"}
    BY <1>0
  <2> HIDE DEF x, a
  <2> QED
    BY <2>5, <2>6, ColumnStep
<1> QED
  BY <1>3, <1>4

LEMMA RemoveSettled ==
  ASSUME Settled, NEW c \in Requests, SignIn!Remove(c)
  PROVE  Settled'
<1> DEFINE x == a_call[c].x
           a == a_call[c].a
<1>0. /\ SignIn!TypeOK /\ a_call[c].pc = "remove" /\ x \in Addresses /\ a \in Accounts
      /\ a_orderly \in BOOLEAN
  BY DEF Settled, Tables, Placed, Homeless, SignIn!Remove, SignIn!At, SignIn!TypeOK
<1>1. UNCHANGED <<a_email, a_password, a_codes, a_orderly>> /\ SignIn!Done(c)
  BY DEF SignIn!Remove
<1>2. Now(c, "idle", Nobody, Nobody)
  BY <1>0, <1>1, DoneNow
<1>3. CASE a_ident[x].holder # a
  <2>1. UNCHANGED a_ident
    BY <1>3 DEF SignIn!Remove
  <2> QED
    BY <1>0, <1>1, <1>2, <2>1, PauseSettled
<1>4. CASE a_ident[x].holder = a
  <2>1. a_ident' = [a_ident EXCEPT ![x] = SignIn!Free] /\ a_call[c].x = x /\ a_call[c].a = a
    BY <1>4 DEF SignIn!Remove
  <2> HIDE DEF x, a
  <2> QED
    BY <1>0, <1>1, <1>2, <1>4, <2>1, DropStep
<1> QED
  BY <1>3, <1>4

LEMMA CrashSettled ==
  ASSUME Settled, NEW c \in Requests, SignIn!Crash(c)
  PROVE  Settled'
<1>1. /\ SignIn!Done(c) /\ a_orderly' = (a_orderly /\ a_call[c].pc # "rename")
      /\ UNCHANGED <<a_email, a_ident, a_password, a_codes>>
  BY DEF SignIn!Crash
<1>2. Now(c, "idle", Nobody, Nobody) /\ a_orderly \in BOOLEAN
  BY <1>1, DoneNow DEF Settled, Tables, SignIn!TypeOK
<1> QED
  BY <1>1, <1>2, PauseSettled

\* What no request under way does: an account that an order or a login brings, a
\* password that is reset, and an address that is confirmed.
LEMMA ArriveSettled ==
  ASSUME Settled, NEW x \in Addresses, SignIn!Arrive(x)
  PROVE  Settled'
<1>1. PICK n \in SignIn!Unused : a_email' = [a_email EXCEPT ![n] = x]
  BY DEF SignIn!Arrive
<1>2. /\ n \in Accounts /\ a_email[n] = Nobody /\ \A b \in Accounts : a_email[b] # x
      /\ UNCHANGED <<a_ident, a_password, a_codes, a_call, a_orderly>>
  BY DEF SignIn!Arrive, SignIn!Unused, SignIn!Taken
<1> QED
  BY <1>1, <1>2, NewStep

LEMMA ResetSettled ==
  ASSUME Settled, NEW x \in Addresses, SignIn!ResetPassword(x)
  PROVE  Settled'
<1> DEFINE h == SignIn!Resolves(x)
<1>1. /\ a_password' = [a_password EXCEPT ![h] = TRUE] /\ h # Nobody
      /\ UNCHANGED <<a_email, a_ident, a_codes, a_call, a_orderly>>
  BY DEF SignIn!ResetPassword
<1>2. h \in Accounts => a_email[h] # Nobody
  <2>1. CASE a_ident[x].verified
    BY <2>1 DEF SignIn!Resolves, Settled, Tables, Existing, None
  <2>2. CASE ~a_ident[x].verified
    <3>1. \E a \in Accounts : a_email[a] = x
      BY <1>1, <2>2 DEF SignIn!Resolves
    <3>2. h = CHOOSE a \in Accounts : a_email[a] = x
      BY <1>1, <2>2 DEF SignIn!Resolves
    <3>3. a_email[h] = x
      BY <3>1, <3>2
    <3> QED
      BY <3>3, BackOfficeAssumption
  <2> QED
    BY <2>1, <2>2
<1> HIDE DEF h
<1>3. SignIn!TypeOK' /\ Existing'
  BY <1>1, <1>2 DEF Settled, Tables, SignIn!TypeOK, Existing, None
<1>4. Placed' /\ Unique' /\ (a_orderly' => Order')
  BY <1>1 DEF Settled, Tables, Placed, Unique, Order, OneEdit, Unmoved, Backed, First, Renaming,
              None, Other
<1> QED
  BY <1>3, <1>4 DEF Settled, Tables

LEMMA ConfirmSettled ==
  ASSUME Settled, NEW x \in Addresses, NEW a \in Accounts, SignIn!Confirm(a, x)
  PROVE  Settled'
<1>1. /\ a_ident' = [a_ident EXCEPT ![x] = [holder |-> a, verified |-> TRUE]]
      /\ UNCHANGED <<a_email, a_password, a_call, a_orderly>> /\ a_codes' = a_codes \ {x}
      /\ a_ident[x].holder = a
  BY DEF SignIn!Confirm, SignIn!Emails
<1>2. a_codes' \subseteq Addresses
  BY <1>1 DEF Settled, Tables, SignIn!TypeOK
<1> QED
  BY <1>1, <1>2, ProveStep

LEMMA SettledStep == Settled /\ [SignIn!Next]_avars => Settled'
<1> SUFFICES ASSUME Settled, [SignIn!Next]_avars PROVE Settled'
  OBVIOUS
<1>1. ASSUME NEW c \in Requests, SignIn!Begin(c) PROVE Settled'
  BY <1>1, BeginSettled
<1>2. ASSUME NEW c \in Requests, SignIn!Step(c) PROVE Settled'
  BY <1>2, CreateSettled, IdentifySettled, FindSettled, PromoteSettled, ReadScalarSettled, VoidSettled, RenameSettled, UpsertSettled,
     LinkSettled, AddSettled, SetPrimarySettled, RepointSettled, RemoveSettled, CrashSettled
  DEF SignIn!Step
<1>3. ASSUME NEW x \in Addresses,
             SignIn!Arrive(x) \/ SignIn!ResetPassword(x) \/ \E a \in Accounts : SignIn!Confirm(a, x)
      PROVE  Settled'
  BY <1>3, ArriveSettled, ResetSettled, ConfirmSettled
<1>4. CASE UNCHANGED avars
  BY <1>4 DEF avars, Settled, Tables, Order, SignIn!TypeOK, Placed, Existing, Unique, OneEdit, Unmoved,
              Backed, First, Renaming, None, Other
<1> QED
  BY <1>1, <1>2, <1>3, <1>4 DEF SignIn!Next

-----------------------------------------------------------------------------
(* Cache: the invariant                                                    *)

\* A write that has yet to invalidate is one of those committed, and so is what a
\* generation owes its readers.
Committed ==
  /\ \A w \in Writers : k_write[w].version <= k_version
  /\ \A g \in Shared!Generations : k_owed[g] <= k_version

\* Nothing is stored, and no reader is at work, under a generation yet to come; what
\* is stored, and what a reader is about to store or to return, is fresh enough.
EntriesFresh ==
  \A g \in Shared!Generations :
    k_entry[g] # Shared!Missing => g <= k_gen /\ k_entry[g] >= k_owed[g]
ReadsBehind == \A r \in Readers : k_read[r].gen <= k_gen
ReadsFresh ==
  \A r \in Readers : k_read[r].pc \in {"set", "done"} => k_read[r].value >= k_owed[k_read[r].gen]

CacheFresh == k_sound => EntriesFresh /\ ReadsBehind /\ ReadsFresh

Cached == Shared!TypeOK /\ Committed /\ CacheFresh

ReadType ==
  [pc : {"idle", "seed", "get", "compute", "bare", "set", "done"},
   gen : Shared!Generations, value : Shared!Versions \cup {Shared!Missing}]

-----------------------------------------------------------------------------
(* Cache: what a step of a reader does                                     *)

LEMMA CacheRanges ==
  ASSUME MaxWrites \in Nat, Shared!TypeOK
  PROVE  /\ k_version \in Nat /\ k_gen \in Nat
         /\ \A g \in Shared!Generations : g \in Nat /\ k_owed[g] \in Nat
         /\ \A g \in Shared!Generations : k_entry[g] \in Int
         /\ \A r \in Readers : k_read[r] \in ReadType
         /\ \A r \in Readers : k_read[r].gen \in Shared!Generations /\ k_read[r].value \in Int
         /\ \A w \in Writers : k_write[w].version \in Nat
  BY DEF Shared!TypeOK, Shared!Generations, Shared!Versions, Shared!Missing, ReadType

LEMMA CachedInit ==
  ASSUME MaxWrites \in Nat, Shared!Init
  PROVE  Cached
  BY DEF Shared!Init, Cached, Shared!TypeOK, Committed, CacheFresh, EntriesFresh, ReadsBehind,
         ReadsFresh, Shared!Idle, Shared!Resting, Shared!Generations, Shared!Versions, Shared!Missing

\* A step of a reader that moves on with a generation not yet to come and, when it
\* has a value, with a fresh one.
LEMMA ReaderStep ==
  ASSUME MaxWrites \in Nat, Cached, NEW r \in Readers, NEW x \in ReadType,
         k_read' = [k_read EXCEPT ![r] = x],
         UNCHANGED <<k_version, k_gen, k_entry, k_write, k_owed>>,
         k_sound' \in BOOLEAN, k_sound' => k_sound,
         k_sound => x.gen <= k_gen,
         k_sound => (x.pc \in {"set", "done"} => x.value >= k_owed[x.gen])
  PROVE  Cached'
<1>1. k_read'[r] = x /\ \A s \in Readers : s # r => k_read'[s] = k_read[s]
  BY DEF Cached, Shared!TypeOK
<1>2. Shared!TypeOK'
  BY DEF Cached, Shared!TypeOK, ReadType
<1>3. Committed'
  BY DEF Cached, Committed
<1>4. ASSUME k_sound' PROVE EntriesFresh' /\ ReadsBehind' /\ ReadsFresh'
  <2>1. EntriesFresh /\ ReadsBehind /\ ReadsFresh
    BY <1>4 DEF Cached, CacheFresh
  <2>2. EntriesFresh'
    BY <2>1 DEF EntriesFresh
  <2>3. ReadsBehind'
    BY <1>1, <1>4, <2>1 DEF ReadsBehind
  <2>4. ReadsFresh'
    BY <1>1, <1>4, <2>1 DEF ReadsFresh
  <2> QED
    BY <2>2, <2>3, <2>4
<1> QED
  BY <1>2, <1>3, <1>4 DEF Cached, CacheFresh

-----------------------------------------------------------------------------
(* Cache: cached()                                                         *)

LEMMA BeginCached ==
  ASSUME MaxWrites \in Nat, Cached, NEW r \in Readers, Shared!Begin(r)
  PROVE  Cached'
<1>1. CASE /\ k_read' = [k_read EXCEPT ![r] = [pc |-> "get", gen |-> 0, value |-> Shared!Missing]]
           /\ k_sound' = FALSE
  <2> DEFINE x == [pc |-> "get", gen |-> 0, value |-> Shared!Missing]
  <2>1. x \in ReadType /\ x.gen = 0 /\ x.pc = "get"
    BY DEF ReadType, Shared!Generations
  <2>2. 0 <= k_gen
    BY CacheRanges DEF Cached
  <2>3. /\ UNCHANGED <<k_version, k_gen, k_entry, k_write, k_owed>>
        /\ k_read' = [k_read EXCEPT ![r] = x]
        /\ k_sound' \in BOOLEAN /\ (k_sound' => k_sound)
    BY <1>1 DEF Shared!Begin
  <2> HIDE DEF x
  <2> QED
    BY <2>1, <2>2, <2>3, ReaderStep
<1>2. ASSUME NEW pc \in {"seed", "get", "bare"},
             k_read' = [k_read EXCEPT ![r] = [pc |-> pc, gen |-> k_gen, value |-> Shared!Missing]],
             k_sound' = k_sound
      PROVE  Cached'
  <2> DEFINE x == [pc |-> pc, gen |-> k_gen, value |-> Shared!Missing]
  <2>1. x \in ReadType /\ x.gen <= k_gen /\ x.pc \notin {"set", "done"}
    BY CacheRanges DEF ReadType, Cached, Shared!TypeOK
  <2> QED
    BY <1>2, <2>1, ReaderStep DEF Shared!Begin, Cached, Shared!TypeOK
<1> QED
  BY <1>1, <1>2 DEF Shared!Begin

LEMMA GetCached ==
  ASSUME MaxWrites \in Nat, Cached, NEW r \in Readers, Shared!Get(r)
  PROVE  Cached'
<1> DEFINE hit == k_entry[k_read[r].gen]
           x == [k_read[r] EXCEPT !.pc = IF hit = Shared!Missing THEN "compute" ELSE "done",
                                  !.value = hit]
           y == [k_read[r] EXCEPT !.pc = "bare"]
<1>1. k_read[r] \in ReadType /\ k_read[r].gen \in Shared!Generations
  BY CacheRanges DEF Cached
<1>2. hit \in Shared!Versions \cup {Shared!Missing}
  BY <1>1 DEF Cached, Shared!TypeOK
<1>3. x \in ReadType /\ x.gen = k_read[r].gen /\ x.value = hit
        /\ x.pc = (IF hit = Shared!Missing THEN "compute" ELSE "done")
  BY <1>1, <1>2 DEF ReadType
<1>4. y \in ReadType /\ y.gen = k_read[r].gen /\ y.pc = "bare"
  BY <1>1 DEF ReadType
<1>5. k_sound => k_read[r].gen <= k_gen
  BY DEF Cached, CacheFresh, ReadsBehind
<1>6. k_sound /\ hit # Shared!Missing => hit >= k_owed[k_read[r].gen]
  BY <1>1 DEF Cached, CacheFresh, EntriesFresh
<1>7. UNCHANGED <<k_version, k_gen, k_entry, k_write, k_owed, k_sound>>
  BY DEF Shared!Get
<1>8. k_sound' \in BOOLEAN /\ (k_sound' => k_sound)
  BY <1>7 DEF Cached, Shared!TypeOK
<1>9. CASE k_read' = [k_read EXCEPT ![r] = x]
  <2>1. k_sound => (x.pc \in {"set", "done"} => x.value >= k_owed[x.gen])
    BY <1>3, <1>6
  <2>2. k_sound => x.gen <= k_gen
    BY <1>3, <1>5
  <2> HIDE DEF x
  <2> QED
    BY <1>9, <2>1, <2>2, <1>3, <1>7, <1>8, ReaderStep
<1>10. CASE k_read' = [k_read EXCEPT ![r] = y]
  BY <1>10, <1>4, <1>5, <1>7, <1>8, ReaderStep
<1>11. k_read' = [k_read EXCEPT ![r] = x] \/ k_read' = [k_read EXCEPT ![r] = y]
  BY DEF Shared!Get, Shared!Goto
<1> QED
  BY <1>9, <1>10, <1>11

LEMMA ComputeCached ==
  ASSUME MaxWrites \in Nat, Cached, NEW r \in Readers, Shared!Compute(r)
  PROVE  Cached'
<1> DEFINE x == [k_read[r] EXCEPT !.pc = IF k_read[r].pc = "bare" THEN "done" ELSE "set",
                                  !.value = k_version]
<1>1. k_read[r] \in ReadType /\ k_read[r].gen \in Shared!Generations
  BY CacheRanges DEF Cached
<1>2. x \in ReadType /\ x.gen = k_read[r].gen /\ x.value = k_version
  BY <1>1 DEF ReadType, Cached, Shared!TypeOK
<1>3. k_sound => k_read[r].gen <= k_gen
  BY DEF Cached, CacheFresh, ReadsBehind
<1>4. k_version >= k_owed[k_read[r].gen]
  BY <1>1, CacheRanges DEF Cached, Committed
<1>5. /\ k_read' = [k_read EXCEPT ![r] = x]
      /\ UNCHANGED <<k_version, k_gen, k_entry, k_write, k_owed, k_sound>>
  BY DEF Shared!Compute
<1>6. k_sound' \in BOOLEAN /\ (k_sound' => k_sound)
  BY <1>5 DEF Cached, Shared!TypeOK
<1> QED
  BY <1>2, <1>3, <1>4, <1>5, <1>6, ReaderStep

LEMMA ReturnCached ==
  ASSUME MaxWrites \in Nat, Cached, NEW r \in Readers, Shared!Return(r)
  PROVE  Cached'
<1>1. Shared!Idle \in ReadType /\ Shared!Idle.gen = 0 /\ Shared!Idle.pc = "idle"
  BY DEF Shared!Idle, ReadType, Shared!Generations
<1>2. Shared!Idle.gen <= k_gen
  BY <1>1, CacheRanges DEF Cached
<1> QED
  BY <1>1, <1>2, ReaderStep DEF Shared!Return, Cached, Shared!TypeOK

\* What is late is stored under the generation it was read for.
LEMMA StoreCached ==
  ASSUME MaxWrites \in Nat, Cached, NEW r \in Readers, Shared!Store(r)
  PROVE  Cached'
<1> DEFINE x == [k_read[r] EXCEPT !.pc = "done"]
<1>1. k_read[r] \in ReadType /\ k_read[r].gen \in Shared!Generations
  BY CacheRanges DEF Cached
<1>2. x \in ReadType /\ x.gen = k_read[r].gen /\ x.value = k_read[r].value
  BY <1>1 DEF ReadType
<1>3. /\ k_read[r].pc = "set" /\ k_read' = [k_read EXCEPT ![r] = x]
      /\ UNCHANGED <<k_version, k_gen, k_write, k_owed, k_sound>>
  BY DEF Shared!Store, Shared!Goto
<1>4. /\ k_read'[r] = x
      /\ \A s \in Readers : s # r => k_read'[s] = k_read[s]
  BY <1>3 DEF Cached, Shared!TypeOK
<1>5. \/ k_entry' = [k_entry EXCEPT ![k_read[r].gen] = k_read[r].value]
      \/ k_entry' = k_entry
  BY DEF Shared!Store
<1>6. Shared!TypeOK'
  <2>1. k_entry' \in [Shared!Generations -> Shared!Versions \cup {Shared!Missing}]
    BY <1>1, <1>5 DEF Cached, Shared!TypeOK, ReadType
  <2>2. k_read' \in [Readers -> ReadType]
    BY <1>2, <1>3 DEF Cached, Shared!TypeOK, ReadType
  <2> QED
    BY <1>3, <2>1, <2>2 DEF Cached, Shared!TypeOK, ReadType
<1>7. Committed'
  BY <1>3 DEF Cached, Committed
<1>8. ASSUME k_sound' PROVE EntriesFresh' /\ ReadsBehind' /\ ReadsFresh'
  <2>1. EntriesFresh /\ ReadsBehind /\ ReadsFresh
    BY <1>3, <1>8 DEF Cached, CacheFresh
  <2>2. k_read[r].gen <= k_gen /\ k_read[r].value >= k_owed[k_read[r].gen]
    BY <1>3, <2>1 DEF ReadsBehind, ReadsFresh
  <2>3. \A g \in Shared!Generations :
          k_entry'[g] = k_entry[g] \/ (g = k_read[r].gen /\ k_entry'[g] = k_read[r].value)
    BY <1>5 DEF Cached, Shared!TypeOK
  <2>4. EntriesFresh'
    BY <1>3, <2>1, <2>2, <2>3 DEF EntriesFresh
  <2>5. ReadsBehind'
    BY <1>2, <1>3, <1>4, <2>1 DEF ReadsBehind
  <2>6. ReadsFresh'
    BY <1>2, <1>3, <1>4, <2>1, <2>2 DEF ReadsFresh
  <2> QED
    BY <2>4, <2>5, <2>6
<1> QED
  BY <1>6, <1>7, <1>8 DEF Cached, CacheFresh

LEMMA ExpireCached ==
  ASSUME MaxWrites \in Nat, Cached, NEW g \in Shared!Generations, Shared!Expire(g)
  PROVE  Cached'
<1>1. \A h \in Shared!Generations : k_entry'[h] = k_entry[h] \/ k_entry'[h] = Shared!Missing
  BY DEF Shared!Expire, Cached, Shared!TypeOK
<1>2. UNCHANGED <<k_version, k_gen, k_read, k_write, k_owed, k_sound>>
  BY DEF Shared!Expire
<1>3. Shared!TypeOK'
  BY DEF Shared!Expire, Cached, Shared!TypeOK
<1>4. Committed'
  BY <1>2 DEF Cached, Committed
<1>5. ASSUME k_sound' PROVE EntriesFresh' /\ ReadsBehind' /\ ReadsFresh'
  <2>1. EntriesFresh /\ ReadsBehind /\ ReadsFresh
    BY <1>2, <1>5 DEF Cached, CacheFresh
  <2>2. EntriesFresh'
    BY <1>1, <1>2, <2>1 DEF EntriesFresh
  <2> QED
    BY <1>2, <2>1, <2>2 DEF ReadsBehind, ReadsFresh
<1> QED
  BY <1>3, <1>4, <1>5 DEF Cached, CacheFresh

-----------------------------------------------------------------------------
(* Cache: the generation moves                                             *)

\* What is stored and held stays fresh when a generation that nothing was stored or
\* read under yet begins.
LEMMA NewGeneration ==
  ASSUME MaxWrites \in Nat, Cached, k_sound,
         NEW n \in Shared!Generations, k_gen < n, NEW v \in Shared!Versions,
         k_gen' = n, k_owed' = [k_owed EXCEPT ![n] = v], UNCHANGED <<k_entry, k_read>>
  PROVE  EntriesFresh' /\ ReadsBehind' /\ ReadsFresh'
<1>1. EntriesFresh /\ ReadsBehind /\ ReadsFresh
  BY DEF Cached, CacheFresh
<1>2. \A g \in Shared!Generations : g # n => k_owed'[g] = k_owed[g]
  BY DEF Cached, Shared!TypeOK
<1>3. n \in Nat /\ k_gen \in Nat
  BY CacheRanges DEF Cached
<1>4. EntriesFresh'
  <2> SUFFICES ASSUME NEW g \in Shared!Generations, k_entry[g] # Shared!Missing
               PROVE  g <= k_gen' /\ k_entry[g] >= k_owed'[g]
    BY DEF EntriesFresh
  <2>1. g <= k_gen /\ k_entry[g] >= k_owed[g] /\ g \in Nat
    BY <1>1, CacheRanges DEF EntriesFresh, Cached
  <2>2. g # n
    BY <1>3, <2>1
  <2> QED
    BY <1>2, <1>3, <2>1, <2>2
<1>5. ReadsBehind'
  <2> SUFFICES ASSUME NEW r \in Readers
               PROVE  k_read[r].gen <= n
    BY DEF ReadsBehind
  <2>1. k_read[r].gen <= k_gen /\ k_read[r].gen \in Nat
    BY <1>1, CacheRanges DEF ReadsBehind, Cached
  <2> QED
    BY <1>3, <2>1
<1>6. ReadsFresh'
  <2> SUFFICES ASSUME NEW r \in Readers, k_read[r].pc \in {"set", "done"}
               PROVE  k_read[r].value >= k_owed'[k_read[r].gen]
    BY DEF ReadsFresh
  <2>1. /\ k_read[r].gen <= k_gen /\ k_read[r].gen \in Shared!Generations /\ k_read[r].gen \in Nat
        /\ k_read[r].value >= k_owed[k_read[r].gen]
    BY <1>1, CacheRanges DEF ReadsBehind, ReadsFresh, Cached
  <2>2. k_read[r].gen # n
    BY <1>3, <2>1
  <2> QED
    BY <1>2, <2>1, <2>2
<1> QED
  BY <1>4, <1>5, <1>6

LEMMA SeedCached ==
  ASSUME MaxWrites \in Nat, Cached, NEW r \in Readers, Shared!Seed(r)
  PROVE  Cached'
<1> DEFINE x == [k_read[r] EXCEPT !.pc = "get", !.gen = 1]
<1>1. 1 \in Shared!Generations /\ 0 \in Shared!Generations /\ k_read[r] \in ReadType
  BY CacheRanges DEF Shared!Generations, Cached
<1>2. x \in ReadType /\ x.gen = 1 /\ x.pc = "get"
  BY <1>1 DEF ReadType
<1>3. k_read' = [k_read EXCEPT ![r] = x] /\ k_gen' = 1 /\ UNCHANGED <<k_version, k_entry, k_write>>
  BY DEF Shared!Seed
<1>4. /\ k_read'[r] = x
      /\ \A s \in Readers : s # r => k_read'[s] = k_read[s]
  BY <1>3 DEF Cached, Shared!TypeOK
<1>5. /\ k_owed' \in [Shared!Generations -> Shared!Versions]
      /\ k_sound' \in BOOLEAN /\ (k_sound' => k_sound /\ k_gen <= 1)
  BY <1>1 DEF Shared!Seed, Cached, Shared!TypeOK
<1>6. Shared!TypeOK'
  <2>1. k_read' \in [Readers -> ReadType]
    BY <1>2, <1>3 DEF Cached, Shared!TypeOK, ReadType
  <2> QED
    BY <1>1, <1>3, <1>5, <2>1 DEF Cached, Shared!TypeOK, ReadType
<1>7. Committed'
  <2>1. \A g \in Shared!Generations : k_owed'[g] = k_owed[g] \/ k_owed'[g] = k_owed[0]
    BY <1>1 DEF Shared!Seed, Cached, Shared!TypeOK
  <2> QED
    BY <1>1, <1>3, <2>1 DEF Cached, Committed
<1>8. ASSUME k_sound' PROVE EntriesFresh' /\ ReadsBehind' /\ ReadsFresh'
  <2>1. k_sound /\ EntriesFresh /\ ReadsBehind /\ ReadsFresh /\ k_gen \in {0, 1}
    BY <1>5, <1>8, CacheRanges DEF Cached, CacheFresh
  <2>2. CASE k_gen = 1
    <3>1. k_owed' = k_owed /\ k_gen' = k_gen
      BY <1>3, <2>2 DEF Shared!Seed
    <3>2. EntriesFresh'
      BY <1>3, <2>1, <3>1 DEF EntriesFresh
    <3>3. ReadsBehind'
      BY <1>2, <1>3, <1>4, <2>1, <3>1 DEF ReadsBehind
    <3>4. ReadsFresh'
      BY <1>2, <1>4, <2>1, <3>1 DEF ReadsFresh
    <3> QED
      BY <3>2, <3>3, <3>4
  <2>3. CASE k_gen = 0
    <3>1. k_owed' = [k_owed EXCEPT ![1] = k_owed[0]]
      BY <2>3 DEF Shared!Seed
    <3>2. \A g \in Shared!Generations : g # 1 => k_owed'[g] = k_owed[g]
      BY <3>1 DEF Cached, Shared!TypeOK
    <3>3. \A g \in Shared!Generations : g <= k_gen => g # 1
      BY <2>3
    <3>4. EntriesFresh'
      BY <1>3, <2>1, <2>3, <3>2, <3>3, CacheRanges DEF EntriesFresh, Cached
    <3>5. ReadsBehind'
      BY <1>2, <1>3, <1>4, <2>1, <2>3, CacheRanges DEF ReadsBehind, Cached
    <3>6. ReadsFresh'
      <4> SUFFICES ASSUME NEW s \in Readers, k_read'[s].pc \in {"set", "done"}
                   PROVE  k_read'[s].value >= k_owed'[k_read'[s].gen]
        BY DEF ReadsFresh
      <4>1. s # r /\ k_read'[s] = k_read[s]
        BY <1>2, <1>4
      <4>2. /\ k_read[s].gen <= k_gen /\ k_read[s].gen \in Shared!Generations
            /\ k_read[s].value >= k_owed[k_read[s].gen]
        BY <2>1, <4>1, CacheRanges DEF ReadsBehind, ReadsFresh, Cached
      <4> QED
        BY <3>2, <3>3, <4>1, <4>2
    <3> QED
      BY <3>4, <3>5, <3>6
  <2> QED
    BY <2>1, <2>2, <2>3
<1> QED
  BY <1>6, <1>7, <1>8 DEF Cached, CacheFresh

-----------------------------------------------------------------------------
(* Cache: a write                                                          *)

LEMMA CommitCached ==
  ASSUME MaxWrites \in Nat, Cached, NEW w \in Writers, Shared!Commit(w) \/ Shared!WriteRaw(w)
  PROVE  Cached'
<1>1. k_version \in Nat /\ k_version' = k_version + 1 /\ k_version + 1 \in Shared!Versions
  BY CacheRanges DEF Shared!Commit, Shared!WriteRaw, Cached, Shared!Versions
<1>2. UNCHANGED <<k_gen, k_entry, k_read, k_owed>>
  BY DEF Shared!Commit, Shared!WriteRaw
<1>3. \/ k_write' = [k_write EXCEPT ![w] = [pc |-> "invalidate", version |-> k_version + 1]]
      \/ k_write' = k_write
  BY DEF Shared!Commit, Shared!WriteRaw
<1>4. k_sound' \in BOOLEAN /\ (k_sound' => k_sound)
  <2>1. CASE Shared!Commit(w)
    BY <2>1 DEF Shared!Commit, Cached, Shared!TypeOK
  <2>2. CASE Shared!WriteRaw(w)
    BY <2>2 DEF Shared!WriteRaw
  <2> QED
    BY <2>1, <2>2
<1>5. Shared!TypeOK'
  BY <1>1, <1>2, <1>3, <1>4 DEF Cached, Shared!TypeOK
<1>6. Committed'
  <2>1. \A u \in Writers :
          k_write'[u].version = k_version + 1 \/ k_write'[u].version = k_write[u].version
    BY <1>3 DEF Cached, Shared!TypeOK
  <2>2. \A u \in Writers : k_write[u].version \in Nat /\ k_write[u].version <= k_version
    BY CacheRanges DEF Cached, Committed
  <2>3. \A g \in Shared!Generations : k_owed[g] \in Nat /\ k_owed[g] <= k_version
    BY CacheRanges DEF Cached, Committed
  <2>4. \A u \in Writers : k_write'[u].version <= k_version'
    BY <1>1, <2>1, <2>2
  <2>5. \A g \in Shared!Generations : k_owed'[g] <= k_version'
    BY <1>1, <1>2, <2>3
  <2> QED
    BY <2>4, <2>5 DEF Committed
<1>7. ASSUME k_sound' PROVE EntriesFresh' /\ ReadsBehind' /\ ReadsFresh'
  BY <1>2, <1>4, <1>7 DEF Cached, CacheFresh, EntriesFresh, ReadsBehind, ReadsFresh
<1> QED
  BY <1>5, <1>6, <1>7 DEF Cached, CacheFresh

LEMMA InvalidateCached ==
  ASSUME MaxWrites \in Nat, Cached, NEW w \in Writers, Shared!Invalidate(w)
  PROVE  Cached'
<1>1. /\ k_write' = [k_write EXCEPT ![w] = Shared!Resting]
      /\ UNCHANGED <<k_version, k_entry, k_read>>
  BY DEF Shared!Invalidate
<1>2. k_write' \in [Writers -> [pc : {"idle", "invalidate"}, version : Shared!Versions]]
  BY <1>1 DEF Cached, Shared!TypeOK, Shared!Resting, Shared!Versions
<1>3. \A u \in Writers : k_write'[u].version <= k_version'
  BY <1>1, CacheRanges DEF Cached, Shared!TypeOK, Committed, Shared!Resting
<1>4. CASE k_sound' = FALSE /\ UNCHANGED <<k_gen, k_owed>>
  BY <1>1, <1>2, <1>3, <1>4 DEF Cached, Shared!TypeOK, Committed, CacheFresh
<1>5. CASE /\ k_gen <= MaxWrites /\ k_gen' = k_gen + 1
           /\ k_owed' = [k_owed EXCEPT ![k_gen + 1] = Shared!Later(k_owed[k_gen], k_write[w].version)]
           /\ k_sound' = k_sound
  <2> DEFINE n == k_gen + 1
             v == Shared!Later(k_owed[k_gen], k_write[w].version)
  <2>1. n \in Shared!Generations /\ k_gen < n /\ k_gen \in Shared!Generations
    BY <1>5, CacheRanges DEF Cached, Shared!Generations
  <2>2. v \in Shared!Versions /\ v <= k_version
    BY <2>1 DEF Shared!Later, Cached, Shared!TypeOK, Committed
  <2>3. Shared!TypeOK'
    BY <1>1, <1>2, <1>5, <2>1, <2>2 DEF Cached, Shared!TypeOK
  <2>4. \A g \in Shared!Generations : k_owed'[g] = k_owed[g] \/ k_owed'[g] = v
    BY <1>5 DEF Cached, Shared!TypeOK
  <2>5. Committed'
    BY <1>1, <1>3, <2>2, <2>4 DEF Cached, Committed
  <2>6. k_sound => EntriesFresh' /\ ReadsBehind' /\ ReadsFresh'
    BY <1>1, <1>5, <2>1, <2>2, NewGeneration
  <2> QED
    BY <1>5, <2>3, <2>5, <2>6 DEF Cached, CacheFresh
<1> QED
  BY <1>4, <1>5 DEF Shared!Invalidate

LEMMA CachedStep ==
  ASSUME MaxWrites \in Nat, Cached, [Shared!Next]_kvars
  PROVE  Cached'
<1>1. CASE UNCHANGED kvars
  BY <1>1 DEF kvars, Cached, Shared!TypeOK, Committed, CacheFresh, EntriesFresh, ReadsBehind, ReadsFresh
<1>2. ASSUME NEW r \in Readers,
             \/ Shared!Begin(r) \/ Shared!Seed(r) \/ Shared!Get(r)
             \/ Shared!Compute(r) \/ Shared!Store(r) \/ Shared!Return(r)
      PROVE  Cached'
  BY <1>2, BeginCached, SeedCached, GetCached, ComputeCached, StoreCached, ReturnCached
<1>3. ASSUME NEW g \in Shared!Generations, Shared!Expire(g)
      PROVE  Cached'
  BY <1>3, ExpireCached
<1>4. ASSUME NEW w \in Writers, Shared!Commit(w) \/ Shared!Invalidate(w) \/ Shared!WriteRaw(w)
      PROVE  Cached'
  BY <1>4, CommitCached, InvalidateCached
<1> QED
  BY <1>1, <1>2, <1>3, <1>4 DEF Shared!Next

-----------------------------------------------------------------------------
(* The four together                                                       *)

\* The theorems of Membership, of the variables that it has here.
Members ==
  INSTANCE MembershipProofs WITH
    Setups <- Links,
    setup <- m_setup, group <- m_group, signups <- m_signups, row <- m_row, now <- m_now,
    visit <- m_visit, op <- m_op, sweep <- m_sweep, due <- m_due, joined <- m_joined,
    granted <- m_granted

\* Each part behaves as it does alone: the steps of the other three are stutters to it.
THEOREM CampaignIsAPart == BackOfficeSpec => Spec
<1>1. BackOfficeInit => Init
  BY DEF BackOfficeInit
<1>2. [BackOfficeNext]_all => [Next]_vars
  BY DEF BackOfficeNext, CampaignMoves, AccountsMove, MembersMove, CacheMoves, all
<1> QED
  BY <1>1, <1>2, PTL DEF BackOfficeSpec, Spec

LEMMA AccountsInvariant == BackOfficeSpec => []Settled
<1>1. BackOfficeInit => Settled
  BY SettledInit DEF BackOfficeInit
<1>2. Settled /\ [BackOfficeNext]_all => Settled'
  <2>1. [BackOfficeNext]_all => [SignIn!Next]_avars
    BY DEF BackOfficeNext, CampaignMoves, AccountsMove, MembersMove, CacheMoves, all
  <2> QED
    BY <2>1, SettledStep
<1> QED
  BY <1>1, <1>2, PTL DEF BackOfficeSpec

LEMMA GroupBegins == Group!Init => Members!Init
  BY Zenon DEF Group!Init, Members!Init, Group!Never, Members!Never, Group!NoVisit,
               Members!NoVisit, Group!NoOp, Members!NoOp, Group!NoSweep, Members!NoSweep

LEMMA GroupGoesOn == Group!Next => Members!Next
  BY Zenon DEF Group!Next, Members!Next,
      Group!Never, Members!Never, Group!Late, Members!Late, Group!Until, Members!Until,
      Group!DefaultExpiry, Members!DefaultExpiry, Group!Over, Members!Over, Group!Gone,
      Members!Gone, Group!Made, Members!Made, Group!NoVisit, Members!NoVisit, Group!NoOp,
      Members!NoOp, Group!NoSweep, Members!NoSweep, Group!Member, Members!Member, Group!Write,
      Members!Write, Group!Drop, Members!Drop, Group!Live, Members!Live, Group!Visit, Members!Visit,
      Group!Leave, Members!Leave, Group!HasRoom, Members!HasRoom, Group!Reserve, Members!Reserve,
      Group!Join, Members!Join, Group!Assign, Members!Assign, Group!Revoke, Members!Revoke,
      Group!Reset, Members!Reset, Group!Ask, Members!Ask, Group!Still, Members!Still, Group!Approve,
      Members!Approve, Group!Extend, Members!Extend, Group!Prolong, Members!Prolong, Group!Delete,
      Members!Delete, Group!StartSweep, Members!StartSweep, Group!SweepGroup, Members!SweepGroup,
      Group!SweepMembers, Members!SweepMembers, Group!StartReminders, Members!StartReminders,
      Group!Remind, Members!Remind, Group!Tick, Members!Tick

LEMMA MembersAreAPart == BackOfficeSpec => Members!Spec
<1>1. BackOfficeInit => Members!Init
  BY GroupBegins DEF BackOfficeInit
<1>2. [BackOfficeNext]_all => [Group!Next]_mvars
  BY DEF BackOfficeNext, CampaignMoves, AccountsMove, MembersMove, CacheMoves, all
<1>3. [BackOfficeNext]_all => [Members!Next]_(Members!vars)
  BY <1>2, GroupGoesOn DEF mvars, Members!vars
<1> QED
  BY <1>1, <1>3, PTL DEF BackOfficeSpec, Members!Spec

LEMMA MembersInvariant == BackOfficeSpec => [](Members!Inv /\ Members!SignupsKept)
<1>1. Members!Sensible
  BY BackOfficeAssumption DEF Members!Sensible, Members!IsFiniteSet, IsFiniteSet
<1>2. Members!Spec => []Members!Inv
  BY <1>1, Members!MembershipInvariant
<1>3. Members!Spec => []Members!SignupsKept
  BY <1>1, Members!SignupsAlwaysKept
<1> QED
  BY <1>2, <1>3, MembersAreAPart, PTL

\* While the cache is sound nothing is stored or held under a generation that is older
\* than what its writes have invalidated.
THEOREM CacheInvariant == BackOfficeSpec => []Cached
<1>1. BackOfficeInit => Cached
  BY CachedInit, BackOfficeAssumption DEF BackOfficeInit
<1>2. Cached /\ [BackOfficeNext]_all => Cached'
  <2>1. [BackOfficeNext]_all => [Shared!Next]_kvars
    BY DEF BackOfficeNext, CampaignMoves, AccountsMove, MembersMove, CacheMoves, all
  <2> QED
    BY <2>1, CachedStep, BackOfficeAssumption
<1> QED
  BY <1>1, <1>2, PTL DEF BackOfficeSpec

\* All variables of the four parts keep their types.
THEOREM BackOfficeTypes == BackOfficeSpec => []TypesOK
<1>1. Inv /\ Settled /\ Members!Inv /\ Cached => TypesOK
  <2>1. Inv => TypeOK
    BY DEF Inv
  <2>2. Settled => SignIn!TypeOK
    BY DEF Settled, Tables
  <2>3. Members!Inv => Group!TypeOK
    BY DEF Members!Inv, Members!TypeOK, Group!TypeOK, Members!Rows, Group!Rows, Members!Late,
           Group!Late
  <2>4. Cached => Shared!TypeOK
    BY DEF Cached
  <2> QED
    BY <2>1, <2>2, <2>3, <2>4 DEF TypesOK
<1>2. BackOfficeSpec => []Inv
  BY CampaignIsAPart, CampaignInvariant, PTL
<1> QED
  BY <1>1, <1>2, AccountsInvariant, MembersInvariant, CacheInvariant, PTL

\* Whoever proves an address gets in, for any addresses, accounts and requests: no
\* account keeps in its column an address that leads nowhere, while no request dies
\* between the void and the renaming, no two requests move the addresses of one account
\* at once, and no account without email identities is given its first.
THEOREM ProofAlwaysLetsIn == BackOfficeSpec => []ProofLetsIn
<1>1. Settled => ProofLetsIn
  <2> SUFFICES ASSUME Settled, a_orderly, NEW a \in Accounts, NEW x \in Addresses,
                      a_email[a] = x, SignIn!Emails(a) # {}
               PROVE  \/ a_ident[x].holder = a
                      \/ \E c \in Requests : SignIn!At(c, "rename") /\ a_call[c].x = x
    BY DEF ProofLetsIn, SignIn!ProofLetsIn
  <2>1. ~None(a)
    BY DEF None, SignIn!Emails
  <2> QED
    BY <2>1 DEF Settled, Order, Backed, Renaming, SignIn!At
<1> QED
  BY <1>1, AccountsInvariant, PTL

\* No more customers join through a link than it allows, and nobody has the group's
\* discount who was not let in.
THEOREM LinksAreKept == BackOfficeSpec => []SignupsKept
<1>1. Members!SignupsKept => SignupsKept
  BY DEF Members!SignupsKept, SignupsKept, Group!SignupsKept, Members!Discounted,
         Group!Discounted, Members!Member, Group!Member, Members!Over, Group!Over, Members!Live,
         Group!Live, Members!Never, Group!Never
<1> QED
  BY <1>1, MembersInvariant, PTL

\* A read that starts after a write has invalidated never gets an older value.
THEOREM ReadsAreFresh == BackOfficeSpec => []FreshAfterWrite
<1>1. Cached => FreshAfterWrite
  BY DEF Cached, CacheFresh, ReadsFresh, FreshAfterWrite, Shared!FreshAfterWrite
<1> QED
  BY <1>1, CacheInvariant, PTL

\* The sweep takes no membership that goes on.
THEOREM SweepsAreLate == BackOfficeSpec => SweptWereOver
<1>1. Members!Sensible
  BY BackOfficeAssumption DEF Members!Sensible, Members!IsFiniteSet, IsFiniteSet
<1>2. Members!Spec => Members!SweptWereOver
  BY <1>1, Members!SweptAlwaysOver
<1>3. Members!SweptWereOver => SweptWereOver
  BY DEF Members!SweptWereOver, SweptWereOver, Group!SweptWereOver, Members!Member, Group!Member,
         Members!Over, Group!Over, Members!Never, Group!Never, Members!vars, Group!vars
<1> QED
  BY <1>2, <1>3, MembersAreAPart, PTL

=============================================================================
