--------------------------- MODULE PaymentsProofs ---------------------------
(***************************************************************************)
(* Theorems about Payments, for every set of intents, tokens and callers:  *)
(* money is captured before a payment row says paid, no acknowledged       *)
(* success is lost, the lock of payWithToken lets one card be charged, and *)
(* settling implements Settlement.                                         *)
(***************************************************************************)
EXTENDS Payments, FiniteSetTheorems, TLAPS

USE DEF Moving

-----------------------------------------------------------------------------
(* The inductive invariant of the three paths                              *)

\* What a call knows at each of its steps: it settles with a captured payment, and
\* acknowledges an event after the order is settled.
Good(c) ==
  /\ call[c].pc # "idle" => call[c].id \in Ids
  /\ call[c].pc \in {"lock", "recheck", "charge", "unlock"} => call[c].via = "token"
  /\ call[c].pc = "idle" => call[c].via = "none"
  /\ call[c].pc = "remember" => call[c].via = "intent"
  /\ call[c].pc \in {"status", "capture"} => call[c].via \in {"return", "webhook"}
  /\ call[c].pc \in {"claim"} \cup Moving => call[c].via \in {"token", "return", "webhook"}
  /\ call[c].via = "token" => c \in Tabs /\ call[c].id \in Tokens
  /\ call[c].via = "webhook" => call[c].event \in emitted
  /\ call[c].pc = "claim" => psp[call[c].id] = "captured"
  /\ call[c].pc \in Moving => paid
  /\ call[c].pc = "flag" => order # "pending"
  /\ call[c].pc = "ack" =>
       /\ call[c].via = "webhook"
       /\ \A i \in Ids \ Untagged : call[c].event = <<i, "succeeded">> => paid

\* A success is reported of a captured payment.
Reported == \A i \in Ids : <<i, "succeeded">> \in emitted => psp[i] = "captured"

Inv ==
  /\ TypeOK
  /\ \A c \in Callers : Good(c)
  /\ Reported
  /\ AppliedIsSettled

-----------------------------------------------------------------------------
(* What one step does to the calls                                         *)

Steps == {"idle", "remember", "lock", "recheck", "charge", "unlock", "status",
          "capture", "claim", "advance", "reread", "flag", "force", "ack"}

Paths == {"none", "intent", "token", "return", "webhook"}

\* Call c is at pc with everything else it knows; the other calls are untouched.
Moved(c, pc) ==
  /\ call' \in [Callers -> CallType]
  /\ call'[c].pc = pc /\ call'[c].via = call[c].via
  /\ call'[c].id = call[c].id /\ call'[c].event = call[c].event
  /\ \A d \in Callers \ {c} : call'[d] = call[d]

\* Call c has ended.
Ended(c) ==
  /\ call' \in [Callers -> CallType]
  /\ call'[c].pc = "idle" /\ call'[c].via = "none"
  /\ \A d \in Callers \ {c} : call'[d] = call[d]

\* Moving on changes the program counter alone.
LEMMA GotoMoves ==
  ASSUME TypeOK, NEW c \in Callers, NEW pc \in Steps, Goto(c, pc)
  PROVE  Moved(c, pc)
<1>1. call \in [Callers -> CallType]
  BY DEF TypeOK
<1>2. call[c] \in CallType
  BY <1>1
<1>3. [call[c] EXCEPT !.pc = pc] \in CallType
  BY <1>2 DEF CallType, Steps
<1>4. call' = [call EXCEPT ![c] = [call[c] EXCEPT !.pc = pc]]
  BY DEF Goto
<1>5. call' \in [Callers -> CallType] /\ call'[c] = [call[c] EXCEPT !.pc = pc]
  BY <1>1, <1>3, <1>4
<1>6. \A d \in Callers \ {c} : call'[d] = call[d]
  BY <1>1, <1>4
<1> QED
  BY <1>2, <1>5, <1>6 DEF Moved, CallType

\* Answering leaves the caller idle.
LEMMA LeaveEnds ==
  ASSUME TypeOK, NEW c \in Callers, Leave(c)
  PROVE  Ended(c)
<1>1. Idle \in CallType /\ Idle.pc = "idle" /\ Idle.via = "none"
  BY DEF Idle, CallType
<1>2. call' = [call EXCEPT ![c] = Idle] /\ call \in [Callers -> CallType]
  BY DEF Leave, TypeOK
<1> QED
  BY <1>1, <1>2 DEF Ended

\* A call begins with the locals it was given.
LEMMA BeginSets ==
  ASSUME TypeOK, NEW c \in Callers, NEW pc \in Steps, NEW path \in Paths, NEW i \in Ids,
         NEW e \in Events \cup {NoEvent}, Begin(c, pc, path, i, e)
  PROVE  /\ call[c].pc = "idle"
         /\ call' \in [Callers -> CallType]
         /\ call'[c].pc = pc /\ call'[c].via = path
         /\ call'[c].id = i /\ call'[c].event = e
         /\ \A d \in Callers \ {c} : call'[d] = call[d]
<1> DEFINE r == [pc |-> pc, via |-> path, id |-> i, event |-> e]
<1>1. r \in CallType
  BY DEF CallType, Steps, Paths
<1>2. call' = [call EXCEPT ![c] = r] /\ call \in [Callers -> CallType]
  BY DEF Begin, TypeOK
<1>3. call'[c] = r /\ call' \in [Callers -> CallType]
  BY <1>1, <1>2
<1>4. \A d \in Callers \ {c} : call'[d] = call[d]
  BY <1>2
<1> QED
  BY <1>3, <1>4 DEF Begin, At

\* Settled or not in need of it: the lock is freed, the event acknowledged, or the
\* call ends.
LEMMA FinishMoves ==
  ASSUME TypeOK, NEW c \in Callers, Finish(c)
  PROVE  \/ call[c].via = "token" /\ Moved(c, "unlock")
         \/ call[c].via = "webhook" /\ Moved(c, "ack")
         \/ call[c].via # "token" /\ Ended(c)
<1>1. CASE call[c].via = "token"
  BY <1>1, GotoMoves DEF Finish, Steps
<1>2. CASE call[c].via = "webhook"
  BY <1>2, GotoMoves DEF Finish, Steps
<1>3. CASE call[c].via \notin {"token", "webhook"}
  BY <1>3, LeaveEnds DEF Finish
<1> QED
  BY <1>1, <1>2, <1>3

\* An exception frees the lock or ends the call.
LEMMA ThrowMoves ==
  ASSUME TypeOK, NEW c \in Callers, Throw(c)
  PROVE  \/ call[c].via = "token" /\ Moved(c, "unlock")
         \/ call[c].via # "token" /\ Ended(c)
<1>1. CASE call[c].via = "token"
  BY <1>1, GotoMoves DEF Throw, Steps
<1>2. CASE call[c].via # "token"
  BY <1>2, LeaveEnds DEF Throw
<1> QED
  BY <1>1, <1>2

-----------------------------------------------------------------------------
(* The invariant is inductive                                              *)

THEOREM InvInit == Init => Inv
<1> SUFFICES ASSUME Init PROVE Inv
  OBVIOUS
<1>1. Idle \in CallType /\ Idle.pc = "idle" /\ Idle.via = "none"
  BY DEF Idle, CallType
<1>2. \A c \in Callers : call[c] = Idle
  BY DEF Init
<1>3. TypeOK
  BY <1>1 DEF Init, TypeOK
<1>4. \A c \in Callers : Good(c)
  BY <1>1, <1>2 DEF Good
<1>5. Reported /\ AppliedIsSettled
  BY DEF Init, Reported, AppliedIsSettled
<1> QED
  BY <1>3, <1>4, <1>5 DEF Inv

\* Nothing is undone: what the provider reported or captured, the claim, and the end
\* of waiting for money.
Grows ==
  /\ emitted \subseteq emitted'
  /\ \A i \in Ids : psp[i] = "captured" => psp'[i] = "captured"
  /\ paid => paid'
  /\ order' = "pending" => order = "pending"

\* A step of one call leaves the others good.
LEMMA OthersGood ==
  ASSUME \A d \in Callers : Good(d), NEW c \in Callers, Grows,
         \A d \in Callers \ {c} : call'[d] = call[d],
         Good(c)'
  PROVE  \A d \in Callers : Good(d)'
<1> SUFFICES ASSUME NEW d \in Callers, d # c PROVE Good(d)'
  OBVIOUS
<1>1. call'[d] = call[d]
  OBVIOUS
<1> QED
  BY <1>1 DEF Good, Grows

\* A call that ended is good.
LEMMA EndedGood ==
  ASSUME NEW c \in Callers, Ended(c)
  PROVE  Good(c)'
  BY DEF Ended, Good

\* A call that moved on keeps what it knew.
LEMMA MovedTo ==
  ASSUME NEW c \in Callers, Good(c), Grows, NEW pc, Moved(c, pc), call[c].pc # "idle",
         pc \in {"lock", "recheck", "charge", "unlock"} => call[c].via = "token",
         pc \notin {"idle", "remember"},
         pc \in {"status", "capture"} => call[c].via \in {"return", "webhook"},
         pc \in {"claim"} \cup Moving => call[c].via \in {"token", "return", "webhook"},
         pc = "claim" => psp'[call[c].id] = "captured",
         pc \in Moving => paid', pc = "flag" => order' # "pending",
         pc = "ack" => call[c].via = "webhook" /\ paid'
  PROVE  Good(c)'
  BY DEF Good, Grows, Moved

\* What a step of call c leaves behind.
Kept(c) ==
  /\ call' \in [Callers -> CallType]
  /\ \A d \in Callers \ {c} : call'[d] = call[d]
  /\ Good(c)'

LEMMA FinishKeeps ==
  ASSUME Inv, NEW c \in Callers, Grows, call[c].pc # "idle", paid', Finish(c)
  PROVE  Kept(c)
<1>1. TypeOK /\ Good(c)
  BY DEF Inv
<1>2. CASE call[c].via = "token" /\ Moved(c, "unlock")
  BY <1>1, <1>2, MovedTo DEF Kept, Moved
<1>3. CASE call[c].via = "webhook" /\ Moved(c, "ack")
  BY <1>1, <1>3, MovedTo DEF Kept, Moved
<1>4. CASE Ended(c)
  BY <1>4, EndedGood DEF Kept, Ended
<1> QED
  BY <1>1, <1>2, <1>3, <1>4, FinishMoves

LEMMA ThrowKeeps ==
  ASSUME Inv, NEW c \in Callers, Grows, call[c].pc # "idle", Throw(c)
  PROVE  Kept(c)
<1>1. TypeOK /\ Good(c)
  BY DEF Inv
<1>2. CASE call[c].via = "token" /\ Moved(c, "unlock")
  BY <1>1, <1>2, MovedTo DEF Kept, Moved
<1>3. CASE Ended(c)
  BY <1>3, EndedGood DEF Kept, Ended
<1> QED
  BY <1>1, <1>2, <1>3, ThrowMoves

LEMMA LeaveKeeps ==
  ASSUME Inv, NEW c \in Callers, Leave(c)
  PROVE  Kept(c)
  BY LeaveEnds, EndedGood DEF Inv, Kept, Ended

\* The tab moves on inside its own path.
LEMMA GotoKeeps ==
  ASSUME Inv, NEW c \in Callers, Grows, NEW pc \in Steps, Goto(c, pc), call[c].pc # "idle",
         pc \in {"lock", "recheck", "charge", "unlock"} => call[c].via = "token",
         pc \notin {"idle", "remember"},
         pc \in {"status", "capture"} => call[c].via \in {"return", "webhook"},
         pc \in {"claim"} \cup Moving => call[c].via \in {"token", "return", "webhook"},
         pc = "claim" => psp'[call[c].id] = "captured",
         pc \in Moving => paid', pc = "flag" => order' # "pending",
         pc = "ack" => call[c].via = "webhook" /\ paid'
  PROVE  Kept(c)
<1>1. Moved(c, pc) /\ Good(c)
  BY GotoMoves DEF Inv
<1> QED
  BY <1>1, MovedTo DEF Kept, Moved

\* What is left to show of a step: the types of the row and the provider, and that
\* reports are still of captured payments.
LEMMA StepKeeps ==
  ASSUME Inv, NEW c \in Callers, Grows, Kept(c),
         order' \in {"pending", "processing", "dead"},
         paid' \in BOOLEAN, flagged' \in BOOLEAN, lock' \in BOOLEAN,
         txn' \in Ids \cup {NoId},
         via' \in {"none", "token", "return", "webhook"},
         psp' \in [Ids -> {"none", "open", "shown", "approved", "captured"}],
         emitted' \subseteq Events, applied' \subseteq emitted',
         Reported', AppliedIsSettled'
  PROVE  Inv'
<1>1. TypeOK'
  BY DEF TypeOK, Kept
<1>2. \A d \in Callers : Good(d)'
  BY OthersGood DEF Inv, Kept
<1> QED
  BY <1>1, <1>2 DEF Inv

\* A step that touches neither the row's claim nor the provider.
LEMMA QuietGrows ==
  ASSUME UNCHANGED <<psp, emitted, paid>>, order' = order \/ order' # "pending"
  PROVE  Grows
  BY DEF Grows

\* A capture is reported and is of an id the provider knows.
LEMMA CaptureGrows ==
  ASSUME Inv, NEW i \in Ids, Capture(i), UNCHANGED <<order, paid, applied>>
  PROVE  /\ Grows
         /\ psp'[i] = "captured"
         /\ psp' \in [Ids -> {"none", "open", "shown", "approved", "captured"}]
         /\ emitted' \subseteq Events /\ applied' \subseteq emitted'
         /\ Reported' /\ AppliedIsSettled'
<1>1. psp' = [psp EXCEPT ![i] = "captured"]
      /\ emitted' = emitted \cup {<<i, "succeeded">>}
  BY DEF Capture
<1>2. TypeOK
  BY DEF Inv
<1>3. psp'[i] = "captured" /\ \A j \in Ids \ {i} : psp'[j] = psp[j]
  BY <1>1, <1>2 DEF TypeOK
<1>4. psp' \in [Ids -> {"none", "open", "shown", "approved", "captured"}]
  BY <1>1, <1>2 DEF TypeOK
<1>5. <<i, "succeeded">> \in Events
  BY DEF Events
<1>6. emitted' \subseteq Events /\ applied' \subseteq emitted'
  BY <1>1, <1>2, <1>5 DEF TypeOK
<1>7. Reported'
  BY <1>1, <1>3 DEF Reported, Inv
<1>8. Grows
  BY <1>1, <1>3 DEF Grows
<1>9. AppliedIsSettled'
  BY DEF AppliedIsSettled, Inv
<1> QED
  BY <1>3, <1>4, <1>6, <1>7, <1>8, <1>9

\* A step of call c that leaves the provider, the claim and the ledger alone.
LEMMA QuietKeeps ==
  ASSUME Inv, NEW c \in Callers, Kept(c),
         order' \in {"pending", "processing", "dead"},
         flagged' \in BOOLEAN, lock' \in BOOLEAN,
         order' = order \/ order' # "pending",
         UNCHANGED <<paid, txn, via, psp, emitted, applied>>
  PROVE  Inv'
<1>1. Grows
  BY QuietGrows
<1>2. TypeOK /\ Reported' /\ AppliedIsSettled'
  BY DEF Inv, Reported, AppliedIsSettled
<1> QED
  BY <1>1, <1>2, StepKeeps DEF TypeOK

THEOREM InvNext == Inv /\ [Next]_vars => Inv'
<1> SUFFICES ASSUME Inv, [Next]_vars PROVE Inv'
  OBVIOUS
<1> USE DEF Inv
<1>1. ASSUME NEW c \in Tabs, NEW i \in Intents \cup Approvals, OpenIntent(c, i) PROVE Inv'
  <2>1. c \in Callers /\ i \in Ids /\ NoEvent \in Events \cup {NoEvent}
    BY DEF Callers, Ids
  <2>2. Begin(c, "remember", "intent", i, NoEvent)
    BY <1>1 DEF OpenIntent
  <2>3. /\ call' \in [Callers -> CallType]
        /\ call'[c].pc = "remember" /\ call'[c].via = "intent" /\ call'[c].id = i
        /\ \A d \in Callers \ {c} : call'[d] = call[d]
    BY <2>1, <2>2, BeginSets DEF Steps, Paths
  <2>4. Kept(c)
    BY <2>1, <2>3 DEF Kept, Good
  <2>5. \A j \in Ids : psp[j] = "captured" <=> psp'[j] = "captured"
    BY <1>1 DEF OpenIntent, TypeOK
  <2>6. psp' \in [Ids -> {"none", "open", "shown", "approved", "captured"}]
    BY <1>1, <2>1 DEF OpenIntent, TypeOK
  <2>7. UNCHANGED <<order, paid, txn, via, flagged, lock, emitted, applied>>
    BY <1>1 DEF OpenIntent, row
  <2>8. Grows /\ Reported' /\ AppliedIsSettled'
    BY <2>5, <2>7 DEF Grows, Reported, AppliedIsSettled
  <2> QED
    BY <2>1, <2>4, <2>6, <2>7, <2>8, StepKeeps DEF TypeOK
<1>2. ASSUME NEW c \in Tabs, Remember(c) PROVE Inv'
  <2>1. c \in Callers /\ Leave(c) /\ call[c].pc = "remember"
    BY <1>2 DEF Callers, Remember, At
  <2>2. Kept(c) /\ call[c].id \in Ids
    BY <2>1, LeaveKeeps DEF Good
  <2>3. \A j \in Ids : psp[j] = "captured" <=> psp'[j] = "captured"
    BY <1>2 DEF Remember, TypeOK
  <2>4. psp' \in [Ids -> {"none", "open", "shown", "approved", "captured"}]
    BY <1>2, <2>2 DEF Remember, TypeOK
  <2>5. UNCHANGED <<order, paid, via, flagged, lock, emitted, applied>> /\ txn' = call[c].id
    BY <1>2 DEF Remember
  <2>6. Grows /\ Reported' /\ AppliedIsSettled'
    BY <2>3, <2>5 DEF Grows, Reported, AppliedIsSettled
  <2> QED
    BY <2>1, <2>2, <2>4, <2>5, <2>6, StepKeeps DEF TypeOK
<1>3. ASSUME NEW c \in Tabs, NEW k \in Tokens, BeginPay(c, k) PROVE Inv'
  <2>1. c \in Callers /\ k \in Ids /\ NoEvent \in Events \cup {NoEvent}
    BY DEF Callers, Ids
  <2>2. Begin(c, "lock", "token", k, NoEvent)
        /\ UNCHANGED <<order, paid, txn, via, flagged, lock, psp, emitted, applied>>
    BY <1>3 DEF BeginPay, row, provider
  <2>3. /\ call' \in [Callers -> CallType]
        /\ call'[c].pc = "lock" /\ call'[c].via = "token" /\ call'[c].id = k
        /\ \A d \in Callers \ {c} : call'[d] = call[d]
    BY <2>1, <2>2, BeginSets DEF Steps, Paths
  <2>4. Kept(c)
    BY <2>1, <2>3 DEF Kept, Good
  <2> QED
    BY <2>1, <2>2, <2>4, QuietKeeps DEF TypeOK
<1>4. ASSUME NEW c \in Tabs, TakeLock(c) PROVE Inv'
  <2>1. c \in Callers /\ call[c].pc = "lock" /\ lock' \in BOOLEAN
        /\ UNCHANGED <<order, paid, txn, via, flagged, psp, emitted, applied>>
    BY <1>4 DEF Callers, TakeLock, At, row, provider
  <2>2. Grows /\ call[c].via = "token"
    BY <2>1, QuietGrows DEF Good
  <2>3. Leave(c) \/ Goto(c, "recheck")
    BY <1>4 DEF TakeLock
  <2>4. Kept(c)
    BY <2>1, <2>2, <2>3, LeaveKeeps, GotoKeeps DEF Steps
  <2> QED
    BY <2>1, <2>4, QuietKeeps DEF TypeOK
<1>5. ASSUME NEW c \in Tabs, Recheck(c) PROVE Inv'
  <2>1. c \in Callers /\ call[c].pc = "recheck"
        /\ UNCHANGED <<order, paid, txn, via, flagged, lock, psp, emitted, applied>>
    BY <1>5 DEF Callers, Recheck, At, row, provider
  <2>2. Grows /\ call[c].via = "token"
    BY <2>1, QuietGrows DEF Good
  <2>3. Goto(c, "charge") \/ Goto(c, "unlock")
    BY <1>5 DEF Recheck
  <2>4. Kept(c)
    BY <2>1, <2>2, <2>3, GotoKeeps DEF Steps
  <2> QED
    BY <2>1, <2>4, QuietKeeps DEF TypeOK
<1>6. ASSUME NEW c \in Tabs, Charge(c) PROVE Inv'
  <2>1. c \in Callers /\ call[c].pc = "charge"
        /\ UNCHANGED <<order, paid, txn, via, flagged, lock, applied>>
    BY <1>6 DEF Callers, Charge, At, row
  <2>2. call[c].via = "token" /\ call[c].id \in Ids
    BY <2>1 DEF Good
  <2>3. CASE Throw(c) /\ UNCHANGED provider
    <3>1. UNCHANGED <<psp, emitted>>
      BY <2>3 DEF provider
    <3>2. Kept(c)
      BY <2>1, <2>3, <3>1, QuietGrows, ThrowKeeps
    <3> QED
      BY <2>1, <3>1, <3>2, QuietKeeps DEF TypeOK
  <2>4. CASE Capture(call[c].id) /\ (Goto(c, "claim") \/ Throw(c))
    <3>1. /\ Grows
          /\ psp'[call[c].id] = "captured"
          /\ psp' \in [Ids -> {"none", "open", "shown", "approved", "captured"}]
          /\ emitted' \subseteq Events /\ applied' \subseteq emitted'
          /\ Reported' /\ AppliedIsSettled'
      BY <2>1, <2>2, <2>4, CaptureGrows
    <3>2. Kept(c)
      BY <2>1, <2>2, <2>4, <3>1, GotoKeeps, ThrowKeeps DEF Steps
    <3> QED
      BY <2>1, <3>1, <3>2, StepKeeps DEF TypeOK
  <2> QED
    BY <1>6, <2>3, <2>4 DEF Charge
<1>7. ASSUME NEW c \in Tabs, Unlock(c) PROVE Inv'
  <2>1. c \in Callers /\ Leave(c) /\ lock' \in BOOLEAN
        /\ UNCHANGED <<order, paid, txn, via, flagged, psp, emitted, applied>>
    BY <1>7 DEF Callers, Unlock, row, provider
  <2> QED
    BY <2>1, LeaveKeeps, QuietKeeps DEF TypeOK
<1>8. ASSUME NEW c \in Tabs, BeginReturn(c) PROVE Inv'
  <2>1. c \in Callers /\ txn \in Ids /\ NoEvent \in Events \cup {NoEvent}
    BY <1>8 DEF Callers, BeginReturn, TypeOK
  <2>2. Begin(c, "status", "return", txn, NoEvent)
        /\ UNCHANGED <<order, paid, txn, via, flagged, lock, psp, emitted, applied>>
    BY <1>8 DEF BeginReturn, row, provider
  <2>3. /\ call' \in [Callers -> CallType]
        /\ call'[c].pc = "status" /\ call'[c].via = "return" /\ call'[c].id = txn
        /\ \A d \in Callers \ {c} : call'[d] = call[d]
    BY <2>1, <2>2, BeginSets DEF Steps, Paths
  <2>4. Kept(c)
    BY <2>1, <2>3 DEF Kept, Good
  <2> QED
    BY <2>1, <2>2, <2>4, QuietKeeps DEF TypeOK
<1>9. ASSUME NEW c \in Tabs, Status(c) PROVE Inv'
  <2>1. c \in Callers /\ call[c].pc = "status"
        /\ UNCHANGED <<order, paid, txn, via, flagged, lock, psp, emitted, applied>>
    BY <1>9 DEF Callers, Status, At, row, provider
  <2>2. Grows /\ call[c].via \in {"return", "webhook"}
    BY <2>1, QuietGrows DEF Good
  <2>3. \/ psp[call[c].id] = "captured" /\ Goto(c, "claim")
        \/ Goto(c, "capture")
        \/ Leave(c)
    BY <1>9 DEF Status
  <2>4. Kept(c)
    BY <2>1, <2>2, <2>3, LeaveKeeps, GotoKeeps DEF Steps
  <2> QED
    BY <2>1, <2>4, QuietKeeps DEF TypeOK
<1>10. ASSUME NEW c \in Callers, CaptureApproved(c) PROVE Inv'
  <2>1. call[c].pc = "capture"
        /\ UNCHANGED <<order, paid, txn, via, flagged, lock, applied>>
    BY <1>10 DEF CaptureApproved, At, row
  <2>2. call[c].via \in {"return", "webhook"} /\ call[c].id \in Ids
    BY <2>1 DEF Good
  <2>3. CASE Throw(c) /\ UNCHANGED provider
    <3>1. UNCHANGED <<psp, emitted>>
      BY <2>3 DEF provider
    <3>2. Kept(c)
      BY <2>1, <2>3, <3>1, QuietGrows, ThrowKeeps
    <3> QED
      BY <2>1, <3>1, <3>2, QuietKeeps DEF TypeOK
  <2>4. CASE Capture(call[c].id) /\ (Goto(c, "claim") \/ Throw(c))
    <3>1. /\ Grows
          /\ psp'[call[c].id] = "captured"
          /\ psp' \in [Ids -> {"none", "open", "shown", "approved", "captured"}]
          /\ emitted' \subseteq Events /\ applied' \subseteq emitted'
          /\ Reported' /\ AppliedIsSettled'
      BY <2>1, <2>2, <2>4, CaptureGrows
    <3>2. Kept(c)
      BY <2>1, <2>2, <2>4, <3>1, GotoKeeps, ThrowKeeps DEF Steps
    <3> QED
      BY <2>1, <3>1, <3>2, StepKeeps DEF TypeOK
  <2> QED
    BY <1>10, <2>3, <2>4 DEF CaptureApproved
<1>11. ASSUME NEW c \in Callers, Claim(c) PROVE Inv'
  <2>1. call[c].pc = "claim"
        /\ UNCHANGED <<order, flagged, lock, psp, emitted, applied>>
    BY <1>11 DEF Claim, At, provider
  <2>2. call[c].via \in {"token", "return", "webhook"} /\ call[c].id \in Ids
    BY <2>1 DEF Good
  <2>3. CASE paid /\ Finish(c) /\ UNCHANGED <<paid, txn, via>>
    BY <2>1, <2>3, QuietGrows, FinishKeeps, QuietKeeps DEF TypeOK
  <2>4. CASE paid' = TRUE /\ txn' = call[c].id /\ via' = call[c].via /\ Goto(c, "advance")
    <3>1. Grows /\ Reported' /\ AppliedIsSettled'
      BY <2>1, <2>4 DEF Grows, Reported, AppliedIsSettled
    <3>2. Kept(c)
      BY <2>1, <2>2, <2>4, <3>1, GotoKeeps DEF Steps
    <3> QED
      BY <2>1, <2>2, <2>4, <3>1, <3>2, StepKeeps DEF TypeOK
  <2> QED
    BY <1>11, <2>3, <2>4 DEF Claim
<1>12. ASSUME NEW c \in Callers, Advance(c) \/ ReadLive(c) \/ FlagForRefund(c) \/ ForceForward(c) PROVE Inv'
  <2>1. call[c].pc \in Moving /\ UNCHANGED <<paid, txn, via, lock, psp, emitted, applied>>
    BY <1>12 DEF Advance, ReadLive, FlagForRefund, ForceForward, At, Moving, row, provider
  <2>2. order' \in {"pending", "processing", "dead"} /\ flagged' \in BOOLEAN
        /\ (order' = order \/ order' # "pending")
    BY <1>12 DEF Advance, ReadLive, FlagForRefund, ForceForward, row, TypeOK
  <2>3. Grows /\ paid' /\ call[c].via \in {"token", "return", "webhook"}
    BY <2>1, <2>2, QuietGrows DEF Good
  <2>4. \/ Finish(c)
        \/ \E pc \in {"reread", "force", "flag"} : Goto(c, pc) /\ (pc = "flag" => order' # "pending")
    BY <1>12 DEF Advance, ReadLive, FlagForRefund, ForceForward, row
  <2>5. Kept(c)
    BY <2>1, <2>3, <2>4, FinishKeeps, GotoKeeps DEF Steps, Moving
  <2> QED
    BY <2>1, <2>2, <2>5, QuietKeeps DEF TypeOK
<1>13. ASSUME NEW c \in Deliveries, NEW i \in Ids, Succeeded(c, i) PROVE Inv'
  <2>1. c \in Callers /\ <<i, "succeeded">> \in emitted /\ <<i, "succeeded">> \in Events
    BY <1>13 DEF Callers, Succeeded, TypeOK
  <2>2. UNCHANGED <<order, paid, txn, via, flagged, lock, psp, emitted, applied>>
    BY <1>13 DEF Succeeded, row, provider
  <2>3. c \notin Tabs
    BY PaymentsAssumption
  <2>4. ASSUME NEW pc \in {"claim", "ack"}, Begin(c, pc, "webhook", i, <<i, "succeeded">>),
               pc = "ack" => i \in Untagged \/ paid
        PROVE  Kept(c)
    <3>1. /\ call' \in [Callers -> CallType]
          /\ call'[c].pc = pc /\ call'[c].via = "webhook" /\ call'[c].id = i
          /\ call'[c].event = <<i, "succeeded">>
          /\ \A d \in Callers \ {c} : call'[d] = call[d]
      BY <2>1, <2>4, BeginSets DEF Steps, Paths
    <3>2. pc = "ack" => \A j \in Ids \ Untagged : <<i, "succeeded">> = <<j, "succeeded">> => paid
      BY <2>4
    <3> QED
      BY <2>1, <2>2, <3>1, <3>2 DEF Kept, Good, Reported
  <2>5. \/ Begin(c, "claim", "webhook", i, <<i, "succeeded">>)
        \/ Begin(c, "ack", "webhook", i, <<i, "succeeded">>) /\ (i \in Untagged \/ paid)
    BY <1>13 DEF Succeeded, Resolves
  <2> QED
    BY <2>1, <2>2, <2>4, <2>5, QuietKeeps DEF TypeOK
<1>14. ASSUME NEW c \in Deliveries, NEW i \in Ids, Approved(c, i) PROVE Inv'
  <2>1. c \in Callers /\ <<i, "approved">> \in emitted /\ <<i, "approved">> \in Events
    BY <1>14 DEF Callers, Approved, TypeOK
  <2>2. UNCHANGED <<order, paid, txn, via, flagged, lock, psp, emitted, applied>>
    BY <1>14 DEF Approved, row, provider
  <2>3. ASSUME NEW pc \in {"capture", "ack"}, NEW j \in Ids,
               Begin(c, pc, "webhook", j, <<i, "approved">>)
        PROVE  Kept(c)
    <3>1. /\ call' \in [Callers -> CallType]
          /\ call'[c].pc = pc /\ call'[c].via = "webhook" /\ call'[c].id = j
          /\ call'[c].event = <<i, "approved">>
          /\ \A d \in Callers \ {c} : call'[d] = call[d]
      BY <2>1, <2>3, BeginSets DEF Steps, Paths
    <3>2. \A k \in Ids : <<i, "approved">> # <<k, "succeeded">>
      OBVIOUS
    <3> QED
      BY <2>1, <2>2, <3>1, <3>2 DEF Kept, Good
  <2>4. \/ Begin(c, "capture", "webhook", txn, <<i, "approved">>) /\ txn \in Ids
        \/ Begin(c, "ack", "webhook", i, <<i, "approved">>)
    BY <1>14 DEF Approved, TypeOK
  <2> QED
    BY <2>1, <2>2, <2>3, <2>4, QuietKeeps DEF TypeOK
<1>15. ASSUME NEW c \in Deliveries, Acknowledge(c) PROVE Inv'
  <2>1. c \in Callers /\ call[c].pc = "ack" /\ Leave(c)
        /\ applied' = applied \cup {call[c].event}
        /\ UNCHANGED <<order, paid, txn, via, flagged, lock, psp, emitted>>
    BY <1>15 DEF Callers, Acknowledge, At, row, provider
  <2>2. call[c].event \in emitted
        /\ \A i \in Ids \ Untagged : call[c].event = <<i, "succeeded">> => paid
    BY <2>1 DEF Good
  <2>3. Grows /\ Reported' /\ AppliedIsSettled'
    BY <2>1, <2>2, QuietGrows DEF Reported, AppliedIsSettled
  <2> QED
    BY <2>1, <2>2, <2>3, LeaveKeeps, StepKeeps DEF TypeOK
<1>16. ASSUME NEW c \in Callers, Crash(c) PROVE Inv'
  <2>1. Leave(c) /\ UNCHANGED <<order, paid, txn, via, flagged, lock, psp, emitted, applied>>
    BY <1>16 DEF Crash, row, provider
  <2> QED
    BY <2>1, LeaveKeeps, QuietKeeps DEF TypeOK
<1>17. ASSUME NEW i \in Ids, PayHosted(i) PROVE Inv'
  <2>1. Capture(i) /\ UNCHANGED <<order, paid, txn, via, flagged, lock, applied, call>>
    BY <1>17 DEF PayHosted, row
  <2>2. /\ Grows
        /\ psp' \in [Ids -> {"none", "open", "shown", "approved", "captured"}]
        /\ emitted' \subseteq Events /\ applied' \subseteq emitted'
        /\ Reported' /\ AppliedIsSettled'
    BY <2>1, CaptureGrows
  <2>3. \A c \in Callers : Good(c)'
    BY <2>1, <2>2 DEF Good, Grows
  <2> QED
    BY <2>1, <2>2, <2>3 DEF TypeOK
<1>18. ASSUME NEW i \in Ids, Approve(i) PROVE Inv'
  <2>1. /\ i \in Approvals /\ psp[i] = "shown"
        /\ psp' = [psp EXCEPT ![i] = "approved"]
        /\ emitted' = emitted \cup {<<i, "approved">>}
        /\ UNCHANGED <<order, paid, txn, via, flagged, lock, applied, call>>
    BY <1>18 DEF Approve, row
  <2>2. \A j \in Ids : psp[j] = "captured" <=> psp'[j] = "captured"
    BY <2>1 DEF TypeOK
  <2>3. psp' \in [Ids -> {"none", "open", "shown", "approved", "captured"}]
    BY <2>1 DEF TypeOK
  <2>4. emitted' \subseteq Events /\ applied' \subseteq emitted'
    BY <2>1 DEF TypeOK, Events
  <2>5. Grows
    BY <2>1, <2>2 DEF Grows
  <2>6. \A j \in Ids : <<i, "approved">> # <<j, "succeeded">>
    OBVIOUS
  <2>7. Reported' /\ AppliedIsSettled'
    BY <2>1, <2>2, <2>6 DEF Reported, AppliedIsSettled
  <2>8. \A c \in Callers : Good(c)'
    BY <2>1, <2>5 DEF Good, Grows
  <2> QED
    BY <2>1, <2>3, <2>4, <2>7, <2>8 DEF TypeOK
<1>19. ASSUME Expire \/ Die \/ UNCHANGED vars PROVE Inv'
  <2>1. UNCHANGED <<paid, txn, via, psp, emitted, applied, call>>
        /\ order' \in {"pending", "processing", "dead"}
        /\ (order' = order \/ order' # "pending")
        /\ flagged' \in BOOLEAN /\ lock' \in BOOLEAN
    BY <1>19 DEF Expire, Die, vars, row, provider, TypeOK
  <2>2. Reported' /\ AppliedIsSettled'
    BY <2>1 DEF Reported, AppliedIsSettled
  <2>3. \A c \in Callers : Good(c)'
    BY <2>1 DEF Good
  <2> QED
    BY <2>1, <2>2, <2>3 DEF TypeOK
<1> QED
  BY <1>1, <1>2, <1>3, <1>4, <1>5, <1>6, <1>7, <1>8, <1>9, <1>10, <1>11, <1>12, <1>13,
     <1>14, <1>15, <1>16, <1>17, <1>18, <1>19
  DEF Next, TabBegins, TabStep, HookBegins, Settling

-----------------------------------------------------------------------------
(* What follows from it                                                    *)

\* In every behaviour each variable and each call keeps to its type, and only events
\* that were reported are acknowledged.
THEOREM PaymentTypes == Spec => []TypeOK
<1>1. Inv => TypeOK
  BY DEF Inv
<1> QED
  BY <1>1, InvInit, InvNext, PTL DEF Spec

\* A success acknowledged to a provider that names the order has settled it, however
\* often its intent was overwritten or a delivery of it died.
THEOREM NoCaptureDropped == Spec => []AppliedIsSettled
<1>1. Inv => AppliedIsSettled
  BY DEF Inv
<1> QED
  BY <1>1, InvInit, InvNext, PTL DEF Spec

\* The claim is made by the call that is at it, with the id it carries.
LEMMA ClaimedByCaller ==
  ASSUME Inv, [Next]_vars, ~paid, paid'
  PROVE  \E c \in Callers : Claim(c) /\ txn' = call[c].id
<1>1. \/ \E c \in Callers : Claim(c)
      \/ UNCHANGED paid
  BY DEF Next, TabBegins, TabStep, HookBegins, Settling, OpenIntent, Remember, BeginPay,
         TakeLock, Recheck, Charge, Unlock, BeginReturn, Status, CaptureApproved, Advance,
         ReadLive, FlagForRefund, ForceForward, Succeeded, Approved, Acknowledge, Crash, PayHosted, Approve, Expire, Die,
         vars, row
<1> QED
  BY <1>1 DEF Claim

\* No path marks the payment row paid before the money is captured, and the id it
\* writes is the captured payment's.
THEOREM PaidAfterCapture == Spec => PaidIsCaptured
<1>1. Inv /\ [Next]_vars => [~paid /\ paid' => psp[txn'] = "captured"]_vars
  <2> SUFFICES ASSUME Inv, [Next]_vars, ~paid, paid' PROVE psp[txn'] = "captured"
    OBVIOUS
  <2>1. PICK c \in Callers : Claim(c) /\ txn' = call[c].id
    BY ClaimedByCaller
  <2>2. Good(c) /\ call[c].pc = "claim"
    BY <2>1 DEF Inv, Claim, At
  <2> QED
    BY <2>1, <2>2 DEF Good
<1> QED
  BY <1>1, InvInit, InvNext, PTL DEF Spec, PaidIsCaptured

-----------------------------------------------------------------------------
(* One card is charged once                                                *)

\* No charge outlasts its lock, no answer is lost and no tab's call dies.
Prompt == ~LockExpires /\ ~LostAnswers /\ Crashes \cap Tabs = {}

\* The order was not settled by a webhook or a hosted page.
Own == via \in {"none", "token"}

Uncharged == \A k \in Tokens : psp[k] # "captured"

\* The lock is there exactly while one call is inside it.
Exclusive ==
  /\ lock <=> \E c \in Callers : Holds(c)
  /\ \A c, d \in Callers : Holds(c) /\ Holds(d) => c = d

\* A claim from the page whose order has not moved yet is still inside the lock.
ClaimInside ==
  /\ paid <=> via # "none"
  /\ paid /\ via = "token" /\ order = "pending"
       => \E c \in Callers : call[c].pc \in Moving /\ call[c].via = "token"

\* As long as the order is pending nothing was charged, outside the lock and at the
\* steps before the charge and after a decline.
ChargeInside ==
  /\ Own /\ order = "pending" /\ ~lock => Uncharged
  /\ \A c \in Callers : Own /\ call[c].pc = "charge" => Uncharged
  /\ \A c \in Callers :
       Own /\ order = "pending" /\ call[c].pc \in {"recheck", "unlock"} => Uncharged
  /\ Own => \A j, k \in Tokens : psp[j] = "captured" /\ psp[k] = "captured" => j = k

LockInv == Exclusive /\ ClaimInside /\ ChargeInside

LEMMA LockInit == Init => LockInv
<1> SUFFICES ASSUME Init PROVE LockInv
  OBVIOUS
<1>1. \A c \in Callers : call[c].pc = "idle" /\ call[c].via = "none"
  BY DEF Init, Idle
<1>2. \A k \in Tokens : psp[k] # "captured"
  BY DEF Init, Ids
<1> QED
  BY <1>1, <1>2 DEF Init, LockInv, Exclusive, ClaimInside, ChargeInside, Holds, Own, Uncharged

\* A step outside the lock: the calls inside it stand still, no card is charged, and
\* an order that is settled is settled by another path.
LEMMA OutsideKeeps ==
  ASSUME Inv, Inv', LockInv, UNCHANGED lock,
         order' = order \/ order' # "pending",
         \A k \in Tokens : psp'[k] = "captured" <=> psp[k] = "captured",
         \A c \in Callers : Holds(c) \/ Holds(c)' => call'[c] = call[c],
         UNCHANGED <<via, paid>> \/ (paid' /\ via' \notin {"none", "token"})
  PROVE  LockInv'
<1>1. \A c \in Callers : Holds(c)' <=> Holds(c)
  BY DEF Holds
<1>2. Exclusive'
  BY <1>1 DEF LockInv, Exclusive
<1>3. \A c \in Callers : call[c].pc \in Moving /\ call[c].via = "token"
                           => call'[c].pc \in Moving /\ call'[c].via = "token"
  BY DEF Holds
<1>4. ClaimInside'
  BY <1>3 DEF LockInv, ClaimInside
<1>5. \A c \in Callers : call'[c].pc \in {"recheck", "charge", "unlock"}
                           => call'[c].pc = call[c].pc
  BY DEF Holds, Inv, Good
<1>6. Own' => Own
  BY DEF Own
<1>7. Uncharged => Uncharged'
  BY DEF Uncharged
<1>8. ChargeInside'
  BY <1>5, <1>6, <1>7 DEF LockInv, ChargeInside
<1> QED
  BY <1>2, <1>4, <1>8 DEF LockInv

\* The call inside the lock takes a step of its own.
LEMMA HolderAlone ==
  ASSUME Inv, LockInv, NEW c \in Callers, Holds(c), NEW pc \in Steps \ {"lock"}, Moved(c, pc)
  PROVE  /\ lock
         /\ \A d \in Callers : Holds(d)' <=> d = c
         /\ \A d \in Callers \ {c} : ~Holds(d) /\ ~Holds(d)'
         /\ UNCHANGED lock => Exclusive'
<1>1. lock /\ \A d \in Callers : Holds(d) => d = c
  BY DEF LockInv, Exclusive
<1>2. Holds(c)'
  BY DEF Moved, Holds
<1>3. \A d \in Callers \ {c} : Holds(d)' <=> Holds(d)
  BY DEF Moved, Holds
<1> QED
  BY <1>1, <1>2, <1>3 DEF Exclusive

\* A call at a step of the card path is inside the lock.
LEMMA CardStepsHold ==
  ASSUME Inv, NEW c \in Callers, call[c].pc \in {"recheck", "charge", "unlock"}
  PROVE  Holds(c)
  BY DEF Inv, Good, Holds

\* The call that takes the step is outside the lock before and after it.
LEMMA OutsiderKeeps ==
  ASSUME Inv, Inv', LockInv, NEW c \in Callers, ~Holds(c), ~Holds(c)', UNCHANGED lock,
         \A d \in Callers \ {c} : call'[d] = call[d],
         order' = order \/ order' # "pending",
         \A k \in Tokens : psp'[k] = "captured" <=> psp[k] = "captured",
         UNCHANGED <<via, paid>> \/ (paid' /\ via' \notin {"none", "token"})
  PROVE  LockInv'
<1>1. \A d \in Callers : Holds(d) \/ Holds(d)' => call'[d] = call[d]
  OBVIOUS
<1> QED
  BY <1>1, OutsideKeeps

\* A call that is not a card's moves on, ends or throws outside the lock.
LEMMA OutsiderMoves ==
  ASSUME Inv, NEW c \in Callers, call[c].via # "token",
         \/ \E pc \in Steps : Goto(c, pc)
         \/ Leave(c) \/ Finish(c) \/ Throw(c)
  PROVE  /\ ~Holds(c) /\ ~Holds(c)'
         /\ \A d \in Callers \ {c} : call'[d] = call[d]
<1>1. ~Holds(c)
  BY DEF Holds
<1>2. (\E pc \in Steps : Moved(c, pc)) \/ Ended(c)
  BY GotoMoves, LeaveEnds, FinishMoves, ThrowMoves DEF Inv, Steps
<1>3. call'[c].via # "token" /\ \A d \in Callers \ {c} : call'[d] = call[d]
  BY <1>2 DEF Moved, Ended
<1> QED
  BY <1>1, <1>3 DEF Holds

\* A capture of a PayPal order or a hosted payment charges no card.
LEMMA NoCardCaptured ==
  ASSUME Inv, NEW i \in Ids \ Tokens, Capture(i)
  PROVE  \A k \in Tokens : psp'[k] = "captured" <=> psp[k] = "captured"
  BY DEF Capture, Inv, TypeOK, Ids

LEMMA TakeLockKeeps ==
  ASSUME Inv, Inv', LockInv, NEW c \in Tabs, TakeLock(c)
  PROVE  LockInv'
<1>1. c \in Callers /\ call[c].pc = "lock" /\ call[c].via = "token" /\ ~Holds(c)
  BY DEF TakeLock, At, Callers, Inv, Good, Holds
<1>2. UNCHANGED <<order, paid, via, psp>> /\ lock' = TRUE
  BY DEF TakeLock, row, provider
<1>3. CASE lock
  <2>1. Ended(c)
    BY <1>1, <1>3, LeaveEnds DEF TakeLock, Inv
  <2>2. ~Holds(c)' /\ \A d \in Callers \ {c} : call'[d] = call[d]
    BY <2>1 DEF Ended, Holds
  <2> QED
    BY <1>1, <1>2, <1>3, <2>2, OutsiderKeeps
<1>4. CASE ~lock
  <2>1. Moved(c, "recheck")
    BY <1>1, <1>4, GotoMoves DEF TakeLock, Inv, Steps
  <2>2. \A d \in Callers : ~Holds(d)
    BY <1>4 DEF LockInv, Exclusive
  <2>3. \A d \in Callers : Holds(d)' <=> d = c
    BY <1>1, <2>1, <2>2 DEF Moved, Holds
  <2>4. Exclusive'
    BY <1>1, <1>2, <2>3 DEF Exclusive
  <2>5. ClaimInside'
    <3>1. \A d \in Callers : ~(call[d].pc \in Moving /\ call[d].via = "token")
      BY <2>2 DEF Holds
    <3> QED
      BY <1>2, <3>1 DEF LockInv, ClaimInside
  <2>6. \A d \in Callers \ {c} : call'[d].pc \notin {"recheck", "charge", "unlock"}
    BY <2>3, CardStepsHold DEF Inv, Good, Holds
  <2>7. Own /\ order = "pending" => Uncharged
    BY <1>4 DEF LockInv, ChargeInside
  <2>8. (Own' <=> Own) /\ (Uncharged' <=> Uncharged)
    BY <1>2 DEF Own, Uncharged
  <2>9. ChargeInside'
    BY <1>1, <1>2, <2>1, <2>6, <2>7, <2>8 DEF LockInv, ChargeInside, Moved
  <2> QED
    BY <2>4, <2>5, <2>9 DEF LockInv
<1> QED
  BY <1>3, <1>4

\* The call inside the lock moves, and says what its new step needs.
LEMMA HolderKeeps ==
  ASSUME Inv, Inv', LockInv, NEW c \in Callers, Holds(c), NEW pc \in Steps \ {"lock"},
         Moved(c, pc), UNCHANGED lock, ClaimInside',
         pc = "charge" => (Own' => Uncharged'),
         pc \in {"recheck", "unlock"} => (Own' /\ order' = "pending" => Uncharged'),
         Own' => \A j, k \in Tokens : psp'[j] = "captured" /\ psp'[k] = "captured" => j = k
  PROVE  LockInv'
<1>1. lock /\ Exclusive' /\ \A d \in Callers \ {c} : ~Holds(d)'
  BY HolderAlone
<1>2. \A d \in Callers \ {c} : call'[d].pc \notin {"recheck", "charge", "unlock"}
  BY <1>1 DEF Inv, Good, Holds
<1>3. call'[c].pc = pc
  BY DEF Moved
<1>4. ChargeInside'
  BY <1>1, <1>2, <1>3 DEF ChargeInside
<1> QED
  BY <1>1, <1>4 DEF LockInv

\* While a call is inside the lock and not about to move the order, the page has not
\* claimed the payment of a pending order.
LEMMA NotYetClaimed ==
  ASSUME Inv, LockInv, NEW c \in Callers, Holds(c), call[c].pc \notin Moving, Own,
         order = "pending"
  PROVE  ~paid
  BY DEF LockInv, ClaimInside, Exclusive, Own, Holds

LEMMA RecheckKeeps ==
  ASSUME Inv, Inv', LockInv, NEW c \in Tabs, Recheck(c)
  PROVE  LockInv'
<1>1. c \in Callers /\ Holds(c) /\ call[c].pc = "recheck"
  BY CardStepsHold DEF Recheck, At, Callers
<1>2. UNCHANGED <<order, paid, via, lock, psp>>
  BY DEF Recheck, row, provider
<1>3. (Own' <=> Own) /\ (Uncharged' <=> Uncharged)
  BY <1>2 DEF Own, Uncharged
<1>4. Own /\ order = "pending" => Uncharged
  BY <1>1 DEF LockInv, ChargeInside
<1>5. ASSUME NEW pc \in {"charge", "unlock"}, Moved(c, pc), pc = "charge" => order = "pending"
      PROVE  LockInv'
  <2>1. \A d \in Callers \ {c} : ~Holds(d)
    BY <1>1, <1>5, HolderAlone DEF Steps
  <2>2. \A d \in Callers : ~(call[d].pc \in Moving /\ call[d].via = "token")
    BY <1>1, <2>1 DEF Holds
  <2>3. ClaimInside'
    BY <1>2, <2>2 DEF LockInv, ClaimInside
  <2> QED
    BY <1>1, <1>2, <1>3, <1>4, <1>5, <2>3, HolderKeeps DEF Steps, LockInv, ChargeInside
<1>6. \E pc \in {"charge", "unlock"} : Moved(c, pc) /\ (pc = "charge" => order = "pending")
  BY <1>1, GotoMoves DEF Recheck, Inv, Steps
<1> QED
  BY <1>5, <1>6

LEMMA ChargeKeeps ==
  ASSUME Inv, Inv', Prompt, LockInv, NEW c \in Tabs, Charge(c)
  PROVE  LockInv'
<1>1. c \in Callers /\ Holds(c) /\ call[c].pc = "charge" /\ call[c].via = "token"
      /\ call[c].id \in Tokens
  BY CardStepsHold DEF Charge, At, Callers, Inv, Good
<1>2. UNCHANGED <<order, paid, via, lock>>
  BY DEF Charge, row
<1>3. Own' <=> Own
  BY <1>2 DEF Own
<1>4. Own => Uncharged
  BY <1>1 DEF LockInv, ChargeInside
<1>5. ASSUME NEW pc \in {"claim", "unlock"}, Moved(c, pc)
      PROVE  ClaimInside'
  <2>1. \A d \in Callers \ {c} : ~Holds(d)
    BY <1>1, <1>5, HolderAlone DEF Steps
  <2>2. \A d \in Callers : ~(call[d].pc \in Moving /\ call[d].via = "token")
    BY <1>1, <2>1 DEF Holds
  <2> QED
    BY <1>2, <2>2 DEF LockInv, ClaimInside
<1>6. CASE Throw(c) /\ UNCHANGED provider
  <2>1. Moved(c, "unlock") /\ (Uncharged' <=> Uncharged) /\ UNCHANGED psp
    BY <1>1, <1>6, ThrowMoves DEF Inv, provider, Uncharged
  <2> QED
    BY <1>1, <1>2, <1>3, <1>4, <1>5, <2>1, HolderKeeps DEF Steps, LockInv, ChargeInside
<1>7. CASE Capture(call[c].id) /\ Goto(c, "claim")
  <2>1. Moved(c, "claim")
    BY <1>1, <1>7, GotoMoves DEF Inv, Steps
  <2>2. Own => \A k \in Tokens : psp'[k] = "captured" => k = call[c].id
    BY <1>1, <1>4, <1>7 DEF Capture, Uncharged, Inv, TypeOK, Ids
  <2> QED
    BY <1>1, <1>2, <1>3, <1>5, <2>1, <2>2, HolderKeeps DEF Steps
<1> QED
  BY <1>6, <1>7 DEF Charge, Prompt

LEMMA UnlockKeeps ==
  ASSUME Inv, Inv', LockInv, NEW c \in Tabs, Unlock(c)
  PROVE  LockInv'
<1>1. c \in Callers /\ Holds(c) /\ call[c].pc = "unlock"
  BY CardStepsHold DEF Unlock, At, Callers
<1>2. UNCHANGED <<order, paid, via, psp>> /\ lock' = FALSE /\ Ended(c)
  BY <1>1, LeaveEnds DEF Unlock, row, provider, Inv
<1>3. \A d \in Callers \ {c} : ~Holds(d)
  BY <1>1 DEF LockInv, Exclusive
<1>4. \A d \in Callers : ~Holds(d)'
  BY <1>2, <1>3 DEF Ended, Holds
<1>5. Exclusive'
  BY <1>2, <1>4 DEF Exclusive
<1>6. \A d \in Callers : ~(call[d].pc \in Moving /\ call[d].via = "token")
  BY <1>1, <1>3 DEF Holds
<1>7. ClaimInside'
  BY <1>2, <1>6 DEF LockInv, ClaimInside
<1>8. \A d \in Callers : call'[d].pc \notin {"recheck", "charge", "unlock"}
  BY <1>4 DEF Inv, Good, Holds
<1>9. (Own' <=> Own) /\ (Uncharged' <=> Uncharged)
  BY <1>2 DEF Own, Uncharged
<1>10. ChargeInside'
  BY <1>1, <1>2, <1>8, <1>9 DEF LockInv, ChargeInside
<1> QED
  BY <1>5, <1>7, <1>10 DEF LockInv

LEMMA ClaimKeeps ==
  ASSUME Inv, Inv', LockInv, NEW c \in Callers, Claim(c)
  PROVE  LockInv'
<1>1. call[c].pc = "claim" /\ call[c].via \in {"token", "return", "webhook"}
  BY DEF Claim, At, Inv, Good
<1>2. UNCHANGED <<order, lock, psp>>
  BY DEF Claim, provider
<1>3. CASE call[c].via # "token"
  <2>1. ~Holds(c) /\ ~Holds(c)' /\ \A d \in Callers \ {c} : call'[d] = call[d]
    BY <1>3, OutsiderMoves DEF Claim, Steps
  <2>2. UNCHANGED <<via, paid>> \/ (paid' /\ via' \notin {"none", "token"})
    BY <1>1, <1>3 DEF Claim
  <2> QED
    BY <1>2, <2>1, <2>2, OutsiderKeeps
<1>4. CASE call[c].via = "token"
  <2>1. Holds(c)
    BY <1>1, <1>4 DEF Holds
  <2>2. Uncharged' <=> Uncharged
    BY <1>2 DEF Uncharged
  <2>3. CASE paid /\ Finish(c) /\ UNCHANGED <<paid, txn, via>>
    <3>1. Moved(c, "unlock")
      BY <1>4, <2>3, FinishMoves DEF Inv
    <3>2. ~(Own /\ order = "pending")
      BY <1>1, <2>1, <2>3, NotYetClaimed
    <3>3. Own' <=> Own
      BY <2>3 DEF Own
    <3>4. ClaimInside'
      BY <1>2, <2>3, <3>2 DEF LockInv, ClaimInside, Own
    <3> QED
      BY <1>2, <2>1, <3>1, <3>2, <3>3, <3>4, HolderKeeps DEF Steps, LockInv, ChargeInside
  <2>4. CASE ~paid /\ paid' = TRUE /\ via' = call[c].via /\ Goto(c, "advance")
    <3>1. Moved(c, "advance")
      BY <2>4, GotoMoves DEF Inv, Steps
    <3>2. Own
      BY <2>4 DEF LockInv, ClaimInside, Own
    <3>3. call'[c].pc \in Moving /\ call'[c].via = "token"
      BY <1>4, <3>1 DEF Moved, Moving
    <3>4. ClaimInside'
      BY <1>4, <2>4, <3>3 DEF ClaimInside
    <3> QED
      BY <1>2, <2>1, <3>1, <3>2, <3>4, HolderKeeps DEF Steps, LockInv, ChargeInside
  <2> QED
    BY <2>3, <2>4 DEF Claim
<1> QED
  BY <1>3, <1>4

\* The call that moves the order does so inside the lock if it is a card's, and until
\* it has moved the order it stays at one of the steps of the move.
LEMMA MovingKeeps ==
  ASSUME Inv, Inv', LockInv, NEW c \in Callers, Advance(c) \/ ReadLive(c) \/ FlagForRefund(c) \/ ForceForward(c)
  PROVE  LockInv'
<1>1. /\ call[c].pc \in Moving /\ UNCHANGED <<paid, via, lock, psp>>
      /\ order' = order \/ order' # "pending"
  BY DEF Advance, ReadLive, FlagForRefund, ForceForward, At, Moving, row, provider
<1>2. \/ Finish(c) /\ order' # "pending"
      \/ \E pc \in {"reread", "force", "flag"} : Goto(c, pc)
  <2>1. FlagForRefund(c) => order' # "pending"
    BY DEF FlagForRefund, At, Inv, Good
  <2> QED
    BY <2>1 DEF Advance, ReadLive, FlagForRefund, ForceForward
<1>3. CASE call[c].via # "token"
  BY <1>1, <1>2, <1>3, OutsiderMoves, OutsiderKeeps DEF Steps, Moving
<1>4. CASE call[c].via = "token"
  <2>1. Holds(c)
    BY <1>1, <1>4 DEF Holds, Moving
  <2>2. Own' <=> Own
    BY <1>1 DEF Own
  <2>3. CASE Finish(c) /\ order' # "pending"
    <3>1. Moved(c, "unlock")
      BY <1>4, <2>3, FinishMoves DEF Inv
    <3>2. ClaimInside'
      BY <1>1, <2>3 DEF LockInv, ClaimInside
    <3> QED
      BY <1>1, <2>1, <2>2, <2>3, <3>1, <3>2, HolderKeeps DEF Steps, LockInv, ChargeInside
  <2>4. ASSUME NEW pc \in {"reread", "force", "flag"}, Goto(c, pc)
        PROVE  LockInv'
    <3>1. Moved(c, pc)
      BY <2>4, GotoMoves DEF Inv, Steps, Moving
    <3>2. call'[c].pc \in Moving /\ call'[c].via = "token"
      BY <1>4, <3>1 DEF Moved, Moving
    <3>3. ClaimInside'
      BY <1>1, <3>2 DEF LockInv, ClaimInside
    <3> QED
      BY <1>1, <2>1, <2>2, <3>1, <3>3, HolderKeeps DEF Steps, Moving, LockInv, ChargeInside
  <2> QED
    BY <1>2, <2>3, <2>4
<1> QED
  BY <1>3, <1>4

THEOREM LockNext == Prompt /\ Inv /\ Inv' /\ LockInv /\ [Next]_vars => LockInv'
<1> SUFFICES ASSUME Prompt, Inv, Inv', LockInv, [Next]_vars PROVE LockInv'
  OBVIOUS
<1>0. TypeOK /\ NoEvent \in Events \cup {NoEvent}
  BY DEF Inv
<1>1. ASSUME NEW c \in Tabs, NEW i \in Intents \cup Approvals, OpenIntent(c, i) PROVE LockInv'
  <2>1. c \in Callers /\ i \in Ids /\ i \notin Tokens
    BY PaymentsAssumption DEF Callers, Ids
  <2>2. /\ call[c].pc = "idle" /\ call'[c].via = "intent"
        /\ \A d \in Callers \ {c} : call'[d] = call[d]
    BY <1>0, <1>1, <2>1, BeginSets DEF OpenIntent, Steps, Paths
  <2>3. ~Holds(c) /\ ~Holds(c)'
    BY <2>1, <2>2 DEF Holds, Inv, Good
  <2>4. UNCHANGED <<order, via, paid, lock>>
    BY <1>1 DEF OpenIntent, row
  <2>5. \A k \in Tokens : psp'[k] = "captured" <=> psp[k] = "captured"
    BY <1>0, <1>1, <2>1 DEF OpenIntent, TypeOK, Ids
  <2> QED
    BY <2>1, <2>2, <2>3, <2>4, <2>5, OutsiderKeeps
<1>2. ASSUME NEW c \in Tabs, Remember(c) PROVE LockInv'
  <2>1. c \in Callers /\ call[c].via = "intent" /\ Leave(c) /\ call[c].id \in Ids
    BY <1>2 DEF Remember, At, Callers, Inv, Good
  <2>2. ~Holds(c) /\ ~Holds(c)' /\ \A d \in Callers \ {c} : call'[d] = call[d]
    BY <2>1, OutsiderMoves
  <2>3. UNCHANGED <<order, via, paid, lock>>
    BY <1>2 DEF Remember
  <2>4. \A k \in Tokens : psp'[k] = "captured" <=> psp[k] = "captured"
    BY <1>0, <1>2 DEF Remember, TypeOK, Ids
  <2> QED
    BY <2>1, <2>2, <2>3, <2>4, OutsiderKeeps
<1>3. ASSUME NEW c \in Tabs, NEW k \in Tokens, BeginPay(c, k) PROVE LockInv'
  <2>1. c \in Callers /\ k \in Ids
    BY DEF Callers, Ids
  <2>2. /\ call[c].pc = "idle" /\ call'[c].pc = "lock"
        /\ \A d \in Callers \ {c} : call'[d] = call[d]
    BY <1>0, <1>3, <2>1, BeginSets DEF BeginPay, Steps, Paths
  <2>3. ~Holds(c) /\ ~Holds(c)'
    BY <2>1, <2>2 DEF Holds, Inv, Good
  <2>4. UNCHANGED <<order, via, paid, lock, psp>>
    BY <1>3 DEF BeginPay, row, provider
  <2> QED
    BY <2>1, <2>2, <2>3, <2>4, OutsiderKeeps
<1>4. ASSUME NEW c \in Tabs, BeginReturn(c) PROVE LockInv'
  <2>1. c \in Callers /\ txn \in Ids
    BY <1>0, <1>4 DEF Callers, BeginReturn, TypeOK
  <2>2. /\ call[c].pc = "idle" /\ call'[c].via = "return"
        /\ \A d \in Callers \ {c} : call'[d] = call[d]
    BY <1>0, <1>4, <2>1, BeginSets DEF BeginReturn, Steps, Paths
  <2>3. ~Holds(c) /\ ~Holds(c)'
    BY <2>1, <2>2 DEF Holds, Inv, Good
  <2>4. UNCHANGED <<order, via, paid, lock, psp>>
    BY <1>4 DEF BeginReturn, row, provider
  <2> QED
    BY <2>1, <2>2, <2>3, <2>4, OutsiderKeeps
<1>5. ASSUME NEW c \in Tabs, Status(c) PROVE LockInv'
  <2>1. c \in Callers /\ call[c].via # "token"
    BY <1>5 DEF Status, At, Callers, Inv, Good
  <2>2. \/ \E pc \in Steps : Goto(c, pc)
        \/ Leave(c)
    BY <1>5 DEF Status, Steps
  <2>3. ~Holds(c) /\ ~Holds(c)' /\ \A d \in Callers \ {c} : call'[d] = call[d]
    BY <2>1, <2>2, OutsiderMoves
  <2>4. UNCHANGED <<order, via, paid, lock, psp>>
    BY <1>5 DEF Status, row, provider
  <2> QED
    BY <2>1, <2>3, <2>4, OutsiderKeeps
<1>6. ASSUME NEW c \in Callers, CaptureApproved(c) PROVE LockInv'
  <2>1. call[c].via # "token"
    BY <1>6 DEF CaptureApproved, At, Inv, Good
  <2>2. ~Holds(c) /\ ~Holds(c)' /\ \A d \in Callers \ {c} : call'[d] = call[d]
    BY <1>6, <2>1, OutsiderMoves DEF CaptureApproved, Steps
  <2>3. UNCHANGED <<order, via, paid, lock>>
    BY <1>6 DEF CaptureApproved, row
  <2>4. \A k \in Tokens : psp'[k] = "captured" <=> psp[k] = "captured"
    <3>1. UNCHANGED psp \/ (call[c].id \in Approvals /\ Capture(call[c].id))
      BY <1>6 DEF CaptureApproved, provider
    <3>2. \A i \in Approvals : i \in Ids \ Tokens
      BY PaymentsAssumption DEF Ids
    <3> QED
      BY <3>1, <3>2, NoCardCaptured
  <2> QED
    BY <2>2, <2>3, <2>4, OutsiderKeeps
<1>7. ASSUME NEW c \in Deliveries, HookBegins(c) PROVE LockInv'
  <2>1. c \in Callers /\ UNCHANGED <<order, via, paid, lock, psp>>
    BY <1>7 DEF Callers, HookBegins, Succeeded, Approved, row, provider
  <2>2. PICK pc \in Steps, j \in Ids, e \in Events : Begin(c, pc, "webhook", j, e)
    BY <1>0, <1>7 DEF HookBegins, Succeeded, Approved, TypeOK, Steps
  <2>3. /\ call[c].pc = "idle" /\ call'[c].via = "webhook"
        /\ \A d \in Callers \ {c} : call'[d] = call[d]
    BY <1>0, <2>1, <2>2, BeginSets DEF Paths
  <2>4. ~Holds(c) /\ ~Holds(c)'
    BY <2>1, <2>3 DEF Holds, Inv, Good
  <2> QED
    BY <2>1, <2>3, <2>4, OutsiderKeeps
<1>8. ASSUME NEW c \in Deliveries, Acknowledge(c) PROVE LockInv'
  <2>1. c \in Callers /\ Leave(c) /\ call[c].via # "token"
        /\ UNCHANGED <<order, via, paid, lock, psp>>
    BY <1>8 DEF Callers, Acknowledge, At, Inv, Good, row, provider
  <2> QED
    BY <2>1, OutsiderMoves, OutsiderKeeps
<1>9. ASSUME NEW c \in Callers, Crash(c) PROVE LockInv'
  <2>1. Leave(c) /\ c \notin Tabs /\ UNCHANGED <<order, via, paid, lock, psp>>
    BY <1>9 DEF Crash, Prompt, row, provider
  <2>2. call[c].via # "token"
    BY <2>1 DEF Inv, Good
  <2> QED
    BY <2>1, <2>2, OutsiderMoves, OutsiderKeeps
<1>10. ASSUME NEW i \in Ids, PayHosted(i) PROVE LockInv'
  <2>1. i \in Ids \ Tokens /\ Capture(i) /\ UNCHANGED <<order, via, paid, lock, call>>
    BY <1>10, PaymentsAssumption DEF PayHosted, row
  <2> QED
    BY <2>1, NoCardCaptured, OutsideKeeps
<1>11. ASSUME NEW i \in Ids, Approve(i) PROVE LockInv'
  <2>1. UNCHANGED <<order, via, paid, lock, call>>
    BY <1>11 DEF Approve, row
  <2>2. \A k \in Tokens : psp'[k] = "captured" <=> psp[k] = "captured"
    BY <1>0, <1>11 DEF Approve, TypeOK, Ids
  <2> QED
    BY <2>1, <2>2, OutsideKeeps
<1>12. CASE Expire
  BY <1>12 DEF Expire, Prompt, LockInv, Exclusive
<1>13. CASE Die \/ UNCHANGED vars
  <2>1. UNCHANGED <<via, paid, lock, call, psp>> /\ (order' = order \/ order' # "pending")
    BY <1>13 DEF Die, vars, row, provider
  <2> QED
    BY <2>1, OutsideKeeps
<1> QED
  <2>1. Tabs \subseteq Callers
    BY DEF Callers
  <2> QED
    BY <1>1, <1>2, <1>3, <1>4, <1>5, <1>6, <1>7, <1>8, <1>9, <1>10, <1>11, <1>12, <1>13,
       <2>1, TakeLockKeeps, RecheckKeeps, ChargeKeeps, UnlockKeeps, ClaimKeeps, MovingKeeps
    DEF Next, TabBegins, TabStep, Settling

\* With answers that arrive before the lock expires the page charges one card at most,
\* in however many tabs and with however many tokens.
THEOREM ChargedOnce == ASSUME Prompt PROVE Spec => []OneInPageCharge
<1>1. LockInv => OneInPageCharge
  <2> SUFFICES ASSUME LockInv, Own
               PROVE  Cardinality({k \in Tokens : Captured(k)}) <= 1
    BY DEF OneInPageCharge, Own
  <2> DEFINE C == {k \in Tokens : Captured(k)}
  <2>1. \A j, k \in C : j = k
    BY DEF LockInv, ChargeInside, Captured
  <2>2. CASE C = {}
    BY <2>2, FS_EmptySet
  <2>3. ASSUME NEW k \in C PROVE Cardinality(C) = 1
    <3>1. C = {k}
      BY <2>1
    <3> QED
      BY <3>1, FS_Singleton
  <2> QED
    BY <2>2, <2>3
<1>2. Inv /\ Inv' /\ LockInv /\ [Next]_vars => LockInv'
  BY LockNext
<1> QED
  BY <1>1, <1>2, LockInit, InvInit, InvNext, PTL DEF Spec

-----------------------------------------------------------------------------
(* Settling implements Settlement                                          *)

\* One call at most has made the row say paid and has still to move the order.
OneClaimant == \A c, d \in Claimants : c = d

\* The order that a call is about to force forward is still waiting for its money.
ForcedWaits == \A c \in Callers : At(c, "force") => order = "pending"

\* Nothing that Settlement sees has changed.
Unseen == UNCHANGED <<order, paid, txn, flagged, Taken, Claimants>>

LEMMA UnseenStutters == ASSUME Unseen PROVE UNCHANGED Promise!vars
<1>1. UNCHANGED Settled
  BY DEF Unseen, Settled, Claimants
<1> QED
  BY <1>1 DEF Unseen, Promise!vars

\* A step of a call outside the move of the order leaves the claimants alone.
LEMMA NoNewClaimant ==
  ASSUME NEW c \in Callers, call[c].pc \notin Moving, call'[c].pc \notin Moving,
         \A d \in Callers \ {c} : call'[d] = call[d]
  PROVE  Claimants' = Claimants
  BY DEF Claimants, At

\* Statuses of the provider that no capture changes.
LEMMA TakenSame ==
  ASSUME \A i \in Ids : psp'[i] = "captured" <=> psp[i] = "captured"
  PROVE  Taken' = Taken
  BY DEF Taken

LEMMA TakenGrows ==
  ASSUME TypeOK, NEW i \in Ids, Capture(i)
  PROVE  Taken' = Taken \cup {i}
  BY DEF Taken, Capture, TypeOK

\* How a call that is not moving the order may go on without being seen.
LEMMA CallStaysOutside ==
  ASSUME TypeOK, NEW c \in Callers, call[c].pc \notin Moving,
         \/ \E pc \in Steps \ Moving : Goto(c, pc)
         \/ Leave(c) \/ Finish(c) \/ Throw(c)
         \/ \E pc \in Steps \ Moving, path \in Paths, i \in Ids, e \in Events \cup {NoEvent} :
              Begin(c, pc, path, i, e)
  PROVE  Claimants' = Claimants
<1>1. CASE \E pc \in Steps \ Moving : Goto(c, pc)
  BY <1>1, GotoMoves, NoNewClaimant DEF Moved
<1>2. CASE Leave(c)
  BY <1>2, LeaveEnds, NoNewClaimant DEF Ended
<1>3. CASE Finish(c)
  BY <1>3, FinishMoves, NoNewClaimant DEF Ended, Moved
<1>4. CASE Throw(c)
  BY <1>4, ThrowMoves, NoNewClaimant DEF Ended, Moved
<1>5. ASSUME NEW pc \in Steps \ Moving, NEW path \in Paths, NEW i \in Ids,
             NEW e \in Events \cup {NoEvent}, Begin(c, pc, path, i, e)
      PROVE  Claimants' = Claimants
  BY <1>5, BeginSets, NoNewClaimant
<1> QED
  BY <1>1, <1>2, <1>3, <1>4, <1>5

\* A call that leaves the move of the order takes the only claim with it.
LEMMA ClaimantLeaves ==
  ASSUME OneClaimant, NEW c \in Callers, call[c].pc \in Moving, call'[c].pc \notin Moving,
         \A d \in Callers \ {c} : call'[d] = call[d]
  PROVE  Claimants = {c} /\ Claimants' = {}
  BY DEF OneClaimant, Claimants, At

\* Every step of a call is one of Settlement, or is not seen.
LEMMA CallImplements ==
  ASSUME Inv, OneClaimant, ForcedWaits, NEW c \in Callers,
         \/ Remember(c) \/ TakeLock(c) \/ Recheck(c) \/ Charge(c) \/ Unlock(c) \/ Status(c)
         \/ CaptureApproved(c) \/ Claim(c)
         \/ Advance(c) \/ ReadLive(c) \/ FlagForRefund(c) \/ ForceForward(c)
         \/ Acknowledge(c) \/ Crash(c)
  PROVE  /\ Promise!Next \/ UNCHANGED Promise!vars
         /\ OneClaimant'
<1>0. TypeOK /\ Good(c)
  BY DEF Inv
<1> USE DEF Steps
<1>1. CASE Remember(c)
  <2>1. /\ call[c].pc = "remember" /\ Leave(c) /\ call[c].id \in Ids
        /\ txn' = call[c].id /\ UNCHANGED <<order, paid, flagged>>
    BY <1>0, <1>1 DEF Remember, At, Good
  <2>2. Claimants' = Claimants
    BY <1>0, <2>1, CallStaysOutside
  <2>3. Taken' = Taken
    BY <1>0, <1>1, TakenSame DEF Remember, TypeOK
  <2>4. UNCHANGED Settled
    BY <2>1, <2>2 DEF Settled, Claimants
  <2> QED
    BY <2>1, <2>2, <2>3, <2>4 DEF Promise!Next, Promise!Name, OneClaimant
<1>2. CASE TakeLock(c) \/ Recheck(c) \/ Unlock(c) \/ Status(c) \/ Acknowledge(c)
  <2>1. UNCHANGED <<order, paid, txn, flagged, psp>> /\ call[c].pc \notin Moving
    BY <1>2 DEF TakeLock, Recheck, Unlock, Status, Acknowledge, row, provider, At
  <2>2. Leave(c) \/ \E pc \in Steps \ Moving : Goto(c, pc)
    BY <1>2 DEF TakeLock, Recheck, Unlock, Status, Acknowledge
  <2>3. Claimants' = Claimants
    BY <1>0, <2>1, <2>2, CallStaysOutside
  <2>4. Unseen
    BY <2>1, <2>3, TakenSame DEF Unseen
  <2> QED
    BY <2>3, <2>4, UnseenStutters DEF OneClaimant
<1>3. CASE Charge(c) \/ CaptureApproved(c)
  <2>1. /\ call[c].pc \in {"charge", "capture"} /\ call[c].id \in Ids
        /\ UNCHANGED <<order, paid, txn, flagged>>
        /\ Throw(c) \/ Goto(c, "claim")
        /\ UNCHANGED psp \/ Capture(call[c].id)
    BY <1>0, <1>3 DEF Charge, CaptureApproved, row, provider, At, Good
  <2>2. Claimants' = Claimants
    BY <1>0, <2>1, CallStaysOutside
  <2>3. UNCHANGED Settled
    BY <2>1, <2>2 DEF Settled, Claimants
  <2>4. CASE UNCHANGED psp
    BY <2>1, <2>2, <2>4, TakenSame, UnseenStutters DEF Unseen, OneClaimant
  <2>5. CASE Capture(call[c].id)
    <3>1. Taken' = Taken \cup {call[c].id}
      BY <1>0, <2>1, <2>5, TakenGrows
    <3> QED
      BY <2>1, <2>2, <2>3, <3>1 DEF Promise!Next, Promise!Capture, OneClaimant
  <2> QED
    BY <2>1, <2>4, <2>5
<1>4. CASE Claim(c)
  <2>1. /\ call[c].pc = "claim" /\ call[c].id \in Taken
        /\ UNCHANGED <<order, flagged, psp>>
    BY <1>0, <1>4 DEF Claim, At, Good, Taken, provider
  <2>2. Taken' = Taken
    BY <2>1, TakenSame
  <2>3. CASE paid /\ Finish(c) /\ UNCHANGED <<paid, txn, via>>
    BY <1>0, <2>1, <2>2, <2>3, CallStaysOutside, UnseenStutters DEF Unseen, OneClaimant
  <2>4. CASE ~paid /\ paid' = TRUE /\ txn' = call[c].id /\ Goto(c, "advance")
    <3>1. Claimants = {}
      BY <2>4 DEF Inv, Good, Claimants, At
    <3>2. call'[c].pc \in Moving /\ \A d \in Callers \ {c} : call'[d] = call[d]
      BY <1>0, <2>4, GotoMoves DEF Moved, Moving
    <3>3. Claimants' = {c}
      BY <3>1, <3>2 DEF Claimants, At
    <3>4. Settled = "no" /\ Settled' = "claimed"
      BY <2>4, <3>3 DEF Settled, Claimants
    <3>5. Promise!Settle(call[c].id)
      BY <2>1, <2>2, <2>4, <3>4 DEF Promise!Settle
    <3> QED
      BY <2>1, <3>3, <3>5 DEF Promise!Next, OneClaimant, Taken
  <2> QED
    BY <1>4, <2>3, <2>4 DEF Claim
<1>5. CASE Advance(c) \/ ReadLive(c) \/ FlagForRefund(c) \/ ForceForward(c)
  <2>1. /\ call[c].pc \in Moving /\ paid /\ Taken' = Taken
        /\ UNCHANGED <<paid, txn, psp>>
    BY <1>0, <1>5, TakenSame DEF Advance, ReadLive, FlagForRefund, ForceForward, At, Moving, Good, row, provider
  <2>2. CASE \E pc \in Moving : Goto(c, pc) /\ UNCHANGED <<order, flagged>>
    <3>1. call'[c].pc \in Moving /\ \A d \in Callers \ {c} : call'[d] = call[d]
      BY <1>0, <2>2, GotoMoves DEF Moved
    <3>2. Claimants' = Claimants
      BY <2>1, <3>1 DEF Claimants
    <3> QED
      BY <2>1, <2>2, <3>2, UnseenStutters DEF Unseen, OneClaimant
  <2>3. ASSUME Finish(c), Promise!Serve \/ Promise!Flag \/ ~(Settled = "claimed" /\ Settled' = "done")
        PROVE  (Promise!Next \/ UNCHANGED Promise!vars) /\ OneClaimant'
    <3>1. call'[c].pc \notin Moving /\ \A d \in Callers \ {c} : call'[d] = call[d]
      BY <1>0, <2>3, FinishMoves DEF Moved, Ended, Moving
    <3>2. Claimants = {c} /\ Claimants' = {}
      BY <2>1, <3>1, ClaimantLeaves
    <3>3. Settled = "claimed" /\ Settled' = "done"
      BY <2>1, <3>2 DEF Settled
    <3> QED
      BY <2>3, <3>2, <3>3 DEF Promise!Next, OneClaimant
  <2>4. CASE order = "pending" /\ order' = "processing" /\ Finish(c) /\ UNCHANGED flagged
    BY <2>1, <2>3, <2>4 DEF Promise!Serve
  <2>5. CASE FlagForRefund(c)
    BY <1>0, <2>1, <2>3, <2>5 DEF FlagForRefund, At, Good, Promise!Flag
  <2>6. CASE ForceForward(c)
    BY <2>1, <2>3, <2>6 DEF ForceForward, ForcedWaits, Promise!Serve
  <2> QED
    BY <1>5, <2>2, <2>4, <2>5, <2>6 DEF Advance, ReadLive, Moving, row
<1>6. CASE Crash(c)
  <2>1. Leave(c) /\ UNCHANGED <<order, paid, txn, flagged, psp>>
    BY <1>6 DEF Crash, row, provider
  <2>2. Taken' = Taken
    BY <2>1, TakenSame
  <2>3. CASE call[c].pc \notin Moving
    BY <1>0, <2>1, <2>2, <2>3, CallStaysOutside, UnseenStutters DEF Unseen, OneClaimant
  <2>4. CASE call[c].pc \in Moving
    <3>1. call'[c].pc \notin Moving /\ \A d \in Callers \ {c} : call'[d] = call[d]
      BY <1>0, <2>1, LeaveEnds DEF Ended
    <3>2. Claimants = {c} /\ Claimants' = {} /\ paid
      BY <1>0, <2>4, <3>1, ClaimantLeaves DEF Good
    <3>3. Settled = "claimed" /\ Settled' = "done"
      BY <2>1, <3>2 DEF Settled, Claimants
    <3> QED
      BY <2>1, <2>2, <3>2, <3>3 DEF Promise!Next, Promise!Abandon, OneClaimant
  <2> QED
    BY <2>3, <2>4
<1> QED
  BY <1>1, <1>2, <1>3, <1>4, <1>5, <1>6

\* No step but the second reading brings a call to the forced write.
LEMMA OnlyReadForces ==
  ASSUME TypeOK, NEW c \in Callers,
         \/ \E pc \in Steps \ {"force"} : Goto(c, pc)
         \/ Leave(c) \/ Finish(c) \/ Throw(c)
         \/ \E pc \in Steps \ {"force"}, path \in Paths, i \in Ids, e \in Events \cup {NoEvent} :
              Begin(c, pc, path, i, e)
  PROVE  \A d \in Callers : At(d, "force")' => At(d, "force")
<1>1. call'[c].pc # "force" /\ \A d \in Callers \ {c} : call'[d] = call[d]
  <2>1. ASSUME NEW pc \in Steps \ {"force"}, Goto(c, pc)
        PROVE  call'[c].pc # "force" /\ \A d \in Callers \ {c} : call'[d] = call[d]
    BY <2>1, GotoMoves DEF Moved
  <2>2. ASSUME NEW pc \in Steps \ {"force"}, NEW path \in Paths, NEW i \in Ids,
               NEW e \in Events \cup {NoEvent}, Begin(c, pc, path, i, e)
        PROVE  call'[c].pc # "force" /\ \A d \in Callers \ {c} : call'[d] = call[d]
    BY <2>2, BeginSets
  <2> QED
    BY <2>1, <2>2, LeaveEnds, FinishMoves, ThrowMoves DEF Moved, Ended
<1> QED
  BY <1>1 DEF At

\* The order stays as it is while a call is about to force it: that call alone moves
\* it, and nobody ends it at that moment.
LEMMA ForcedStays ==
  ASSUME ~OperatorRaces, Inv, OneClaimant, ForcedWaits, [Next]_vars
  PROVE  ForcedWaits'
<1>0. TypeOK /\ Tabs \subseteq Callers /\ Deliveries \subseteq Callers
  BY DEF Inv, Callers
<1> USE DEF Steps
<1>1. ASSUME UNCHANGED order, \A d \in Callers : At(d, "force")' => At(d, "force")
      PROVE  ForcedWaits'
  BY <1>1 DEF ForcedWaits
<1>2. ASSUME NEW c \in Tabs, TabBegins(c) PROVE ForcedWaits'
  <2>1. UNCHANGED order
    BY <1>2 DEF TabBegins, OpenIntent, BeginPay, BeginReturn, row
  <2>2. \E pc \in Steps \ {"force"}, path \in Paths, i \in Ids, e \in Events \cup {NoEvent} :
          Begin(c, pc, path, i, e)
    BY <1>0, <1>2 DEF TabBegins, OpenIntent, BeginPay, BeginReturn, Paths, Ids, TypeOK
  <2> QED
    BY <1>0, <1>1, <2>1, <2>2, OnlyReadForces
<1>3. ASSUME NEW d \in Deliveries, HookBegins(d) PROVE ForcedWaits'
  <2>1. UNCHANGED order
    BY <1>3 DEF HookBegins, Succeeded, Approved, row
  <2>2. \E pc \in Steps \ {"force"}, path \in Paths, i \in Ids, e \in Events \cup {NoEvent} :
          Begin(d, pc, path, i, e)
    BY <1>0, <1>3 DEF HookBegins, Succeeded, Approved, Paths, TypeOK
  <2> QED
    BY <1>0, <1>1, <2>1, <2>2, OnlyReadForces
<1>4. ASSUME NEW c \in Callers,
             \/ TabStep(c) \/ CaptureApproved(c) \/ Claim(c) \/ FlagForRefund(c)
             \/ Acknowledge(c) \/ Crash(c)
      PROVE  ForcedWaits'
  <2>1. UNCHANGED order
    BY <1>4 DEF TabStep, Remember, TakeLock, Recheck, Charge, Unlock, Status, CaptureApproved,
         Claim, FlagForRefund, Acknowledge, Crash, row
  <2>2. \/ \E pc \in Steps \ {"force"} : Goto(c, pc)
        \/ Leave(c) \/ Finish(c) \/ Throw(c)
    BY <1>4 DEF TabStep, Remember, TakeLock, Recheck, Charge, Unlock, Status, CaptureApproved,
         Claim, FlagForRefund, Acknowledge, Crash
  <2> QED
    BY <1>0, <1>1, <2>1, <2>2, OnlyReadForces
<1>5. ASSUME NEW c \in Callers, ReadLive(c) PROVE ForcedWaits'
  <2>1. UNCHANGED order /\ Goto(c, IF order = "pending" THEN "force" ELSE "flag")
    BY <1>5 DEF ReadLive, row
  <2>2. CASE order = "pending"
    BY <2>1, <2>2 DEF ForcedWaits
  <2>3. CASE order # "pending"
    BY <1>0, <1>1, <2>1, <2>3, OnlyReadForces
  <2> QED
    BY <2>2, <2>3
<1>6. ASSUME NEW c \in Callers, Advance(c) \/ ForceForward(c) PROVE ForcedWaits'
  <2>1. c \in Claimants /\ \A d \in Callers \ {c} : ~At(d, "force")
    BY <1>6 DEF Advance, ForceForward, At, Claimants, OneClaimant
  <2>2. Finish(c) \/ Goto(c, "reread")
    BY <1>6 DEF Advance, ForceForward
  <2>3. \A d \in Callers : ~At(d, "force")'
    <3>1. call'[c].pc # "force" /\ \A d \in Callers \ {c} : call'[d] = call[d]
      BY <1>0, <2>2, FinishMoves, GotoMoves DEF Moved, Ended
    <3> QED
      BY <2>1, <3>1 DEF At
  <2> QED
    BY <2>3 DEF ForcedWaits
<1>7. ASSUME (\E i \in Ids : PayHosted(i) \/ Approve(i)) \/ Expire \/ UNCHANGED vars
      PROVE  ForcedWaits'
  <2>1. UNCHANGED <<order, call>>
    BY <1>7 DEF PayHosted, Approve, Expire, vars, row
  <2> QED
    BY <1>1, <2>1 DEF At
<1>8. CASE Die
  BY <1>8 DEF Die, BeingForced, ForcedWaits, At
<1> QED
  BY <1>0, <1>2, <1>3, <1>4, <1>5, <1>6, <1>7, <1>8 DEF Next, Settling

LEMMA StepImplements ==
  Inv /\ OneClaimant /\ ForcedWaits /\ [Next]_vars
    => [Promise!Next]_(Promise!vars) /\ OneClaimant'
<1> SUFFICES ASSUME Inv, OneClaimant, ForcedWaits, [Next]_vars
             PROVE  (Promise!Next \/ UNCHANGED Promise!vars) /\ OneClaimant'
  OBVIOUS
<1>0. TypeOK /\ Tabs \subseteq Callers /\ Deliveries \subseteq Callers
  BY DEF Inv, Callers
<1>1. ASSUME NEW c \in Tabs, TabBegins(c)
      PROVE  (Promise!Next \/ UNCHANGED Promise!vars) /\ OneClaimant'
  <2>1. UNCHANGED <<order, paid, txn, flagged>> /\ call[c].pc \notin Moving
    BY <1>1 DEF TabBegins, OpenIntent, BeginPay, BeginReturn, row, Begin, At
  <2>2. \A i \in Ids : psp'[i] = "captured" <=> psp[i] = "captured"
    BY <1>0, <1>1 DEF TabBegins, OpenIntent, BeginPay, BeginReturn, provider, TypeOK
  <2>3. \E pc \in Steps \ Moving, path \in Paths, i \in Ids, e \in Events \cup {NoEvent} :
          Begin(c, pc, path, i, e)
    BY <1>0, <1>1 DEF TabBegins, OpenIntent, BeginPay, BeginReturn, Steps, Paths, Ids, TypeOK
  <2>4. Claimants' = Claimants
    BY <1>0, <2>1, <2>3, CallStaysOutside
  <2> QED
    BY <2>1, <2>2, <2>4, TakenSame, UnseenStutters DEF Unseen, OneClaimant
<1>2. ASSUME NEW d \in Deliveries, HookBegins(d)
      PROVE  (Promise!Next \/ UNCHANGED Promise!vars) /\ OneClaimant'
  <2>1. UNCHANGED <<order, paid, txn, flagged, psp>> /\ call[d].pc \notin Moving
    BY <1>2 DEF HookBegins, Succeeded, Approved, row, provider, Begin, At
  <2>2. \E pc \in Steps \ Moving, path \in Paths, i \in Ids, e \in Events \cup {NoEvent} :
          Begin(d, pc, path, i, e)
    BY <1>0, <1>2 DEF HookBegins, Succeeded, Approved, Steps, Paths, TypeOK
  <2>3. Claimants' = Claimants
    BY <1>0, <2>1, <2>2, CallStaysOutside
  <2> QED
    BY <2>1, <2>3, TakenSame, UnseenStutters DEF Unseen, OneClaimant
<1>3. ASSUME NEW i \in Ids, PayHosted(i)
      PROVE  (Promise!Next \/ UNCHANGED Promise!vars) /\ OneClaimant'
  <2>1. Capture(i) /\ UNCHANGED <<order, paid, txn, flagged, call>>
    BY <1>3 DEF PayHosted, row
  <2>2. Taken' = Taken \cup {i}
    BY <1>0, <2>1, TakenGrows
  <2>3. Claimants' = Claimants /\ UNCHANGED Settled
    BY <2>1 DEF Claimants, Settled, At
  <2> QED
    BY <2>1, <2>2, <2>3 DEF Promise!Next, Promise!Capture, OneClaimant
<1>4. ASSUME (\E i \in Ids : Approve(i)) \/ Expire \/ UNCHANGED vars
      PROVE  (Promise!Next \/ UNCHANGED Promise!vars) /\ OneClaimant'
  <2>1. UNCHANGED <<order, paid, txn, flagged, call>>
    BY <1>4 DEF Approve, Expire, vars, row
  <2>2. \A j \in Ids : psp'[j] = "captured" <=> psp[j] = "captured"
    BY <1>0, <1>4 DEF Approve, Expire, vars, provider, TypeOK
  <2>3. Claimants' = Claimants
    BY <2>1 DEF Claimants, At
  <2> QED
    BY <2>1, <2>2, <2>3, TakenSame, UnseenStutters DEF Unseen, OneClaimant
<1>5. CASE Die
  <2>1. UNCHANGED <<paid, txn, flagged, psp, call>> /\ order' = "dead"
    BY <1>5 DEF Die, provider
  <2>2. Claimants' = Claimants /\ UNCHANGED Settled /\ Taken' = Taken
    BY <2>1, TakenSame DEF Claimants, Settled, At
  <2> QED
    BY <2>1, <2>2 DEF Promise!Next, Promise!Die, OneClaimant
<1> QED
  BY <1>0, <1>1, <1>2, <1>3, <1>4, <1>5, CallImplements DEF Next, TabStep, Settling

LEMMA InitImplements == Init => Promise!Init /\ OneClaimant /\ ForcedWaits
<1> SUFFICES ASSUME Init PROVE Promise!Init /\ OneClaimant /\ ForcedWaits
  OBVIOUS
<1>1. \A c \in Callers : call[c].pc = "idle"
  BY DEF Init, Idle
<1>2. Taken = {} /\ Settled = "no"
  BY DEF Init, Taken, Settled
<1> QED
  BY <1>1, <1>2 DEF Init, Promise!Init, OneClaimant, ForcedWaits, Claimants, At

\* Settling an order implements Settlement, for any tabs, deliveries, intents and
\* tokens, as long as no operator ends the order inside the forced write: the row says
\* paid once and for captured money, and the one call that made it say so serves the
\* order or flags it, by whatever steps, while it may die and others end the order.
THEOREM SettlementImplemented == ASSUME ~OperatorRaces PROVE Spec => SettlesAsPromised
<1>1. Inv /\ OneClaimant /\ ForcedWaits /\ [Next]_vars => [Promise!Next]_(Promise!vars)
  BY StepImplements
<1>2. Inv /\ OneClaimant /\ ForcedWaits /\ [Next]_vars => OneClaimant' /\ ForcedWaits'
  BY StepImplements, ForcedStays
<1>3. Init => OneClaimant /\ ForcedWaits
  BY InitImplements
<1>4. Init => Promise!Init
  BY InitImplements
<1> QED
  BY <1>1, <1>2, <1>3, <1>4, InvInit, InvNext, PTL DEF Spec, Promise!Spec, SettlesAsPromised

-----------------------------------------------------------------------------
(* The joint with OrderLifecycle                                           *)

\* With the money left out, a step of Settlement is one of OrderFate.
LEMMA PromiseDecides ==
  ASSUME Promise!Next \/ UNCHANGED Promise!vars
  PROVE  Fate!Next \/ UNCHANGED Fate!vars
<1>1. CASE \E i \in Ids : Promise!Capture(i) \/ Promise!Name(i)
  BY <1>1 DEF Promise!Capture, Promise!Name, Fate!vars
<1>2. CASE \E i \in Ids : Promise!Settle(i)
  BY <1>2 DEF Promise!Settle, Fate!Settle, Fate!Next
<1>3. CASE Promise!Serve \/ Promise!Flag \/ Promise!Abandon
  BY <1>3 DEF Promise!Serve, Promise!Flag, Promise!Abandon, Fate!Serve, Fate!Flag, Fate!Abandon, Fate!Next
<1>4. CASE Promise!Die
  <2>1. CASE order = "dead"
    BY <1>4, <2>1 DEF Promise!Die, Fate!vars
  <2>2. CASE order # "dead"
    <3>1. Fate!End("dead")
      BY <1>4, <2>2 DEF Promise!Die, Fate!End
    <3> QED
      BY <3>1 DEF Fate!Next
  <2> QED
    BY <2>1, <2>2
<1>5. CASE UNCHANGED Promise!vars
  BY <1>5 DEF Promise!vars, Fate!vars
<1> QED
  BY <1>1, <1>2, <1>3, <1>4, <1>5 DEF Promise!Next

\* Under the same assumption, which FateIsDecided makes of OrderLifecycle as well,
\* paying an order, on every path, implements what OrderLifecycle implements for it:
\* markPaid as the payment service knows it and as the order service runs it are
\* details of one story.
THEOREM FateAgreed == ASSUME ~OperatorRaces PROVE Spec => Fate!Spec
<1>1. [Promise!Next]_(Promise!vars) => [Fate!Next]_(Fate!vars)
  BY PromiseDecides
<1>2. Promise!Init => Fate!Init
  BY DEF Promise!Init, Fate!Init
<1> QED
  BY <1>1, <1>2, SettlementImplemented, PTL DEF SettlesAsPromised, Promise!Spec, Fate!Spec

=============================================================================
