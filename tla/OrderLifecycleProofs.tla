------------------------ MODULE OrderLifecycleProofs ------------------------
(***************************************************************************)
(* Theorems about OrderLifecycle, for any number of orders, variants,      *)
(* carts, checkout requests and settlements.                               *)
(***************************************************************************)
EXTENDS OrderLifecycle, FiniteSetTheorems, TLAPS

(***************************************************************************)
(* The invariant the theorems rest on.  Each part is named; the parts of   *)
(* Inv hold of every instance, those of LedgerInv need that no direct move *)
(* falls between markPaid's live re-read and its forced write.             *)
(***************************************************************************)

\* A call that is past its first statement knows its order.
BusyHasOrder ==
  /\ \A r \in Requests : req[r].pc \in {"stale", "reread", "free"} => req[r].order \in Orders
  /\ \A s \in Settlers : call[s].pc # "idle" => call[s].order \in Orders

Typed == TypeOK /\ BusyHasOrder

-----------------------------------------------------------------------------
(* What transition() does to the types                                     *)

LEMMA ClampType == \A a, b \in Nat : Clamp(a, b) \in Nat
  BY DEF Clamp

LEMMA HandType ==
  ASSUME TypeOK, NEW o \in Orders, NEW H, Hand(o, H)
  PROVE  sent' \in [Orders -> [Handoffs -> Nat]]
  BY DEF Hand, TypeOK

LEMMA MoveType ==
  ASSUME Typed, NEW o \in Orders, NEW to, Move(o, to)
  PROVE  /\ status' \in [Orders -> Statuses \cup {"none"}]
         /\ inventory' \in [Variants -> Nat]
         /\ reserved' \in [Variants -> Nat]
         /\ sent' \in [Orders -> [Handoffs -> Nat]]
         /\ UNCHANGED <<items, key, payment, flagged, reconciled, origin, stock>>
<1> USE DEF Typed, TypeOK
<1>1. status[o] \in Statuses /\ to \in Transitions[status[o]]
  BY DEF Move, CanMove
<1>2. to \in Statuses
  BY <1>1 DEF Transitions, Statuses
<1>3. status' \in [Orders -> Statuses \cup {"none"}]
  BY <1>2 DEF Move
<1>4. items[o] \in [Variants -> Nat]
  OBVIOUS
<1>5. inventory' \in [Variants -> Nat]
  <2>1. CASE to = "processing"
    BY <2>1, <1>4 DEF Move, CanMove, Confirmable, InventoryAfter
  <2>2. CASE to # "processing"
    BY <2>2, <1>4 DEF Move, InventoryAfter
  <2> QED BY <2>1, <2>2
<1>6. reserved' \in [Variants -> Nat]
  <2>1. CASE to = "processing"
    BY <2>1, <1>4 DEF Move, CanMove, Confirmable, ReservedAfter
  <2>2. CASE to # "processing"
    BY <2>2, <1>4, ClampType DEF Move, ReservedAfter
  <2> QED BY <2>1, <2>2
<1>7. sent' \in [Orders -> [Handoffs -> Nat]]
  BY HandType DEF Move
<1> QED
  BY <1>3, <1>5, <1>6, <1>7 DEF Move

LEMMA TryMoveType ==
  ASSUME Typed, NEW o \in Orders, NEW to, TryMove(o, to)
  PROVE  /\ status' \in [Orders -> Statuses \cup {"none"}]
         /\ inventory' \in [Variants -> Nat]
         /\ reserved' \in [Variants -> Nat]
         /\ sent' \in [Orders -> [Handoffs -> Nat]]
         /\ UNCHANGED <<items, key, payment, flagged, reconciled, origin, stock>>
  BY MoveType DEF TryMove, rows, shelf, Typed, TypeOK

LEMMA SetReqType ==
  ASSUME TypeOK, NEW r \in Requests, NEW pc \in ReqStates, NEW o \in Orders \cup {NoOrder},
         SetReq(r, pc, o)
  PROVE  /\ req' \in [Requests -> [pc : ReqStates, cart : Carts \cup {NoCart},
                                   lineup : [Variants -> 0 .. MaxQty],
                                   order : Orders \cup {NoOrder}]]
         /\ req'[r].pc = pc /\ req'[r].order = o
         /\ \A q \in Requests : q # r => req'[q] = req[q]
<1> DEFINE Rec == [pc : ReqStates, cart : Carts \cup {NoCart},
                   lineup : [Variants -> 0 .. MaxQty], order : Orders \cup {NoOrder}]
<1>1. req[r] \in Rec /\ req \in [Requests -> Rec]
  BY DEF TypeOK
<1>2. [req[r] EXCEPT !.pc = pc, !.order = o] \in Rec
  BY <1>1
<1>3. req' = [req EXCEPT ![r] = [req[r] EXCEPT !.pc = pc, !.order = o]]
  BY DEF SetReq
<1> HIDE DEF Rec
<1>4. req' \in [Requests -> Rec]
  BY <1>1, <1>2, <1>3
<1>5. req'[r] = [req[r] EXCEPT !.pc = pc, !.order = o]
  BY <1>1, <1>3
<1>6. \A q \in Requests : q # r => req'[q] = req[q]
  BY <1>1, <1>3
<1>7. req'[r].pc = pc /\ req'[r].order = o
  BY <1>1, <1>5 DEF Rec
<1> QED
  BY <1>4, <1>6, <1>7 DEF Rec

LEMMA SetCallType ==
  ASSUME TypeOK, NEW s \in Settlers, NEW pc \in CallStates, SetCall(s, pc)
  PROVE  /\ call' \in [Settlers -> [pc : CallStates, order : Orders \cup {NoOrder}]]
         /\ call'[s].pc = pc /\ call'[s].order = call[s].order
         /\ \A t \in Settlers : t # s => call'[t] = call[t]
  BY DEF SetCall, TypeOK

-----------------------------------------------------------------------------
(* Type correctness                                                        *)

LEMMA TypedInit == Init => Typed
  BY ConstantsAssumption
  DEF Init, Typed, TypeOK, BusyHasOrder, Idle, IdleCall, NoLineup, ReqStates, CallStates

LEMMA TypedRequest ==
  ASSUME Typed, NEW r \in Requests, RequestStep(r) \/ CrashRequest(r)
  PROVE  Typed'
<1> USE DEF Typed, BusyHasOrder
<1> USE DEF ReqStates
<1>1. CASE FailStale(r)
  <2>1. req[r].order \in Orders
    BY <1>1 DEF FailStale
  <2>2. TypeOK'
    BY <1>1, <2>1, TryMoveType, SetReqType DEF FailStale, TypeOK
  <2> QED
    BY <1>1, <2>1, <2>2, SetReqType DEF FailStale
<1>2. CASE Reread(r)
  <2>1. req[r].order \in Orders
    BY <1>2 DEF Reread
  <2>2. PICK pc \in {"free", "done"} : SetReq(r, pc, req[r].order)
    BY <1>2 DEF Reread
  <2>3. TypeOK'
    BY <1>2, <2>1, <2>2, SetReqType DEF Reread, TypeOK, rows, shelf
  <2> QED
    BY <1>2, <2>1, <2>2, <2>3, SetReqType DEF Reread
<1>3. CASE FreeKey(r)
  <2>1. TypeOK'
    BY <1>3, SetReqType DEF FreeKey, TypeOK, shelf
  <2> QED
    BY <1>3, <2>1, SetReqType DEF FreeKey, TypeOK
<1>4. ASSUME NEW o \in Orders, InsertOrder(r, o) PROVE Typed'
  <2>1. req[r].lineup \in [Variants -> 0 .. MaxQty] /\ req[r].cart \in Carts \cup {NoCart}
    BY DEF TypeOK
  <2>2. /\ status' \in [Orders -> Statuses \cup {"none"}]
        /\ items' \in [Orders -> [Variants -> 0 .. MaxQty]]
        /\ key' \in [Orders -> Carts \cup {NoCart}]
        /\ origin' \in [Orders -> Carts \cup {NoCart}]
    BY <1>4, <2>1 DEF InsertOrder, TypeOK, Statuses
  <2>3. reserved' \in [Variants -> Nat]
    BY <1>4, <2>1 DEF InsertOrder, TypeOK
  <2>4. TypeOK'
    BY <1>4, <2>2, <2>3, SetReqType DEF InsertOrder, TypeOK
  <2> QED
    BY <1>4, <2>4, SetReqType DEF InsertOrder
<1>5. CASE InsertFails(r) \/ AdoptWinner(r)
  <2>1. PICK pc \in {"refused", "adopt", "done"}, o \in Orders \cup {NoOrder} : SetReq(r, pc, o)
    BY <1>5 DEF InsertFails, AdoptWinner, Keyed
  <2>2. TypeOK'
    BY <1>5, <2>1, SetReqType DEF InsertFails, AdoptWinner, TypeOK, rows, shelf
  <2> QED
    BY <1>5, <2>1, <2>2, SetReqType DEF InsertFails, AdoptWinner
<1>6. CASE CrashRequest(r)
  BY <1>6, ConstantsAssumption DEF CrashRequest, TypeOK, rows, shelf, Idle, NoLineup
<1> QED
  BY <1>1, <1>2, <1>3, <1>4, <1>5, <1>6 DEF RequestStep

LEMMA TypedSettler ==
  ASSUME Typed, NEW s \in Settlers, SettlerStep(s) \/ CrashSettler(s)
  PROVE  Typed'
<1> USE DEF Typed, BusyHasOrder, CallStates
<1> DEFINE o == call[s].order
<1>0. call[s].pc # "idle" /\ o \in Orders
  BY DEF SettlerStep, CrashSettler, Confirm, ReadLive, FlagForRefund, ForceForward, PaidEdge
<1>1. CASE Confirm(s)
  <2>1. PICK pc \in {"moved", "threw"} : SetCall(s, pc)
    BY <1>1 DEF Confirm
  <2>2. TypeOK'
    BY <1>0, <1>1, <2>1, TryMoveType, SetCallType DEF Confirm, TypeOK
  <2> QED
    BY <1>0, <1>1, <2>1, <2>2, SetCallType DEF Confirm
<1>2. CASE ReadLive(s)
  <2>1. PICK pc \in {"forcing", "stopping"} : SetCall(s, pc)
    BY <1>2 DEF ReadLive
  <2>2. TypeOK'
    BY <1>2, <2>1, SetCallType DEF ReadLive, TypeOK, rows, shelf
  <2> QED
    BY <1>0, <1>2, <2>1, <2>2, SetCallType DEF ReadLive
<1>3. CASE FlagForRefund(s)
  BY <1>0, <1>3 DEF FlagForRefund, TypeOK, shelf, IdleCall
<1>4. CASE ForceForward(s)
  <2>1. items[o] \in [Variants -> Nat]
    BY <1>0 DEF TypeOK
  <2>2. inventory' \in [Variants -> Nat] /\ reserved' \in [Variants -> Nat]
    BY <1>4, <2>1, ClampType DEF ForceForward, TypeOK
  <2>3. status' \in [Orders -> Statuses \cup {"none"}]
    BY <1>4 DEF ForceForward, TypeOK, Statuses
  <2>4. sent' \in [Orders -> [Handoffs -> Nat]]
    BY <1>0, <1>4, HandType DEF ForceForward
  <2>5. TypeOK'
    BY <1>0, <1>4, <2>2, <2>3, <2>4, SetCallType DEF ForceForward, TypeOK
  <2> QED
    BY <1>0, <1>4, <2>5, SetCallType DEF ForceForward
<1>5. CASE PaidEdge(s)
  <2>1. sent' \in [Orders -> [Handoffs -> Nat]]
    BY <1>0, <1>5, HandType DEF PaidEdge
  <2> QED
    BY <1>0, <1>5, <2>1 DEF PaidEdge, TypeOK, rows, shelf, IdleCall
<1>6. CASE CrashSettler(s)
  BY <1>6 DEF CrashSettler, TypeOK, rows, shelf, IdleCall
<1> QED
  BY <1>1, <1>2, <1>3, <1>4, <1>5, <1>6 DEF SettlerStep

LEMMA TypedStep == Typed /\ [Next]_vars => Typed'
<1> SUFFICES ASSUME Typed, [Next]_vars PROVE Typed'
  OBVIOUS
<1> USE DEF Typed, BusyHasOrder
<1>1. ASSUME NEW o \in Orders, NEW to \in DirectMoves, DirectMove(o, to) PROVE Typed'
  BY <1>1, MoveType DEF DirectMove, TypeOK
<1>2. ASSUME NEW v \in Variants, NEW w \in StockWrites, WriteStock(v, w) PROVE Typed'
  <2>1. w[1] \in StockStatuses /\ w[2] \in Nat
    BY ConstantsAssumption
  <2> QED
    BY <1>2, <2>1 DEF WriteStock, TypeOK, rows
<1>3. ASSUME NEW r \in Requests, NEW c \in Carts \cup {NoCart}, NEW l \in Lineups, Lookup(r, c, l)
      PROVE  Typed'
  <2>1. PICK pc \in {"insert", "stale", "done"}, o \in Orders \cup {NoOrder} :
          /\ req' = [req EXCEPT ![r] = [pc |-> pc, cart |-> c, lineup |-> l, order |-> o]]
          /\ pc = "stale" => o \in Orders
    BY <1>3 DEF Lookup, Keyed
  <2>2. l \in [Variants -> 0 .. MaxQty]
    BY DEF Lineups
  <2>3. TypeOK'
    BY <1>3, <2>1, <2>2 DEF Lookup, TypeOK, rows, shelf, ReqStates
  <2> QED
    BY <1>3, <2>1, <2>3 DEF Lookup, TypeOK
<1>4. ASSUME NEW s \in Settlers, NEW o \in Orders, Settle(s, o) PROVE Typed'
  BY <1>4 DEF Settle, TypeOK, shelf, CallStates
<1>5. ASSUME NEW S \in SUBSET Orders, SweepRead(S) PROVE Typed'
  BY <1>5 DEF SweepRead, TypeOK, rows, shelf
<1>6. ASSUME NEW o \in Orders, SweepFail(o) PROVE Typed'
  BY <1>6, TryMoveType DEF SweepFail, TypeOK
<1>7. CASE UNCHANGED vars
  BY <1>7 DEF vars, rows, shelf, TypeOK
<1> QED
  BY <1>1, <1>2, <1>3, <1>4, <1>5, <1>6, <1>7, TypedRequest, TypedSettler DEF Next

\* The variables keep their types, and a call that is past its first statement
\* works on an existing row.
THEOREM TypeCorrect == Spec => []TypeOK
<1>1. Spec => []Typed
  BY TypedInit, TypedStep, PTL DEF Spec
<1>2. Typed => TypeOK
  BY DEF Typed
<1> QED
  BY <1>1, <1>2, PTL

-----------------------------------------------------------------------------
(* Settlements                                                             *)

Busy(s) == call[s].pc # "idle"

\* The claim on the payment row keeps settlements apart: at most one is under
\* way for an order, its order is paid, and an order that went through the paid
\* edge has none under way.
SettlersApart ==
  \A s, t \in Settlers : s # t /\ Busy(s) /\ Busy(t) => call[s].order # call[t].order

SettlersPaid ==
  \A s \in Settlers : Busy(s) =>
    /\ payment[call[s].order] = "paid"
    /\ status[call[s].order] # "none"
    /\ call[s].pc \in {"forcing", "moved"} => status[call[s].order] # "failed"

ServedIsSettled ==
  \A o \in Orders :
    /\ sent[o]["fulfil"] <= 1
    /\ sent[o]["fulfil"] > 0 => /\ payment[o] = "paid"
                                /\ status[o] \notin {"none", "failed"}
                                /\ \A s \in Settlers : Busy(s) => call[s].order # o

SettleInv == SettlersApart /\ SettlersPaid /\ ServedIsSettled

\* A step that settles nothing: rows stay, no paid order fails, nobody is served.
Quiet ==
  \A o \in Orders :
    /\ status[o] # "none" => status'[o] # "none"
    /\ payment[o] = "paid" /\ status[o] # "failed" => status'[o] # "failed"
    /\ payment'[o] = payment[o]
    /\ sent'[o]["fulfil"] = sent[o]["fulfil"]

LEMMA TryMoveQuiet ==
  ASSUME Typed, NEW o \in Orders, NEW to, TryMove(o, to)
  PROVE  Quiet
<1> USE DEF Typed, TypeOK
<1>1. CASE UNCHANGED <<rows, shelf, sent>>
  BY <1>1 DEF rows, Quiet
<1>2. CASE Move(o, to)
  <2>1. to # "none" /\ (to = "failed" => payment[o] # "paid")
    BY <1>2 DEF Move, CanMove, Transitions, Statuses
  <2>2. "fulfil" \notin HandoffsAfter(to)
    BY DEF HandoffsAfter, Terminal
  <2>3. \A p \in Orders : sent'[p]["fulfil"] = sent[p]["fulfil"]
    BY <1>2, <2>2 DEF Move, Hand, Handoffs
  <2> QED
    BY <1>2, <2>1, <2>3 DEF Move, Quiet
<1> QED
  BY <1>1, <1>2 DEF TryMove

\* The invariant survives quiet steps in which each settlement stays, ends or
\* goes on with its order.
LEMMA QuietKeepsSettleInv ==
  ASSUME Typed, SettleInv, Quiet,
         \A s \in Settlers :
           \/ call'[s] = call[s]
           \/ call'[s].pc = "idle"
           \/ /\ Busy(s) /\ call'[s].order = call[s].order
              /\ call'[s].pc \in {"forcing", "moved"} => status'[call[s].order] # "failed"
  PROVE  SettleInv'
<1> USE DEF Typed, BusyHasOrder, Busy
<1>1. SettlersApart'
  BY DEF SettleInv, SettlersApart
<1>2. SettlersPaid'
  BY DEF SettleInv, SettlersPaid, Quiet
<1>3. ServedIsSettled'
  BY DEF SettleInv, ServedIsSettled, Quiet
<1> QED
  BY <1>1, <1>2, <1>3 DEF SettleInv

LEMMA SettleInvInit == Init => SettleInv
  BY DEF Init, SettleInv, SettlersApart, SettlersPaid, ServedIsSettled, Busy, IdleCall, Handoffs

LEMMA RequestQuiet ==
  ASSUME Typed, NEW r \in Requests, RequestStep(r) \/ CrashRequest(r)
  PROVE  Quiet /\ call' = call
<1> USE DEF Typed, BusyHasOrder
<1>1. CASE FailStale(r)
  BY <1>1, TryMoveQuiet DEF FailStale
<1>2. ASSUME NEW o \in Orders, InsertOrder(r, o) PROVE Quiet /\ call' = call
  BY <1>2 DEF InsertOrder, Quiet, TypeOK
<1>3. CASE Reread(r) \/ FreeKey(r) \/ InsertFails(r) \/ AdoptWinner(r) \/ CrashRequest(r)
  BY <1>3 DEF Reread, FreeKey, InsertFails, AdoptWinner, CrashRequest, Quiet, rows
<1> QED
  BY <1>1, <1>2, <1>3 DEF RequestStep

LEMMA SettleInvSettler ==
  ASSUME Typed, SettleInv, NEW s \in Settlers, SettlerStep(s) \/ CrashSettler(s)
  PROVE  SettleInv'
<1> USE DEF Typed, BusyHasOrder, Busy
<1> DEFINE o == call[s].order
<1>0. Busy(s) /\ o \in Orders /\ payment[o] = "paid"
  BY DEF SettlerStep, CrashSettler, Confirm, ReadLive, FlagForRefund, ForceForward, PaidEdge,
         SettleInv, SettlersPaid
<1>1. CASE Confirm(s)
  <2>1. Quiet
    BY <1>0, <1>1, TryMoveQuiet DEF Confirm
  <2>2. PICK pc \in {"moved", "threw"} :
          SetCall(s, pc) /\ (pc = "moved" => CanMove(o, "processing"))
    BY <1>1 DEF Confirm
  <2>3. pc = "moved" => status'[o] # "failed"
    BY <1>0, <1>1, <2>2 DEF Confirm, TryMove, Move, TypeOK
  <2> QED
    BY <1>0, <2>1, <2>2, <2>3, SetCallType, QuietKeepsSettleInv DEF CallStates
<1>2. CASE ReadLive(s)
  <2>1. PICK pc \in {"forcing", "stopping"} : SetCall(s, pc) /\ (pc = "forcing" => status[o] = "pending")
    BY <1>2 DEF ReadLive
  <2>2. Quiet /\ status' = status
    BY <1>2 DEF ReadLive, rows, Quiet
  <2> QED
    BY <1>0, <2>1, <2>2, SetCallType, QuietKeepsSettleInv DEF CallStates
<1>3. CASE FlagForRefund(s) \/ CrashSettler(s)
  <2>1. Quiet
    BY <1>3 DEF FlagForRefund, CrashSettler, rows, Quiet
  <2>2. call' = [call EXCEPT ![s] = IdleCall]
    BY <1>3 DEF FlagForRefund, CrashSettler
  <2> QED
    BY <2>1, <2>2, QuietKeepsSettleInv DEF IdleCall, TypeOK
<1>4. CASE ForceForward(s)
  <2>1. status' = [status EXCEPT ![o] = "processing"] /\ payment' = payment
    BY <1>4 DEF ForceForward
  <2>2. \A p \in Orders : sent'[p]["fulfil"] = sent[p]["fulfil"]
    BY <1>0, <1>4 DEF ForceForward, Hand, Handoffs, TypeOK
  <2>3. Quiet
    BY <1>0, <2>1, <2>2 DEF Quiet, TypeOK
  <2>4. SetCall(s, "moved") /\ status'[o] # "failed"
    BY <1>0, <1>4 DEF ForceForward, TypeOK
  <2> QED
    BY <1>0, <2>3, <2>4, SetCallType, QuietKeepsSettleInv DEF CallStates
<1>5. CASE PaidEdge(s)
  <2>1. status' = status /\ payment' = payment /\ call' = [call EXCEPT ![s] = IdleCall]
    BY <1>5 DEF PaidEdge, rows
  <2>2. \A p \in Orders : p # o => sent'[p]["fulfil"] = sent[p]["fulfil"]
    BY <1>5 DEF PaidEdge, Hand, TypeOK
  <2>3. sent'[o]["fulfil"] = sent[o]["fulfil"] + 1
    BY <1>0, <1>5 DEF PaidEdge, Hand, Handoffs, TypeOK
  <2>4. sent[o]["fulfil"] = 0
    <3>1. sent[o]["fulfil"] \in Nat
      BY <1>0 DEF TypeOK, Handoffs
    <3> QED
      BY <1>0, <3>1 DEF SettleInv, ServedIsSettled
  <2>5. status[o] \notin {"none", "failed"} /\ \A t \in Settlers : t # s /\ Busy(t) => call[t].order # o
    BY <1>0, <1>5 DEF SettleInv, SettlersPaid, SettlersApart, PaidEdge
  <2>6. \A t \in Settlers : Busy(t)' => t # s /\ call'[t] = call[t]
    BY <2>1 DEF IdleCall, TypeOK
  <2>7. SettlersApart' /\ SettlersPaid'
    BY <2>1, <2>6 DEF SettleInv, SettlersPaid, SettlersApart
  <2>8. ServedIsSettled'
    BY <1>0, <2>1, <2>2, <2>3, <2>4, <2>5, <2>6 DEF SettleInv, ServedIsSettled
  <2> QED
    BY <2>7, <2>8 DEF SettleInv
<1> QED
  BY <1>1, <1>2, <1>3, <1>4, <1>5 DEF SettlerStep

LEMMA SettleInvStep == Typed /\ SettleInv /\ [Next]_vars => SettleInv'
<1> SUFFICES ASSUME Typed, SettleInv, [Next]_vars PROVE SettleInv'
  OBVIOUS
<1>1. ASSUME Quiet, call' = call PROVE SettleInv'
  BY <1>1, QuietKeepsSettleInv
<1>2. ASSUME NEW o \in Orders, NEW to \in DirectMoves, DirectMove(o, to) PROVE SettleInv'
  BY <1>1, <1>2, TryMoveQuiet DEF DirectMove, TryMove
<1>3. ASSUME NEW v \in Variants, NEW w \in StockWrites, WriteStock(v, w) PROVE SettleInv'
  BY <1>1, <1>3 DEF WriteStock, rows, Quiet
<1>4. ASSUME NEW r \in Requests, NEW c \in Carts \cup {NoCart}, NEW l \in Lineups, Lookup(r, c, l)
      PROVE  SettleInv'
  BY <1>1, <1>4 DEF Lookup, rows, Quiet
<1>5. ASSUME NEW s \in Settlers, NEW o \in Orders, Settle(s, o) PROVE SettleInv'
  <2>1. /\ payment[o] # "paid" /\ status[o] # "none" /\ status' = status /\ sent' = sent
        /\ payment' = [payment EXCEPT ![o] = "paid"]
        /\ call' = [call EXCEPT ![s] = [pc |-> "claimed", order |-> o]]
    BY <1>5 DEF Settle
  <2>2. \A t \in Settlers : Busy(t) => call[t].order # o
    BY <2>1 DEF SettleInv, SettlersPaid
  <2>3. \A t \in Settlers : t # s => call'[t] = call[t]
    BY <2>1 DEF Typed, TypeOK
  <2>4. call'[s].order = o /\ call'[s].pc = "claimed"
    BY <2>1 DEF Typed, TypeOK
  <2>5. payment'[o] = "paid" /\ \A p \in Orders : p # o => payment'[p] = payment[p]
    BY <2>1 DEF Typed, TypeOK
  <2>6. SettlersApart'
    BY <2>2, <2>3, <2>4 DEF SettleInv, SettlersApart, Busy
  <2>7. SettlersPaid'
    BY <2>1, <2>2, <2>3, <2>4, <2>5 DEF SettleInv, SettlersPaid, Busy, Typed, BusyHasOrder
  <2>8. ServedIsSettled'
    BY <2>1, <2>3, <2>4, <2>5 DEF SettleInv, ServedIsSettled, Busy
  <2> QED
    BY <2>6, <2>7, <2>8 DEF SettleInv
<1>6. ASSUME NEW S \in SUBSET Orders, SweepRead(S) PROVE SettleInv'
  BY <1>1, <1>6 DEF SweepRead, rows, Quiet
<1>7. ASSUME NEW o \in Orders, SweepFail(o) PROVE SettleInv'
  BY <1>1, <1>7, TryMoveQuiet DEF SweepFail
<1>8. CASE UNCHANGED vars
  BY <1>1, <1>8 DEF vars, rows, Quiet
<1>9. ASSUME NEW r \in Requests, RequestStep(r) \/ CrashRequest(r) PROVE SettleInv'
  BY <1>1, <1>9, RequestQuiet
<1> QED
  BY <1>2, <1>3, <1>4, <1>5, <1>6, <1>7, <1>8, <1>9, SettleInvSettler DEF Next

LEMMA SettleInvariant == Spec => [](Typed /\ SettleInv)
  BY TypedInit, TypedStep, SettleInvInit, SettleInvStep, PTL DEF Spec

\* However many settlements arrive for an order, and wherever a process dies,
\* its paid edge (vendor submission, receipt, cart clear) runs at most once.
THEOREM PaidEdgeRunsOnce == Spec => []PaidEdgeOnce
<1>1. SettleInv => PaidEdgeOnce
  BY DEF SettleInv, ServedIsSettled, PaidEdgeOnce
<1> QED
  BY <1>1, SettleInvariant, PTL

\* An order that went through the paid edge is never in status 'failed'.
THEOREM ServedOrderNeverFails == Spec => []ServedNeverFailed
<1>1. SettleInv => ServedNeverFailed
  BY DEF SettleInv, ServedIsSettled, ServedNeverFailed
<1> QED
  BY <1>1, SettleInvariant, PTL

\* Both together.
THEOREM ServedOnceForGood == Spec => []ServedForGood
<1>1. PaidEdgeOnce /\ ServedNeverFailed => ServedForGood
  BY DEF ServedForGood
<1> QED
  BY <1>1, PaidEdgeRunsOnce, ServedOrderNeverFails, PTL

-----------------------------------------------------------------------------
(* No charge is lost while no process dies                                 *)

SettledSomewhere ==
  \A o \in Orders : payment[o] = "paid" =>
    \/ \E s \in Settlers : Busy(s) /\ call[s].order = o
    \/ sent[o]["fulfil"] > 0
    \/ o \in flagged

\* A settlement that ends has run the paid edge or set the refund flag.
LEMMA SettlerHandsOver ==
  ASSUME Typed, SettledSomewhere, NEW s \in Settlers, SettlerStep(s)
  PROVE  SettledSomewhere'
<1> USE DEF Typed, BusyHasOrder, Busy
<1> DEFINE o == call[s].order
<1>0. Busy(s) /\ o \in Orders /\ payment' = payment
  BY DEF SettlerStep, Confirm, ReadLive, FlagForRefund, ForceForward, PaidEdge, TryMove, Move, rows
<1>1. \A t \in Settlers : t # s => call'[t] = call[t]
  BY DEF SettlerStep, Confirm, ReadLive, FlagForRefund, ForceForward, PaidEdge, SetCall, TypeOK
<1>2. flagged \subseteq flagged'
  BY DEF SettlerStep, Confirm, ReadLive, FlagForRefund, ForceForward, PaidEdge, TryMove, Move, rows
<1>3. \A p \in Orders : sent[p]["fulfil"] > 0 => sent'[p]["fulfil"] > 0
  <2>1. CASE \E H : Hand(o, H)
    BY <1>0, <2>1 DEF Hand, Handoffs, TypeOK
  <2>2. CASE UNCHANGED sent
    BY <2>2
  <2> QED
    BY <2>1, <2>2 DEF SettlerStep, Confirm, ReadLive, FlagForRefund, ForceForward, PaidEdge,
                      TryMove, Move
<1>4. \/ call'[s].pc # "idle" /\ call'[s].order = o
      \/ o \in flagged'
      \/ sent'[o]["fulfil"] > 0
  <2>1. CASE FlagForRefund(s)
    BY <2>1 DEF FlagForRefund
  <2>2. CASE PaidEdge(s)
    BY <1>0, <2>2 DEF PaidEdge, Hand, Handoffs, TypeOK
  <2>3. CASE Confirm(s) \/ ReadLive(s) \/ ForceForward(s)
    <3>1. PICK pc \in CallStates \ {"idle"} : SetCall(s, pc)
      BY <2>3 DEF Confirm, ReadLive, ForceForward, CallStates
    <3> QED
      BY <3>1, SetCallType
  <2> QED
    BY <2>1, <2>2, <2>3 DEF SettlerStep
<1>5. ASSUME NEW p \in Orders, payment'[p] = "paid"
      PROVE  \/ \E t \in Settlers : Busy(t)' /\ call'[t].order = p
             \/ sent'[p]["fulfil"] > 0
             \/ p \in flagged'
  <2>1. CASE p = o
    BY <2>1, <1>4
  <2>2. CASE p # o
    BY <2>2, <1>0, <1>1, <1>2, <1>3, <1>5 DEF SettledSomewhere
  <2> QED
    BY <2>1, <2>2
<1> QED
  BY <1>5 DEF SettledSomewhere

LEMMA SettledSomewhereStep ==
  ASSUME ~Crashes
  PROVE  Typed /\ SettledSomewhere /\ [Next]_vars => SettledSomewhere'
<1> SUFFICES ASSUME Typed, SettledSomewhere, [Next]_vars PROVE SettledSomewhere'
  OBVIOUS
<1> USE DEF Typed, BusyHasOrder
<1>1. ASSUME Quiet, call' = call, flagged' = flagged PROVE SettledSomewhere'
  BY <1>1 DEF SettledSomewhere, Quiet, Busy
<1>2. ASSUME NEW o \in Orders, NEW to, TryMove(o, to), call' = call PROVE SettledSomewhere'
  BY <1>1, <1>2, TryMoveQuiet DEF TryMove, Move, rows
<1>3. ASSUME NEW o \in Orders, NEW to \in DirectMoves, DirectMove(o, to) PROVE SettledSomewhere'
  BY <1>2, <1>3 DEF DirectMove, TryMove
<1>4. ASSUME NEW s \in Settlers, NEW o \in Orders, Settle(s, o) PROVE SettledSomewhere'
  <2>1. /\ call[s].pc = "idle" /\ flagged' = flagged /\ sent' = sent
        /\ payment' = [payment EXCEPT ![o] = "paid"]
        /\ call' = [call EXCEPT ![s] = [pc |-> "claimed", order |-> o]]
    BY <1>4 DEF Settle
  <2>2. \A t \in Settlers : Busy(t) => call'[t] = call[t] /\ Busy(t)'
    BY <2>1 DEF Busy, TypeOK
  <2>3. Busy(s)' /\ call'[s].order = o
    BY <2>1 DEF Busy, TypeOK
  <2> QED
    BY <2>1, <2>2, <2>3 DEF SettledSomewhere, TypeOK
<1>5. ASSUME NEW r \in Requests, RequestStep(r) \/ CrashRequest(r) PROVE SettledSomewhere'
  <2>1. flagged' = flagged
    BY <1>5 DEF RequestStep, CrashRequest, FailStale, Reread, FreeKey, InsertOrder, InsertFails,
                AdoptWinner, TryMove, Move, rows
  <2> QED
    BY <1>1, <1>5, <2>1, RequestQuiet
<1>6. ASSUME NEW o \in Orders, SweepFail(o) PROVE SettledSomewhere'
  BY <1>2, <1>6 DEF SweepFail
<1>7. ASSUME NEW s \in Settlers, SettlerStep(s) \/ CrashSettler(s) PROVE SettledSomewhere'
  BY <1>7, SettlerHandsOver DEF CrashSettler
<1>8. CASE \/ \E v \in Variants, w \in StockWrites : WriteStock(v, w)
           \/ \E r \in Requests, c \in Carts \cup {NoCart}, l \in Lineups : Lookup(r, c, l)
           \/ \E S \in SUBSET Orders : SweepRead(S)
           \/ UNCHANGED vars
  <2>1. UNCHANGED rows /\ UNCHANGED sent /\ UNCHANGED call
    BY <1>8 DEF WriteStock, Lookup, SweepRead, vars
  <2> QED
    BY <1>1, <2>1 DEF rows, Quiet
<1> QED
  BY <1>3, <1>4, <1>5, <1>6, <1>7, <1>8 DEF Next

\* A captured payment is never lost in silence while no process dies: when no
\* settlement of the order is under way any more, the order was handed to the
\* vendors or is flagged for a refund.
THEOREM ChargeNeverSilent == ASSUME ~Crashes PROVE Spec => []NoSilentCharge
<1>1. Init => SettledSomewhere
  BY DEF Init, SettledSomewhere
<1>2. Spec => [](Typed /\ SettledSomewhere)
  BY <1>1, TypedInit, TypedStep, SettledSomewhereStep, PTL DEF Spec
<1>3. SettledSomewhere => NoSilentCharge
  BY DEF SettledSomewhere, NoSilentCharge
<1> QED
  BY <1>2, <1>3, PTL

-----------------------------------------------------------------------------
(* The reserved column                                                     *)

Units(o, q) == {o} \X (1 .. q)

LEMMA UnitsCount ==
  ASSUME NEW o, NEW q \in Nat
  PROVE  IsFiniteSet(Units(o, q)) /\ Cardinality(Units(o, q)) = q
<1>1. IsFiniteSet({o}) /\ Cardinality({o}) = 1
  BY FS_Singleton
<1>2. IsFiniteSet(1 .. q) /\ Cardinality(1 .. q) = q
  BY FS_Interval
<1>3. IsFiniteSet({o} \X (1 .. q)) /\ Cardinality({o} \X (1 .. q)) = Cardinality({o}) * Cardinality(1 .. q)
  BY <1>1, <1>2, FS_Product
<1> QED
  BY <1>1, <1>2, <1>3 DEF Units

\* Adding the units of one order to a set that has none of them.
LEMMA UnitsAdded ==
  ASSUME NEW S, IsFiniteSet(S), NEW o, NEW q \in Nat, S \cap Units(o, q) = {}
  PROVE  Cardinality(S \cup Units(o, q)) = Cardinality(S) + q
<1>1. IsFiniteSet(Units(o, q)) /\ Cardinality(Units(o, q)) = q
  BY UnitsCount
<1>2. Cardinality(S \cup Units(o, q)) = Cardinality(S) + q - Cardinality({})
  BY <1>1, FS_Union
<1>3. Cardinality({}) = 0 /\ Cardinality(S) \in Nat
  BY FS_EmptySet, FS_CardinalityType
<1> QED
  BY <1>2, <1>3

LEMMA HeldFinite == \A v : IsFiniteSet(HeldUnits(v)) /\ IsFiniteSet(HeldUnits(v)')
<1>0. IsFiniteSet(1 .. MaxQty)
  <2>1. MaxQty \in Int
    BY ConstantsAssumption
  <2> QED
    BY <2>1, FS_Interval
<1>1. IsFiniteSet(Orders \X (1 .. MaxQty))
  BY <1>0, ConstantsAssumption, FS_Product
<1>2. \A v : HeldUnits(v) \subseteq Orders \X (1 .. MaxQty) /\ HeldUnits(v)' \subseteq Orders \X (1 .. MaxQty)
  BY DEF HeldUnits
<1> QED
  BY <1>1, <1>2, FS_Subset

\* An order that leaves pending takes exactly its own units out of the hold.
LEMMA HeldLeave ==
  ASSUME Typed, NEW o \in Orders, NEW to, to # "pending", status[o] = "pending",
         status' = [status EXCEPT ![o] = to], items' = items, NEW v \in Variants
  PROVE  Cardinality(HeldUnits(v)) = Cardinality(HeldUnits(v)') + items[o][v]
<1> DEFINE q == items[o][v]
<1>1. q \in Nat /\ q <= MaxQty /\ MaxQty \in Nat
  BY ConstantsAssumption DEF Typed, TypeOK
<1>2. HeldUnits(v) = HeldUnits(v)' \cup Units(o, q)
  <2>1. \A u \in Orders \X (1 .. MaxQty) :
          u \in HeldUnits(v) <=> u \in HeldUnits(v)' \/ u \in Units(o, q)
    BY <1>1 DEF HeldUnits, Units, Typed, TypeOK
  <2>2. Units(o, q) \subseteq Orders \X (1 .. MaxQty)
    BY <1>1 DEF Units
  <2> QED
    BY <2>1, <2>2 DEF HeldUnits
<1>3. HeldUnits(v)' \cap Units(o, q) = {}
  BY DEF HeldUnits, Units, Typed, TypeOK
<1> HIDE DEF q
<1>4. Cardinality(HeldUnits(v)' \cup Units(o, q)) = Cardinality(HeldUnits(v)') + q
  BY <1>1, <1>3, HeldFinite, UnitsAdded
<1> QED
  BY <1>2, <1>4 DEF q

\* A new order adds exactly its own units.
LEMMA HeldEnter ==
  ASSUME Typed, NEW o \in Orders, NEW l \in [Variants -> 0 .. MaxQty], status[o] = "none",
         status' = [status EXCEPT ![o] = "pending"], items' = [items EXCEPT ![o] = l],
         NEW v \in Variants
  PROVE  Cardinality(HeldUnits(v)') = Cardinality(HeldUnits(v)) + l[v]
<1>1. l[v] \in Nat /\ l[v] <= MaxQty /\ MaxQty \in Nat
  BY ConstantsAssumption
<1>2. HeldUnits(v)' = HeldUnits(v) \cup Units(o, l[v])
  <2>1. \A u \in Orders \X (1 .. MaxQty) :
          u \in HeldUnits(v)' <=> u \in HeldUnits(v) \/ u \in Units(o, l[v])
    BY <1>1 DEF HeldUnits, Units, Typed, TypeOK
  <2>2. Units(o, l[v]) \subseteq Orders \X (1 .. MaxQty)
    BY <1>1 DEF Units
  <2> QED
    BY <2>1, <2>2 DEF HeldUnits
<1>3. HeldUnits(v) \cap Units(o, l[v]) = {}
  BY DEF HeldUnits, Units
<1> QED
  BY <1>1, <1>2, <1>3, HeldFinite, UnitsAdded

\* An order that moves between statuses past pending leaves the hold alone.
LEMMA HeldSame ==
  ASSUME \A p \in Orders : status'[p] = "pending" <=> status[p] = "pending",
         items' = items, NEW v \in Variants
  PROVE  HeldUnits(v)' = HeldUnits(v)
  BY DEF HeldUnits

\* So no clamp ever cuts off anything.
LEMMA ClampExact == \A a, b \in Nat : a >= b => Clamp(a, b) = a - b
  BY DEF Clamp

LEMMA MoveKeepsLedger ==
  ASSUME Typed, ReservedIsHeld, NEW o \in Orders, NEW to, Move(o, to)
  PROVE  ReservedIsHeld'
<1> USE DEF Typed, TypeOK
<1>1. /\ status[o] \in Statuses /\ to \in Transitions[status[o]] /\ items' = items
      /\ status' = [status EXCEPT ![o] = to]
  BY DEF Move, CanMove
<1>2. to # "pending"
  BY <1>1 DEF Transitions, Statuses
<1>3. CASE status[o] = "pending"
  <2>1. to \in {"processing"} \cup Terminal
    BY <1>1, <1>3 DEF Transitions, Statuses, Terminal
  <2>2. SUFFICES ASSUME NEW v \in Variants PROVE reserved'[v] = Cardinality(HeldUnits(v)')
    BY DEF ReservedIsHeld
  <2>3. reserved[v] = Cardinality(HeldUnits(v)') + items[o][v]
    BY <1>1, <1>2, <1>3, HeldLeave DEF ReservedIsHeld
  <2>4. Cardinality(HeldUnits(v)') \in Nat /\ items[o][v] \in Nat /\ reserved[v] \in Nat
    BY HeldFinite, FS_CardinalityType
  <2>5. reserved[v] >= items[o][v] /\ reserved[v] - items[o][v] = Cardinality(HeldUnits(v)')
    BY <2>3, <2>4
  <2>6. reserved'[v] = reserved[v] - items[o][v]
    BY <1>3, <2>1, <2>4, <2>5, ClampExact DEF Move, ReservedAfter
  <2> QED
    BY <2>5, <2>6
<1>4. CASE status[o] # "pending"
  <2>1. to # "processing"
    BY <1>1, <1>4 DEF Transitions, Statuses
  <2>2. reserved' = reserved
    BY <1>4, <2>1 DEF Move, ReservedAfter
  <2>3. \A p \in Orders : status'[p] = "pending" <=> status[p] = "pending"
    BY <1>1, <1>2, <1>4
  <2> QED
    BY <1>1, <2>2, <2>3, HeldSame DEF ReservedIsHeld
<1> QED
  BY <1>3, <1>4

\* The order whose forced write comes next is still pending.
ForcingPending ==
  \A s \in Settlers : call[s].pc = "forcing" => status[call[s].order] = "pending"

LedgerInv == ReservedIsHeld /\ ForcingPending

LEMMA TryMoveKeepsLedger ==
  ASSUME Typed, ReservedIsHeld, NEW o \in Orders, NEW to, TryMove(o, to)
  PROVE  ReservedIsHeld'
<1>1. CASE UNCHANGED <<rows, shelf, sent>>
  BY <1>1 DEF rows, shelf, ReservedIsHeld, HeldUnits
<1> QED
  BY <1>1, MoveKeepsLedger DEF TryMove

\* A move of another order, or one refused because the order is paid, keeps a
\* settlement's order pending.
LEMMA TryMoveKeepsForcing ==
  ASSUME Typed, SettleInv, ForcingPending, NEW o \in Orders, NEW to, TryMove(o, to),
         \A s \in Settlers : call'[s].pc = "forcing" => call'[s] = call[s],
         to = "failed" \/ \A s \in Settlers : call[s].pc = "forcing" => call[s].order # o
  PROVE  ForcingPending'
<1> USE DEF Typed, BusyHasOrder
<1> SUFFICES ASSUME NEW s \in Settlers, call'[s].pc = "forcing"
             PROVE  status'[call'[s].order] = "pending"
  BY DEF ForcingPending
<1>1. /\ call'[s] = call[s] /\ call[s].order \in Orders /\ payment[call[s].order] = "paid"
      /\ status[call[s].order] = "pending"
  BY DEF ForcingPending, SettleInv, SettlersPaid, Busy
<1>2. CASE call[s].order = o
  BY <1>1, <1>2 DEF TryMove, Move, CanMove, rows
<1>3. CASE call[s].order # o
  BY <1>1, <1>3 DEF TryMove, Move, rows, TypeOK
<1> QED
  BY <1>2, <1>3

LEMMA LedgerSettler ==
  ASSUME Typed, SettleInv, LedgerInv, NEW s \in Settlers, SettlerStep(s) \/ CrashSettler(s)
  PROVE  LedgerInv'
<1> USE DEF Typed, BusyHasOrder, LedgerInv
<1> DEFINE o == call[s].order
<1>0. Busy(s) /\ o \in Orders
  BY DEF SettlerStep, CrashSettler, Confirm, ReadLive, FlagForRefund, ForceForward, PaidEdge, Busy
<1>a. \A t \in Settlers : t # s /\ call[t].pc = "forcing" => call[t].order # o
  BY <1>0 DEF SettleInv, SettlersApart, Busy
<1>1. CASE Confirm(s)
  <2>1. PICK pc \in {"moved", "threw"} : SetCall(s, pc)
    BY <1>1 DEF Confirm
  <2>2. call[s].pc # "forcing" /\ \A t \in Settlers : call'[t].pc = "forcing" => call'[t] = call[t]
    BY <1>1, <2>1, SetCallType DEF Confirm, CallStates
  <2> QED
    BY <1>0, <1>a, <1>1, <2>2, TryMoveKeepsLedger, TryMoveKeepsForcing DEF Confirm
<1>2. CASE ReadLive(s)
  <2>1. status' = status /\ items' = items /\ reserved' = reserved
    BY <1>2 DEF ReadLive, rows, shelf
  <2>2. PICK pc \in {"forcing", "stopping"} : SetCall(s, pc) /\ (pc = "forcing" => status[o] = "pending")
    BY <1>2 DEF ReadLive
  <2>3. ForcingPending'
    BY <2>1, <2>2, SetCallType DEF ForcingPending, CallStates
  <2> QED
    BY <2>1, <2>3 DEF ReservedIsHeld, HeldUnits
<1>3. CASE FlagForRefund(s) \/ PaidEdge(s) \/ CrashSettler(s)
  <2>1. status' = status /\ items' = items /\ reserved' = reserved /\ call' = [call EXCEPT ![s] = IdleCall]
    BY <1>3 DEF FlagForRefund, PaidEdge, CrashSettler, rows, shelf
  <2>2. \A t \in Settlers : call'[t].pc = "forcing" => call'[t] = call[t]
    BY <2>1 DEF IdleCall, TypeOK
  <2> QED
    BY <2>1, <2>2 DEF ReservedIsHeld, HeldUnits, ForcingPending
<1>4. CASE ForceForward(s)
  <2>1. /\ status[o] = "pending" /\ items' = items /\ status' = [status EXCEPT ![o] = "processing"]
    BY <1>4 DEF ForceForward, ForcingPending
  <2>2. ASSUME NEW v \in Variants PROVE reserved'[v] = Cardinality(HeldUnits(v)')
    <3>1. reserved[v] = Cardinality(HeldUnits(v)') + items[o][v]
      BY <1>0, <2>1, HeldLeave DEF ReservedIsHeld
    <3>2. Cardinality(HeldUnits(v)') \in Nat /\ items[o][v] \in Nat /\ reserved[v] \in Nat
      BY <1>0, HeldFinite, FS_CardinalityType DEF TypeOK
    <3>3. reserved'[v] = Clamp(reserved[v], items[o][v])
      BY <1>4 DEF ForceForward
    <3> QED
      BY <3>1, <3>2, <3>3, ClampExact
  <2>3. SetCall(s, "moved")
    BY <1>4 DEF ForceForward
  <2>4. \A t \in Settlers : call'[t].pc = "forcing" => call'[t] = call[t] /\ t # s
    BY <2>3, SetCallType DEF CallStates
  <2>5. ForcingPending'
    BY <1>a, <2>1, <2>4 DEF ForcingPending, TypeOK
  <2> QED
    BY <2>2, <2>5 DEF ReservedIsHeld
<1> QED
  BY <1>1, <1>2, <1>3, <1>4 DEF SettlerStep

LEMMA LedgerRequest ==
  ASSUME Typed, SettleInv, LedgerInv, NEW r \in Requests, RequestStep(r) \/ CrashRequest(r)
  PROVE  LedgerInv'
<1> USE DEF Typed, BusyHasOrder, LedgerInv
<1>1. CASE FailStale(r)
  <2>1. req[r].order \in Orders
    BY <1>1 DEF FailStale
  <2> QED
    BY <1>1, <2>1, TryMoveKeepsLedger, TryMoveKeepsForcing DEF FailStale
<1>2. ASSUME NEW o \in Orders, InsertOrder(r, o) PROVE LedgerInv'
  <2>1. req[r].lineup \in [Variants -> 0 .. MaxQty]
    BY DEF TypeOK
  <2>2. /\ status[o] = "none" /\ call' = call
        /\ status' = [status EXCEPT ![o] = "pending"] /\ items' = [items EXCEPT ![o] = req[r].lineup]
        /\ reserved' = [v \in Variants |-> reserved[v] + req[r].lineup[v]]
    BY <1>2 DEF InsertOrder
  <2>3. ReservedIsHeld'
    BY <2>1, <2>2, HeldEnter DEF ReservedIsHeld
  <2>4. ForcingPending'
    BY <2>2 DEF ForcingPending, TypeOK
  <2> QED
    BY <2>3, <2>4
<1>3. CASE Reread(r) \/ FreeKey(r) \/ InsertFails(r) \/ AdoptWinner(r) \/ CrashRequest(r)
  <2>1. status' = status /\ items' = items /\ reserved' = reserved /\ call' = call
    BY <1>3 DEF Reread, FreeKey, InsertFails, AdoptWinner, CrashRequest, rows, shelf
  <2> QED
    BY <2>1 DEF ReservedIsHeld, HeldUnits, ForcingPending
<1> QED
  BY <1>1, <1>2, <1>3 DEF RequestStep

LEMMA LedgerStep ==
  ASSUME ~OperatorRaces
  PROVE  Typed /\ SettleInv /\ LedgerInv /\ [Next]_vars => LedgerInv'
<1> SUFFICES ASSUME Typed, SettleInv, LedgerInv, [Next]_vars PROVE LedgerInv'
  OBVIOUS
<1> USE DEF Typed, BusyHasOrder, LedgerInv
<1>1. ASSUME NEW o \in Orders, NEW to \in DirectMoves, DirectMove(o, to) PROVE LedgerInv'
  <2>1. ~BeingForced(o) /\ Move(o, to) /\ call' = call
    BY <1>1 DEF DirectMove
  <2>2. \A s \in Settlers : call[s].pc = "forcing" => call[s].order # o
    <3>1. ASSUME NEW s \in Settlers, call[s].pc = "forcing", call[s].order = o PROVE FALSE
      <4>1. call[s] = [pc |-> "forcing", order |-> o]
        BY <3>1 DEF TypeOK
      <4> QED
        BY <2>1, <4>1 DEF BeingForced
    <3> QED
      BY <3>1
  <2> QED
    BY <2>1, <2>2, MoveKeepsLedger, TryMoveKeepsForcing DEF TryMove
<1>2. ASSUME NEW o \in Orders, SweepFail(o) PROVE LedgerInv'
  BY <1>2, TryMoveKeepsLedger, TryMoveKeepsForcing DEF SweepFail
<1>3. ASSUME NEW s \in Settlers, NEW o \in Orders, Settle(s, o) PROVE LedgerInv'
  <2>1. status' = status /\ items' = items /\ reserved' = reserved
    BY <1>3 DEF Settle, shelf
  <2>2. \A t \in Settlers : call'[t].pc = "forcing" => call'[t] = call[t]
    BY <1>3 DEF Settle, TypeOK
  <2> QED
    BY <2>1, <2>2 DEF ReservedIsHeld, HeldUnits, ForcingPending
<1>4. CASE \/ \E v \in Variants, w \in StockWrites : WriteStock(v, w)
           \/ \E r \in Requests, c \in Carts \cup {NoCart}, l \in Lineups : Lookup(r, c, l)
           \/ \E S \in SUBSET Orders : SweepRead(S)
           \/ UNCHANGED vars
  <2>1. status' = status /\ items' = items /\ reserved' = reserved /\ call' = call
    BY <1>4 DEF WriteStock, Lookup, SweepRead, vars, rows, shelf
  <2> QED
    BY <2>1 DEF ReservedIsHeld, HeldUnits, ForcingPending
<1> QED
  BY <1>1, <1>2, <1>3, <1>4, LedgerSettler, LedgerRequest DEF Next

LEMMA LedgerInit == Init => LedgerInv
<1> SUFFICES ASSUME Init PROVE LedgerInv
  OBVIOUS
<1>1. \A v \in Variants : HeldUnits(v) = {}
  BY DEF Init, HeldUnits
<1> QED
  BY <1>1, FS_EmptySet DEF Init, LedgerInv, ReservedIsHeld, ForcingPending, IdleCall

LEMMA LedgerInvariant == ASSUME ~OperatorRaces PROVE Spec => [](Typed /\ SettleInv /\ LedgerInv)
  BY TypedInit, TypedStep, SettleInvInit, SettleInvStep, LedgerInit, LedgerStep, PTL DEF Spec

\* The reserved column of every variant is exactly the number of its units on
\* pending orders: checkouts, rebuilds, sweeps, cancels, settlements, re-syncs
\* and crashes never leave a unit reserved twice, released twice or not at all,
\* unless a direct move falls inside a forced write.
THEOREM ReservedIsExact == ASSUME ~OperatorRaces PROVE Spec => []ReservedIsHeld
<1>1. LedgerInv => ReservedIsHeld
  BY DEF LedgerInv
<1> QED
  BY <1>1, LedgerInvariant, PTL

-----------------------------------------------------------------------------
(* What becomes of an order                                                *)

\* A settlement that is about to flag its order found it past waiting, and no order
\* waits again.
StoppingMoved ==
  \A s \in Settlers : call[s].pc = "stopping" => status[call[s].order] # "pending"

\* Waiting is not returned to.
NoReturn == \A o \in Orders : status[o] \notin {"none", "pending"} => status'[o] # "pending"

LEMMA TryMoveNoReturn ==
  ASSUME Typed, NEW o \in Orders, NEW to, TryMove(o, to)
  PROVE  NoReturn
<1>1. CASE UNCHANGED <<rows, shelf, sent>>
  BY <1>1 DEF rows, NoReturn
<1>2. CASE Move(o, to)
  <2>1. to # "pending"
    BY <1>2 DEF Move, CanMove, Transitions, Statuses, Typed, TypeOK
  <2> QED
    BY <1>2, <2>1 DEF Move, NoReturn, Typed, TypeOK
<1> QED
  BY <1>1, <1>2 DEF TryMove

\* Nobody but a settlement changes what the settlements are at.
LEMMA OthersNoReturn ==
  ASSUME Typed,
         \/ \E o \in Orders, to \in DirectMoves : DirectMove(o, to)
         \/ \E v \in Variants, w \in StockWrites : WriteStock(v, w)
         \/ \E r \in Requests, c \in Carts \cup {NoCart}, l \in Lineups : Lookup(r, c, l)
         \/ \E r \in Requests : RequestStep(r) \/ CrashRequest(r)
         \/ \E S \in SUBSET Orders : SweepRead(S)
         \/ \E o \in Orders : SweepFail(o)
         \/ UNCHANGED vars
  PROVE  NoReturn /\ call' = call
<1> USE DEF Typed, BusyHasOrder
<1>1. ASSUME NEW o \in Orders, NEW to \in DirectMoves, DirectMove(o, to)
      PROVE  NoReturn /\ call' = call
  BY <1>1, TryMoveNoReturn DEF DirectMove, TryMove
<1>2. ASSUME NEW r \in Requests, FailStale(r) PROVE NoReturn /\ call' = call
  BY <1>2, TryMoveNoReturn DEF FailStale
<1>3. ASSUME NEW r \in Requests, NEW o \in Orders, InsertOrder(r, o) PROVE NoReturn /\ call' = call
  BY <1>3 DEF InsertOrder, NoReturn, TypeOK
<1>4. ASSUME NEW o \in Orders, SweepFail(o) PROVE NoReturn /\ call' = call
  BY <1>4, TryMoveNoReturn DEF SweepFail
<1>5. ASSUME status' = status, call' = call PROVE NoReturn /\ call' = call
  BY <1>5 DEF NoReturn
<1> QED
  BY <1>1, <1>2, <1>3, <1>4, <1>5
  DEF RequestStep, WriteStock, Lookup, Reread, FreeKey, InsertFails, AdoptWinner, CrashRequest,
      SweepRead, vars, rows

LEMMA StoppingStep ==
  Typed /\ SettleInv /\ StoppingMoved /\ [Next]_vars => StoppingMoved'
<1> SUFFICES ASSUME Typed, SettleInv, StoppingMoved, [Next]_vars PROVE StoppingMoved'
  OBVIOUS
<1> USE DEF Typed, BusyHasOrder
<1>1. ASSUME NoReturn,
             \A s \in Settlers : call'[s].pc = "stopping" =>
               /\ call'[s].order = call[s].order /\ call[s].pc # "idle"
               /\ status[call[s].order] # "pending"
      PROVE  StoppingMoved'
  BY <1>1 DEF StoppingMoved, NoReturn, SettleInv, SettlersPaid, Busy
<1>2. ASSUME NoReturn, call' = call PROVE StoppingMoved'
  BY <1>1, <1>2 DEF StoppingMoved
<1>3. ASSUME NEW s \in Settlers, NEW o \in Orders, Settle(s, o) PROVE StoppingMoved'
  <2>1. NoReturn /\ \A t \in Settlers : call'[t].pc = "stopping" => call'[t] = call[t]
    BY <1>3 DEF Settle, NoReturn, TypeOK
  <2> QED
    BY <1>1, <2>1 DEF StoppingMoved
<1>4. ASSUME NEW s \in Settlers, SettlerStep(s) \/ CrashSettler(s) PROVE StoppingMoved'
  <2>0. call[s].pc # "idle" /\ call[s].order \in Orders
    BY <1>4 DEF SettlerStep, CrashSettler, Confirm, ReadLive, FlagForRefund, ForceForward, PaidEdge
  <2>1. CASE Confirm(s)
    <3>1. PICK pc \in {"moved", "threw"} : SetCall(s, pc)
      BY <2>1 DEF Confirm
    <3>2. NoReturn /\ \A t \in Settlers : call'[t].pc = "stopping" => call'[t] = call[t]
      BY <2>0, <2>1, <3>1, TryMoveNoReturn, SetCallType DEF Confirm, CallStates
    <3> QED
      BY <1>1, <3>2 DEF StoppingMoved
  <2>2. CASE ReadLive(s)
    <3>1. PICK pc \in {"forcing", "stopping"} :
            SetCall(s, pc) /\ (pc = "stopping" => status[call[s].order] # "pending")
      BY <2>2 DEF ReadLive
    <3>2. NoReturn
      BY <2>2 DEF ReadLive, rows, NoReturn
    <3> QED
      BY <1>1, <2>0, <3>1, <3>2, SetCallType DEF StoppingMoved, CallStates
  <2>3. CASE FlagForRefund(s) \/ PaidEdge(s) \/ CrashSettler(s)
    <3>1. status' = status /\ call' = [call EXCEPT ![s] = IdleCall]
      BY <2>3 DEF FlagForRefund, PaidEdge, CrashSettler, rows
    <3>2. \A t \in Settlers : call'[t].pc = "stopping" => call'[t] = call[t]
      BY <3>1 DEF IdleCall, TypeOK
    <3> QED
      BY <1>1, <3>1, <3>2 DEF StoppingMoved, NoReturn
  <2>4. CASE ForceForward(s)
    <3>1. SetCall(s, "moved") /\ status' = [status EXCEPT ![call[s].order] = "processing"]
      BY <2>4 DEF ForceForward
    <3>2. NoReturn /\ \A t \in Settlers : call'[t].pc = "stopping" => call'[t] = call[t]
      BY <2>0, <3>1, SetCallType DEF NoReturn, CallStates, TypeOK
    <3> QED
      BY <1>1, <3>2 DEF StoppingMoved
  <2> QED
    BY <1>4, <2>1, <2>2, <2>3, <2>4 DEF SettlerStep
<1> QED
  BY <1>2, <1>3, <1>4, OthersNoReturn DEF Next

FateInv == Typed /\ SettleInv /\ LedgerInv /\ StoppingMoved

LEMMA FateInvariant == ASSUME ~OperatorRaces PROVE Spec => []FateInv
<1>1. Init => StoppingMoved
  BY DEF Init, StoppingMoved, IdleCall
<1>2. Spec => []StoppingMoved
  BY <1>1, SettleInvariant, StoppingStep, PTL DEF Spec
<1>3. Typed /\ SettleInv /\ LedgerInv /\ StoppingMoved => FateInv
  BY DEF FateInv
<1> QED
  BY <1>2, <1>3, LedgerInvariant, PTL

\* What OrderFate sees of an order.
LEMMA FateSame ==
  ASSUME NEW o \in Orders, Outcome(o)' = Outcome(o), SettledState(o)' = SettledState(o),
         o \in flagged' <=> o \in flagged
  PROVE  UNCHANGED Fate(o)!vars
  BY DEF Fate!vars

\* A step of others than the settlements that settles nothing is, for every order, its
\* end, its move by hand, or no step.
LEMMA TryMoveFate ==
  ASSUME Typed, NEW p \in Orders, NEW to, TryMove(p, to), call' = call, NEW o \in Orders
  PROVE  Fate(o)!Next \/ UNCHANGED Fate(o)!vars
<1> USE DEF Typed
<1>0. payment' = payment /\ flagged' = flagged
  BY DEF TryMove, Move, rows
<1>1. SettledState(o)' = SettledState(o)
  BY <1>0 DEF SettledState, Deciding
<1>2. CASE status'[o] = status[o]
  <2>1. Outcome(o)' = Outcome(o)
    BY <1>2 DEF Outcome
  <2> QED
    BY <1>0, <1>1, <2>1, FateSame
<1>3. CASE status'[o] # status[o]
  <2>1. o = p /\ Move(o, to) /\ status'[o] = to
    BY <1>3 DEF TryMove, Move, rows, TypeOK
  <2>2. to \in Transitions[status[o]] /\ status[o] \in Statuses /\ (to = "failed" => payment[o] # "paid")
    BY <2>1 DEF Move, CanMove, TypeOK
  <2>3. CASE to \in Terminal
    <3>1. Outcome(o)' = to /\ Outcome(o) \notin Terminal
      BY <2>1, <2>2, <2>3 DEF Outcome, Terminal, Transitions, Statuses
    <3>2. to \in {"failed"} => SettledState(o) = "no"
      BY <2>2 DEF SettledState
    <3>3. Fate(o)!End(to)
      BY <1>0, <1>1, <3>1, <3>2 DEF Fate!End
    <3> QED
      BY <2>3, <3>3 DEF Fate!Next
  <2>4. CASE to = "processing"
    <3>1. Outcome(o)' = "processing" /\ Outcome(o) = "pending"
      BY <2>1, <2>2, <2>4 DEF Outcome, Terminal, Transitions, Statuses
    <3>2. Fate(o)!ServeByHand
      BY <1>0, <1>1, <3>1 DEF Fate!ServeByHand
    <3> QED
      BY <3>2 DEF Fate!Next
  <2>5. CASE to \in {"shipped", "delivered"}
    <3>1. Outcome(o)' = "processing" /\ Outcome(o) = "processing"
      BY <2>1, <2>2, <2>5 DEF Outcome, Terminal, Transitions, Statuses
    <3> QED
      BY <1>0, <1>1, <3>1, FateSame
  <2> QED
    BY <2>2, <2>3, <2>4, <2>5 DEF Transitions, Terminal, Statuses
<1> QED
  BY <1>2, <1>3

\* A step of one settlement: for its order the settlement decides or goes on, for all
\* the others nothing changes.
Acts(s) ==
  /\ call[s].pc # "idle" /\ call[s].order \in Orders /\ payment' = payment
  /\ \A t \in Settlers : t # s => call'[t] = call[t]
  /\ call'[s].pc = "idle" \/ call'[s].order = call[s].order

LEMMA ActsDecides ==
  ASSUME Typed, SettleInv, NEW s \in Settlers, Acts(s), NEW p \in Orders, call[s].order = p
  PROVE  /\ \A o \in Orders : o # p => SettledState(o)' = SettledState(o)
         /\ SettledState(p) = IF call[s].pc \in Undecided THEN "claimed" ELSE "done"
         /\ SettledState(p)' = IF call'[s].pc \in Undecided THEN "claimed" ELSE "done"
<1>1. payment[p] = "paid" /\ payment' = payment
  BY DEF Acts, SettleInv, SettlersPaid, Busy
<1>2. \A t \in Settlers : t # s /\ call[t].pc \in Undecided => call[t].order # p
  BY DEF Acts, SettleInv, SettlersApart, Busy, Undecided
<1>3. "idle" \notin Undecided
  BY DEF Undecided
<1>4. ASSUME NEW o \in Orders, o # p PROVE Deciding(o)' <=> Deciding(o)
  BY <1>3, <1>4 DEF Deciding, Acts
<1>5. (Deciding(p) <=> call[s].pc \in Undecided) /\ (Deciding(p)' <=> call'[s].pc \in Undecided)
  BY <1>2, <1>3 DEF Deciding, Acts
<1> QED
  BY <1>1, <1>4, <1>5 DEF SettledState

LEMMA SettlerActs ==
  ASSUME Typed, NEW s \in Settlers, SettlerStep(s) \/ CrashSettler(s)
  PROVE  Acts(s)
<1> USE DEF Typed, BusyHasOrder
<1>0. call[s].pc # "idle" /\ call[s].order \in Orders /\ payment' = payment
  BY DEF SettlerStep, CrashSettler, Confirm, ReadLive, FlagForRefund, ForceForward, PaidEdge,
         TryMove, Move, rows
<1>1. CASE Confirm(s) \/ ReadLive(s) \/ ForceForward(s)
  <2>1. PICK pc \in {"moved", "threw", "forcing", "stopping"} : SetCall(s, pc)
    BY <1>1 DEF Confirm, ReadLive, ForceForward
  <2> QED
    BY <1>0, <2>1, SetCallType DEF Acts, CallStates
<1>2. CASE FlagForRefund(s) \/ PaidEdge(s) \/ CrashSettler(s)
  BY <1>0, <1>2 DEF FlagForRefund, PaidEdge, CrashSettler, Acts, IdleCall, TypeOK
<1> QED
  BY <1>1, <1>2 DEF SettlerStep

LEMMA SettlerFate ==
  ASSUME FateInv, NEW s \in Settlers, SettlerStep(s) \/ CrashSettler(s), NEW o \in Orders
  PROVE  Fate(o)!Next \/ UNCHANGED Fate(o)!vars
<1> USE DEF FateInv
<1>0. Acts(s)
  BY SettlerActs
<1>1. PICK p \in Orders : call[s].order = p /\ status[p] # "none"
  BY <1>0 DEF Acts, SettleInv, SettlersPaid, Busy
<1>2. CASE o # p
  <2>1. status'[o] = status[o] /\ (o \in flagged' <=> o \in flagged)
    BY <1>1, <1>2 DEF SettlerStep, CrashSettler, Confirm, TryMove, Move, ReadLive, FlagForRefund,
                      ForceForward, PaidEdge, rows, Typed, TypeOK
  <2>2. Outcome(o)' = Outcome(o)
    BY <2>1 DEF Outcome
  <2> QED
    BY <1>0, <1>1, <1>2, <2>1, <2>2, ActsDecides, FateSame
<1>3. CASE o = p
  <2>0. /\ SettledState(o) = IF call[s].pc \in Undecided THEN "claimed" ELSE "done"
        /\ SettledState(o)' = IF call'[s].pc \in Undecided THEN "claimed" ELSE "done"
    BY <1>0, <1>1, <1>3, ActsDecides
  <2> USE DEF Undecided
  <2>1. ASSUME status[o] = "pending", status' = [status EXCEPT ![o] = "processing"], flagged' = flagged,
               call[s].pc \in Undecided, SetCall(s, "moved")
        PROVE  Fate(o)!Next
    <3>1. Outcome(o) = "pending" /\ Outcome(o)' = "processing"
      BY <2>1 DEF Outcome, Terminal, Typed, TypeOK
    <3>2. SettledState(o) = "claimed" /\ SettledState(o)' = "done"
      BY <2>0, <2>1, SetCallType DEF Typed, CallStates
    <3>3. Fate(o)!Serve
      BY <2>1, <3>1, <3>2 DEF Fate!Serve
    <3> QED
      BY <3>3 DEF Fate!Next
  <2>2. ASSUME status' = status, flagged' = flagged,
               call[s].pc \in Undecided <=> call'[s].pc \in Undecided
        PROVE  UNCHANGED Fate(o)!vars
    <3>1. Outcome(o)' = Outcome(o) /\ SettledState(o)' = SettledState(o)
      BY <2>0, <2>2 DEF Outcome
    <3> QED
      BY <2>2, <3>1, FateSame
  <2>3. CASE Confirm(s)
    <3>1. CASE CanMove(p, "processing")
      <4>1. Move(p, "processing") /\ SetCall(s, "moved") /\ call[s].pc = "claimed"
        BY <1>1, <2>3, <3>1 DEF Confirm, TryMove
      <4>2. status[o] = "pending"
        BY <1>1, <1>3, <3>1 DEF CanMove, Transitions, Typed, TypeOK, Statuses
      <4> QED
        BY <1>3, <2>1, <4>1, <4>2 DEF Move
    <3>2. CASE ~CanMove(p, "processing")
      <4>1. SetCall(s, "threw") /\ call[s].pc = "claimed" /\ status' = status /\ flagged' = flagged
        BY <1>1, <2>3, <3>2 DEF Confirm, TryMove, Move, rows
      <4> QED
        BY <2>2, <4>1, SetCallType DEF Typed, CallStates
    <3> QED
      BY <3>1, <3>2
  <2>4. CASE ReadLive(s)
    <3>1. PICK pc \in {"forcing", "stopping"} : SetCall(s, pc)
      BY <2>4 DEF ReadLive
    <3>2. call'[s].pc = pc
      BY <3>1, SetCallType DEF Typed, CallStates
    <3>3. call[s].pc = "threw" /\ status' = status /\ flagged' = flagged
      BY <2>4 DEF ReadLive, rows
    <3> QED
      BY <2>2, <3>2, <3>3
  <2>5. CASE FlagForRefund(s)
    <3>1. /\ call[s].pc = "stopping" /\ call'[s].pc = "idle" /\ status' = status
          /\ o \in flagged'
      BY <1>1, <1>3, <2>5 DEF FlagForRefund, IdleCall, Typed, TypeOK
    <3>2. Outcome(o) # "pending" /\ Outcome(o)' = Outcome(o)
      BY <1>1, <1>3, <3>1 DEF StoppingMoved, Outcome, Terminal
    <3>3. SettledState(o) = "claimed" /\ SettledState(o)' = "done"
      BY <2>0, <3>1
    <3>4. Fate(o)!Flag
      BY <3>1, <3>2, <3>3 DEF Fate!Flag
    <3> QED
      BY <3>4 DEF Fate!Next
  <2>6. CASE ForceForward(s)
    BY <1>1, <1>3, <2>1, <2>6 DEF ForceForward, LedgerInv, ForcingPending
  <2>7. CASE PaidEdge(s)
    <3>1. call[s].pc = "moved" /\ call'[s].pc = "idle" /\ status' = status /\ flagged' = flagged
      BY <2>7 DEF PaidEdge, IdleCall, rows, Typed, TypeOK
    <3> QED
      BY <2>2, <3>1
  <2>8. CASE CrashSettler(s)
    <3>1. call'[s].pc = "idle" /\ status' = status /\ flagged' = flagged
      BY <2>8 DEF CrashSettler, IdleCall, rows, Typed, TypeOK
    <3>2. CASE call[s].pc \in Undecided
      <4>1. Outcome(o)' = Outcome(o)
        BY <3>1 DEF Outcome
      <4>2. SettledState(o) = "claimed" /\ SettledState(o)' = "done"
        BY <2>0, <3>1, <3>2
      <4>3. Fate(o)!Abandon
        BY <3>1, <4>1, <4>2 DEF Fate!Abandon
      <4> QED
        BY <4>3 DEF Fate!Next
    <3>3. CASE call[s].pc \notin Undecided
      BY <2>2, <3>1, <3>3
    <3> QED
      BY <3>2, <3>3
  <2> QED
    BY <2>3, <2>4, <2>5, <2>6, <2>7, <2>8 DEF SettlerStep
<1> QED
  BY <1>2, <1>3

\* The claim of the payment row settles its order and nothing else.
LEMMA SettleFate ==
  ASSUME FateInv, NEW s \in Settlers, NEW p \in Orders, Settle(s, p), NEW o \in Orders
  PROVE  Fate(o)!Next \/ UNCHANGED Fate(o)!vars
<1> USE DEF FateInv
<1>1. /\ call[s].pc = "idle" /\ payment[p] # "paid"
      /\ payment' = [payment EXCEPT ![p] = "paid"]
      /\ status' = status /\ flagged' = flagged
      /\ call'[s].pc = "claimed" /\ call'[s].order = p
      /\ \A t \in Settlers : t # s => call'[t] = call[t]
  BY DEF Settle, Typed, TypeOK
<1>2. Outcome(o)' = Outcome(o)
  BY <1>1 DEF Outcome
<1>3. CASE o = p
  <2>1. SettledState(o) = "no"
    BY <1>1, <1>3 DEF SettledState
  <2>2. payment'[o] = "paid" /\ Deciding(o)'
    BY <1>1, <1>3 DEF Deciding, Undecided, Typed, TypeOK
  <2>3. SettledState(o)' = "claimed"
    BY <2>2 DEF SettledState
  <2>4. Fate(o)!Settle
    BY <1>1, <1>2, <2>1, <2>3 DEF Fate!Settle
  <2> QED
    BY <2>4 DEF Fate!Next
<1>4. CASE o # p
  <2>1. payment'[o] = payment[o] /\ (Deciding(o)' <=> Deciding(o))
    BY <1>1, <1>4 DEF Deciding, Undecided, Typed, TypeOK
  <2>2. SettledState(o)' = SettledState(o)
    BY <2>1 DEF SettledState
  <2> QED
    BY <1>1, <1>2, <2>2, FateSame
<1> QED
  BY <1>3, <1>4

LEMMA FateStep ==
  ASSUME FateInv, [Next]_vars, NEW o \in Orders
  PROVE  Fate(o)!Next \/ UNCHANGED Fate(o)!vars
<1> USE DEF FateInv, BusyHasOrder
<1>1. ASSUME NEW p \in Orders, NEW to \in DirectMoves, DirectMove(p, to)
      PROVE  Fate(o)!Next \/ UNCHANGED Fate(o)!vars
  BY <1>1, TryMoveFate DEF DirectMove, TryMove
<1>2. ASSUME NEW r \in Requests, FailStale(r) PROVE Fate(o)!Next \/ UNCHANGED Fate(o)!vars
  BY <1>2, TryMoveFate DEF FailStale, Typed
<1>3. ASSUME NEW p \in Orders, SweepFail(p) PROVE Fate(o)!Next \/ UNCHANGED Fate(o)!vars
  BY <1>3, TryMoveFate DEF SweepFail
<1>4. ASSUME Outcome(o)' = Outcome(o), call' = call, payment' = payment, flagged' = flagged
      PROVE  UNCHANGED Fate(o)!vars
  <2>1. SettledState(o)' = SettledState(o)
    BY <1>4 DEF SettledState, Deciding
  <2> QED
    BY <1>4, <2>1, FateSame
<1>5. ASSUME NEW r \in Requests, NEW p \in Orders, InsertOrder(r, p)
      PROVE  UNCHANGED Fate(o)!vars
  <2>1. Outcome(o)' = Outcome(o) /\ call' = call /\ payment' = payment /\ flagged' = flagged
    BY <1>5 DEF InsertOrder, Outcome, Typed, TypeOK
  <2> QED
    BY <1>4, <2>1
<1>6. ASSUME status' = status, call' = call, payment' = payment, flagged' = flagged
      PROVE  UNCHANGED Fate(o)!vars
  BY <1>4, <1>6 DEF Outcome
<1>7. CASE \/ \E v \in Variants, w \in StockWrites : WriteStock(v, w)
           \/ \E r \in Requests, c \in Carts \cup {NoCart}, l \in Lineups : Lookup(r, c, l)
           \/ \E r \in Requests : Reread(r) \/ FreeKey(r) \/ InsertFails(r) \/ AdoptWinner(r) \/ CrashRequest(r)
           \/ \E S \in SUBSET Orders : SweepRead(S)
           \/ UNCHANGED vars
  <2>1. status' = status /\ call' = call /\ payment' = payment /\ flagged' = flagged
    BY <1>7 DEF WriteStock, Lookup, Reread, FreeKey, InsertFails, AdoptWinner, CrashRequest, SweepRead,
                vars, rows
  <2> QED
    BY <1>6, <2>1
<1> QED
  BY <1>1, <1>2, <1>3, <1>5, <1>7, SettlerFate, SettleFate DEF Next, RequestStep

LEMMA FateInit ==
  ASSUME Init, NEW o \in Orders
  PROVE  Fate(o)!Init
  BY DEF Init, Fate!Init, Outcome, SettledState

\* Unless an operator's move falls inside a forced write, every order, however many
\* tabs, settlements, sweeps and operators are at it, settles once, and its settlement
\* decides once: it serves the order if it still waits for its money and flags it
\* otherwise, or it dies.
THEOREM FateImplemented ==
  ASSUME ~OperatorRaces, NEW o \in Orders
  PROVE  Spec => Fate(o)!Spec
<1>1. FateInv /\ [Next]_vars => [Fate(o)!Next]_(Fate(o)!vars)
  BY FateStep
<1>2. Init => Fate(o)!Init
  BY FateInit
<1> QED
  BY <1>1, <1>2, FateInvariant, PTL DEF Spec, Fate!Spec

\* The same of all orders.
THEOREM FateIsDecided == ASSUME ~OperatorRaces PROVE Spec => FateDecided
<1>1. FateInv /\ [Next]_vars => [\A o \in Orders : Fate(o)!Next \/ UNCHANGED Fate(o)!vars]_vars
  BY FateStep
<1>2. Init => \A o \in Orders : Fate(o)!Init
  BY FateInit
<1> QED
  BY <1>1, <1>2, FateInvariant, PTL DEF Spec, FateDecided

\* What everyone who reads a status relies on: a cancelled or failed order is never
\* brought back.
THEOREM TerminalOrdersStay ==
  ASSUME ~OperatorRaces
  PROVE  Spec => [][\A o \in Orders : status[o] \in Terminal => status'[o] = status[o]]_vars
<1>1. ASSUME NEW o \in Orders, Fate(o)!Next \/ UNCHANGED Fate(o)!vars, status[o] \in Terminal
      PROVE  status'[o] = status[o]
  <2>1. Outcome(o) = status[o] /\ Outcome(o) \in Terminal /\ Outcome(o) # "pending"
    BY <1>1 DEF Outcome, Terminal
  <2>2. Outcome(o)' = Outcome(o)
    BY <1>1, <2>1 DEF Fate!Next, Fate!Settle, Fate!Serve, Fate!Flag, Fate!Abandon, Fate!ServeByHand,
                      Fate!End, Fate!vars
  <2> QED
    BY <2>1, <2>2 DEF Outcome, Terminal
<1>2. [\A o \in Orders : Fate(o)!Next \/ UNCHANGED Fate(o)!vars]_vars
        => [\A o \in Orders : status[o] \in Terminal => status'[o] = status[o]]_vars
  BY <1>1
<1> QED
  BY <1>2, FateIsDecided, PTL DEF FateDecided

-----------------------------------------------------------------------------
(* One live order per cart                                                 *)

KeyInv ==
  /\ \A o \in Orders : status[o] = "none" => key[o] = NoCart
  /\ \A o, p \in Orders : key[o] = key[p] /\ key[o] # NoCart => o = p
  /\ \A o \in Orders : status[o] # "none" /\ origin[o] # NoCart
                         => key[o] = origin[o] \/ status[o] = "failed"
  /\ \A r \in Requests : req[r].pc = "free" => status[req[r].order] = "failed"

\* Steps that give no order a new key and leave failed orders failed.
LEMMA KeyKept ==
  ASSUME KeyInv, key' = key, origin' = origin,
         \A o \in Orders : /\ status'[o] = "none" <=> status[o] = "none"
                           /\ status[o] = "failed" => status'[o] = "failed",
         \A r \in Requests :
           \/ req'[r].pc # "free"
           \/ req'[r] = req[r] /\ req[r].order \in Orders
           \/ status'[req'[r].order] = "failed"
  PROVE  KeyInv'
  BY DEF KeyInv

LEMMA TryMoveKeepsFailed ==
  ASSUME Typed, NEW o \in Orders, NEW to, TryMove(o, to)
  PROVE  /\ key' = key /\ origin' = origin
         /\ \A p \in Orders : /\ status'[p] = "none" <=> status[p] = "none"
                              /\ status[p] = "failed" => status'[p] = "failed"
<1> USE DEF Typed, TypeOK
<1>1. CASE UNCHANGED <<rows, shelf, sent>>
  BY <1>1 DEF rows
<1>2. CASE Move(o, to)
  BY <1>2 DEF Move, CanMove, Transitions, Statuses
<1> QED
  BY <1>1, <1>2 DEF TryMove

LEMMA KeyInvRequest ==
  ASSUME Typed, KeyInv, NEW r \in Requests, RequestStep(r) \/ CrashRequest(r)
  PROVE  KeyInv'
<1> USE DEF Typed, BusyHasOrder
<1>0. \A q \in Requests : req[q].pc = "free" => req[q].order \in Orders
  OBVIOUS
<1>1. CASE FailStale(r)
  BY <1>0, <1>1, TryMoveKeepsFailed, SetReqType, KeyKept DEF FailStale, ReqStates
<1>2. CASE Reread(r)
  <2>1. PICK pc \in {"free", "done"} :
          SetReq(r, pc, req[r].order) /\ (pc = "free" => status[req[r].order] = "failed")
    BY <1>2 DEF Reread
  <2>2. req[r].order \in Orders /\ UNCHANGED rows
    BY <1>2 DEF Reread
  <2> QED
    BY <1>0, <2>1, <2>2, SetReqType, KeyKept DEF ReqStates, rows
<1>3. CASE FreeKey(r)
  <2>1. /\ status' = status /\ origin' = origin /\ SetReq(r, "insert", NoOrder)
        /\ key' = [key EXCEPT ![req[r].order] = NoCart] /\ req[r].order \in Orders
        /\ status[req[r].order] = "failed"
    BY <1>3 DEF FreeKey, KeyInv
  <2>2. \A q \in Requests : req'[q].pc = "free" => req'[q] = req[q]
    BY <2>1, SetReqType DEF ReqStates
  <2> QED
    BY <1>0, <2>1, <2>2 DEF KeyInv, TypeOK
<1>4. ASSUME NEW o \in Orders, InsertOrder(r, o) PROVE KeyInv'
  <2>1. /\ status[o] = "none" /\ status' = [status EXCEPT ![o] = "pending"]
        /\ key' = [key EXCEPT ![o] = req[r].cart] /\ origin' = [origin EXCEPT ![o] = req[r].cart]
        /\ SetReq(r, "done", o) /\ ~KeyTaken(req[r].cart)
    BY <1>4 DEF InsertOrder
  <2>2. \A p \in Orders : req[r].cart # NoCart => key[p] # req[r].cart
    BY <2>1 DEF KeyTaken, Keyed
  <2>3. \A q \in Requests : req'[q].pc = "free" => req'[q] = req[q]
    BY <2>1, SetReqType DEF ReqStates
  <2> QED
    BY <1>0, <2>1, <2>2, <2>3 DEF KeyInv, TypeOK
<1>5. CASE InsertFails(r) \/ AdoptWinner(r)
  <2>1. PICK pc \in {"refused", "adopt", "done"}, o \in Orders \cup {NoOrder} : SetReq(r, pc, o)
    BY <1>5 DEF InsertFails, AdoptWinner, Keyed
  <2>2. UNCHANGED rows
    BY <1>5 DEF InsertFails, AdoptWinner
  <2> QED
    BY <1>0, <2>1, <2>2, SetReqType, KeyKept DEF ReqStates, rows
<1>6. CASE CrashRequest(r)
  <2>1. UNCHANGED rows /\ \A q \in Requests : req'[q].pc = "free" => req'[q] = req[q]
    BY <1>6 DEF CrashRequest, Idle, TypeOK
  <2> QED
    BY <1>0, <2>1, KeyKept DEF rows
<1> QED
  BY <1>1, <1>2, <1>3, <1>4, <1>5, <1>6 DEF RequestStep

LEMMA KeyInvStep == Typed /\ SettleInv /\ KeyInv /\ [Next]_vars => KeyInv'
<1> SUFFICES ASSUME Typed, SettleInv, KeyInv, [Next]_vars PROVE KeyInv'
  OBVIOUS
<1> USE DEF Typed, BusyHasOrder
<1>0. \A q \in Requests : req[q].pc = "free" => req[q].order \in Orders
  OBVIOUS
<1>1. ASSUME NEW o \in Orders, NEW to, TryMove(o, to), req' = req PROVE KeyInv'
  BY <1>0, <1>1, TryMoveKeepsFailed, KeyKept
<1>2. ASSUME NEW r \in Requests, NEW c \in Carts \cup {NoCart}, NEW l \in Lineups, Lookup(r, c, l)
      PROVE  KeyInv'
  <2>1. PICK pc \in {"insert", "stale", "done"}, o \in Orders \cup {NoOrder} :
          req' = [req EXCEPT ![r] = [pc |-> pc, cart |-> c, lineup |-> l, order |-> o]]
    BY <1>2 DEF Lookup, Keyed
  <2>2. UNCHANGED rows /\ \A q \in Requests : req'[q].pc = "free" => req'[q] = req[q]
    BY <1>2, <2>1 DEF Lookup, TypeOK
  <2> QED
    BY <1>0, <2>2, KeyKept DEF rows
<1>3. ASSUME NEW s \in Settlers, ForceForward(s) PROVE KeyInv'
  <2>1. /\ call[s].order \in Orders /\ status[call[s].order] \notin {"none", "failed"}
        /\ status' = [status EXCEPT ![call[s].order] = "processing"]
        /\ key' = key /\ origin' = origin /\ req' = req
    BY <1>3 DEF ForceForward, SettleInv, SettlersPaid, Busy
  <2> QED
    BY <1>0, <2>1, KeyKept DEF TypeOK
<1>4. CASE \E s \in Settlers : Confirm(s)
  BY <1>1, <1>4 DEF Confirm
<1>5. CASE \/ \E s \in Settlers, o \in Orders : Settle(s, o)
           \/ \E s \in Settlers : ReadLive(s) \/ FlagForRefund(s) \/ PaidEdge(s) \/ CrashSettler(s)
           \/ \E v \in Variants, w \in StockWrites : WriteStock(v, w)
           \/ \E S \in SUBSET Orders : SweepRead(S)
           \/ UNCHANGED vars
  <2>1. status' = status /\ key' = key /\ origin' = origin /\ req' = req
    BY <1>5 DEF Settle, ReadLive, FlagForRefund, PaidEdge, CrashSettler, WriteStock, SweepRead, vars, rows
  <2> QED
    BY <1>0, <2>1, KeyKept
<1>6. CASE \E o \in Orders, to \in DirectMoves : DirectMove(o, to)
  BY <1>1, <1>6 DEF DirectMove, TryMove
<1>7. CASE \E o \in Orders : SweepFail(o)
  BY <1>1, <1>7 DEF SweepFail
<1>8. CASE \E r \in Requests : RequestStep(r) \/ CrashRequest(r)
  BY <1>8, KeyInvRequest
<1> QED
  BY <1>2, <1>3, <1>4, <1>5, <1>6, <1>7, <1>8 DEF Next, SettlerStep

\* However many tabs check one cart out, and whatever fails in between, at most
\* one of the orders made for the cart can still be paid, made or shipped.
THEOREM OneLiveOrder == Spec => []OneLiveOrderPerCart
<1>1. Init => KeyInv
  BY DEF Init, KeyInv, Idle
<1>2. KeyInv => OneLiveOrderPerCart
  BY DEF KeyInv, OneLiveOrderPerCart, Terminal
<1> QED
  BY <1>1, <1>2, SettleInvariant, KeyInvStep, PTL DEF Spec

-----------------------------------------------------------------------------
(* Overselling                                                             *)

\* As long as nobody overwrites the shelf from outside, no interleaving promises
\* more of a tracked variant than there is.
THEOREM TrackedNeverOversold == ASSUME StockWrites = {} PROVE Spec => []NeverOversold
<1>1. Init => NeverOversold
  BY ConstantsAssumption DEF Init, NeverOversold
<1>2. ASSUME Typed, NeverOversold, NEW o \in Orders, NEW to, TryMove(o, to) PROVE NeverOversold'
  <2>1. items[o] \in [Variants -> Nat] /\ inventory \in [Variants -> Nat] /\ reserved \in [Variants -> Nat]
    BY <1>2 DEF Typed, TypeOK
  <2>2. CASE UNCHANGED <<rows, shelf, sent>>
    BY <1>2, <2>2 DEF shelf, NeverOversold
  <2>3. CASE Move(o, to) /\ to = "processing"
    BY <1>2, <2>1, <2>3 DEF Move, CanMove, Confirmable, InventoryAfter, ReservedAfter, NeverOversold
  <2>4. CASE Move(o, to) /\ to # "processing"
    BY <1>2, <2>1, <2>4 DEF Move, InventoryAfter, ReservedAfter, NeverOversold, Clamp
  <2> QED
    BY <1>2, <2>2, <2>3, <2>4 DEF TryMove
<1>3. Typed /\ NeverOversold /\ [Next]_vars => NeverOversold'
  <2> SUFFICES ASSUME Typed, NeverOversold, [Next]_vars PROVE NeverOversold'
    OBVIOUS
  <2> USE DEF Typed, BusyHasOrder
  <2>1. CASE \E o \in Orders, to \in DirectMoves : DirectMove(o, to)
    BY <1>2, <2>1 DEF DirectMove, TryMove
  <2>2. CASE \E r \in Requests : FailStale(r)
    BY <1>2, <2>2 DEF FailStale
  <2>3. ASSUME NEW r \in Requests, NEW o \in Orders, InsertOrder(r, o) PROVE NeverOversold'
    <3>1. req[r].lineup \in [Variants -> Nat] /\ inventory \in [Variants -> Nat] /\ reserved \in [Variants -> Nat]
      BY DEF TypeOK
    <3> QED
      BY <2>3, <3>1 DEF InsertOrder, Reservable, NeverOversold
  <2>4. CASE \E s \in Settlers : Confirm(s)
    BY <1>2, <2>4 DEF Confirm
  <2>5. ASSUME NEW s \in Settlers, ForceForward(s) PROVE NeverOversold'
    <3>1. items[call[s].order] \in [Variants -> Nat] /\ inventory \in [Variants -> Nat] /\ reserved \in [Variants -> Nat]
      BY <2>5 DEF ForceForward, TypeOK
    <3> QED
      BY <2>5, <3>1 DEF ForceForward, NeverOversold, Clamp
  <2>6. CASE \E o \in Orders : SweepFail(o)
    BY <1>2, <2>6 DEF SweepFail
  <2>7. CASE UNCHANGED shelf
    BY <2>7 DEF shelf, NeverOversold
  <2> QED
    BY <2>1, <2>2, <2>3, <2>4, <2>5, <2>6, <2>7
    DEF Next, RequestStep, SettlerStep, Lookup, Reread, FreeKey, InsertFails, AdoptWinner,
        CrashRequest, Settle, ReadLive, FlagForRefund, PaidEdge, CrashSettler, SweepRead, vars
<1> QED
  BY <1>1, <1>3, TypedInit, TypedStep, PTL DEF Spec

-----------------------------------------------------------------------------
(* Both sides of the shelf                                                 *)

SoldStatuses == {"processing", "shipped", "delivered"}

LEMMA SoldFinite == \A v : IsFiniteSet(SoldUnits(v)) /\ IsFiniteSet(SoldUnits(v)')
<1>0. IsFiniteSet(1 .. MaxQty)
  <2>1. MaxQty \in Int
    BY ConstantsAssumption
  <2> QED
    BY <2>1, FS_Interval
<1>1. IsFiniteSet(Orders \X (1 .. MaxQty))
  BY <1>0, ConstantsAssumption, FS_Product
<1>2. \A v : SoldUnits(v) \subseteq Orders \X (1 .. MaxQty) /\ SoldUnits(v)' \subseteq Orders \X (1 .. MaxQty)
  BY DEF SoldUnits
<1> QED
  BY <1>1, <1>2, FS_Subset

\* An order that is confirmed adds exactly its own units to those sold.
LEMMA SoldEnter ==
  ASSUME Typed, NEW o \in Orders, status[o] \notin SoldStatuses,
         status' = [status EXCEPT ![o] = "processing"], items' = items, NEW v \in Variants
  PROVE  Cardinality(SoldUnits(v)') = Cardinality(SoldUnits(v)) + items[o][v]
<1> DEFINE q == items[o][v]
<1>1. q \in Nat /\ q <= MaxQty /\ MaxQty \in Nat
  BY ConstantsAssumption DEF Typed, TypeOK
<1>2. SoldUnits(v)' = SoldUnits(v) \cup Units(o, q)
  <2>1. \A u \in Orders \X (1 .. MaxQty) :
          u \in SoldUnits(v)' <=> u \in SoldUnits(v) \/ u \in Units(o, q)
    BY <1>1 DEF SoldUnits, SoldStatuses, Units, Typed, TypeOK
  <2>2. Units(o, q) \subseteq Orders \X (1 .. MaxQty)
    BY <1>1 DEF Units
  <2> QED
    BY <2>1, <2>2 DEF SoldUnits
<1>3. SoldUnits(v) \cap Units(o, q) = {}
  BY DEF SoldUnits, SoldStatuses, Units
<1> HIDE DEF q
<1>4. Cardinality(SoldUnits(v) \cup Units(o, q)) = Cardinality(SoldUnits(v)) + q
  BY <1>1, <1>3, SoldFinite, UnitsAdded
<1> QED
  BY <1>2, <1>4 DEF q

\* An order that ends takes exactly its own units out.
LEMMA SoldLeave ==
  ASSUME Typed, NEW o \in Orders, NEW to, to \notin SoldStatuses, status[o] \in SoldStatuses,
         status' = [status EXCEPT ![o] = to], items' = items, NEW v \in Variants
  PROVE  Cardinality(SoldUnits(v)) = Cardinality(SoldUnits(v)') + items[o][v]
<1> DEFINE q == items[o][v]
<1>1. q \in Nat /\ q <= MaxQty /\ MaxQty \in Nat
  BY ConstantsAssumption DEF Typed, TypeOK
<1>2. SoldUnits(v) = SoldUnits(v)' \cup Units(o, q)
  <2>1. \A u \in Orders \X (1 .. MaxQty) :
          u \in SoldUnits(v) <=> u \in SoldUnits(v)' \/ u \in Units(o, q)
    BY <1>1 DEF SoldUnits, SoldStatuses, Units, Typed, TypeOK
  <2>2. Units(o, q) \subseteq Orders \X (1 .. MaxQty)
    BY <1>1 DEF Units
  <2> QED
    BY <2>1, <2>2 DEF SoldUnits
<1>3. SoldUnits(v)' \cap Units(o, q) = {}
  BY DEF SoldUnits, SoldStatuses, Units, Typed, TypeOK
<1> HIDE DEF q
<1>4. Cardinality(SoldUnits(v)' \cup Units(o, q)) = Cardinality(SoldUnits(v)') + q
  BY <1>1, <1>3, SoldFinite, UnitsAdded
<1> QED
  BY <1>2, <1>4 DEF q

LEMMA SoldSame ==
  ASSUME \A p \in Orders : /\ status'[p] \in SoldStatuses <=> status[p] \in SoldStatuses
                           /\ status[p] \in SoldStatuses => items'[p] = items[p],
         NEW v \in Variants
  PROVE  SoldUnits(v)' = SoldUnits(v)
  BY DEF SoldUnits, SoldStatuses

\* Nobody has taken a variant off the tracked shelf, and nothing was invented on it.
ShelfInv == (\A v \in Variants : stock[v] = "tracked") /\ StockNotInvented

LEMMA ShelfUntouched ==
  ASSUME ShelfInv, UNCHANGED <<inventory, stock>>,
         \A p \in Orders : /\ status'[p] \in SoldStatuses <=> status[p] \in SoldStatuses
                           /\ status[p] \in SoldStatuses => items'[p] = items[p]
  PROVE  ShelfInv'
<1>1. \A v \in Variants : SoldUnits(v)' = SoldUnits(v)
  BY SoldSame
<1> QED
  BY <1>1 DEF ShelfInv, StockNotInvented

LEMMA MoveKeepsShelf ==
  ASSUME Typed, ShelfInv, NEW o \in Orders, NEW to, Move(o, to)
  PROVE  ShelfInv'
<1> USE DEF Typed, TypeOK
<1>1. /\ status[o] \in Statuses /\ to \in Transitions[status[o]] /\ items' = items /\ stock' = stock
      /\ status' = [status EXCEPT ![o] = to]
  BY DEF Move, CanMove
<1>2. CASE to = "processing"
  <2>1. status[o] = "pending"
    BY <1>1, <1>2 DEF Transitions, Statuses
  <2>2. ASSUME NEW v \in Variants
        PROVE  inventory'[v] + Cardinality(SoldUnits(v)') <= OpeningStock[v]
    <3>1. inventory[v] >= items[o][v] /\ inventory'[v] = inventory[v] - items[o][v]
      BY <1>2 DEF Move, CanMove, Confirmable, InventoryAfter, ShelfInv
    <3>2. Cardinality(SoldUnits(v)') = Cardinality(SoldUnits(v)) + items[o][v]
      BY <1>1, <1>2, <2>1, SoldEnter DEF SoldStatuses
    <3>3. Cardinality(SoldUnits(v)) \in Nat /\ items[o][v] \in Nat /\ inventory[v] \in Nat
      BY SoldFinite, FS_CardinalityType
    <3>4. inventory[v] + Cardinality(SoldUnits(v)) <= OpeningStock[v]
      BY DEF ShelfInv, StockNotInvented
    <3> QED
      BY <3>1, <3>2, <3>3, <3>4, ConstantsAssumption
  <2> QED
    BY <1>1, <2>2 DEF ShelfInv, StockNotInvented
<1>3. CASE to \in Terminal /\ status[o] \in SoldStatuses
  <2>1. ASSUME NEW v \in Variants
        PROVE  inventory'[v] + Cardinality(SoldUnits(v)') <= OpeningStock[v]
    <3>1. inventory'[v] \in {inventory[v] + items[o][v], inventory[v]}
      BY <1>3 DEF Move, InventoryAfter, Terminal, SoldStatuses
    <3>2. Cardinality(SoldUnits(v)) = Cardinality(SoldUnits(v)') + items[o][v]
      BY <1>1, <1>3, SoldLeave DEF SoldStatuses, Terminal
    <3>3. Cardinality(SoldUnits(v)') \in Nat /\ items[o][v] \in Nat /\ inventory[v] \in Nat
      BY SoldFinite, FS_CardinalityType
    <3>4. inventory[v] + Cardinality(SoldUnits(v)) <= OpeningStock[v]
      BY DEF ShelfInv, StockNotInvented
    <3> QED
      BY <3>1, <3>2, <3>3, <3>4, ConstantsAssumption
  <2> QED
    BY <1>1, <2>1 DEF ShelfInv, StockNotInvented
<1>4. CASE to # "processing" /\ ~(to \in Terminal /\ status[o] \in SoldStatuses)
  <2>1. \A p \in Orders : status'[p] \in SoldStatuses <=> status[p] \in SoldStatuses
    BY <1>1, <1>4 DEF SoldStatuses, Transitions, Statuses, Terminal
  <2>2. inventory' = inventory
    BY <1>4 DEF Move, InventoryAfter, SoldStatuses
  <2> QED
    BY <1>1, <2>1, <2>2, ShelfUntouched
<1> QED
  BY <1>2, <1>3, <1>4

LEMMA TryMoveKeepsShelf ==
  ASSUME Typed, ShelfInv, NEW o \in Orders, NEW to, TryMove(o, to)
  PROVE  ShelfInv'
<1>1. CASE UNCHANGED <<rows, shelf, sent>>
  BY <1>1, ShelfUntouched DEF rows, shelf
<1> QED
  BY <1>1, MoveKeepsShelf DEF TryMove

\* The forced write takes what the order had reserved, so its clamp cuts nothing off.
LEMMA ForceKeepsShelf ==
  ASSUME Typed, LedgerInv, NeverOversold, ShelfInv, NEW s \in Settlers, ForceForward(s)
  PROVE  ShelfInv'
<1> USE DEF Typed, TypeOK, BusyHasOrder
<1> DEFINE o == call[s].order
<1>1. /\ o \in Orders /\ status[o] = "pending" /\ items' = items /\ stock' = stock
      /\ status' = [status EXCEPT ![o] = "processing"]
  BY DEF ForceForward, LedgerInv, ForcingPending
<1>2. ASSUME NEW v \in Variants
      PROVE  inventory'[v] + Cardinality(SoldUnits(v)') <= OpeningStock[v]
  <2>1. Cardinality(SoldUnits(v)) \in Nat /\ items[o][v] \in Nat /\ inventory[v] \in Nat
        /\ reserved[v] \in Nat /\ Cardinality(HeldUnits(v)') \in Nat
    BY <1>1, SoldFinite, HeldFinite, FS_CardinalityType
  <2>2. reserved[v] = Cardinality(HeldUnits(v)') + items[o][v]
    BY <1>1, HeldLeave DEF LedgerInv, ReservedIsHeld
  <2>3. inventory[v] >= items[o][v]
    BY <2>1, <2>2 DEF NeverOversold, ShelfInv
  <2>4. inventory'[v] = inventory[v] - items[o][v]
    BY <2>1, <2>3, ClampExact DEF ForceForward, ShelfInv
  <2>5. Cardinality(SoldUnits(v)') = Cardinality(SoldUnits(v)) + items[o][v]
    BY <1>1, SoldEnter DEF SoldStatuses
  <2>6. inventory[v] + Cardinality(SoldUnits(v)) <= OpeningStock[v]
    BY DEF ShelfInv, StockNotInvented
  <2> QED
    BY <2>1, <2>3, <2>4, <2>5, <2>6, ConstantsAssumption
<1> QED
  BY <1>1, <1>2 DEF ShelfInv, StockNotInvented

LEMMA ShelfStep ==
  ASSUME StockWrites = {}
  PROVE  Typed /\ LedgerInv /\ NeverOversold /\ ShelfInv /\ [Next]_vars => ShelfInv'
<1> SUFFICES ASSUME Typed, LedgerInv, NeverOversold, ShelfInv, [Next]_vars PROVE ShelfInv'
  OBVIOUS
<1> USE DEF Typed, BusyHasOrder
<1>1. CASE \E o \in Orders, to \in DirectMoves : DirectMove(o, to)
  BY <1>1, MoveKeepsShelf DEF DirectMove
<1>2. CASE \E r \in Requests : FailStale(r)
  BY <1>2, TryMoveKeepsShelf DEF FailStale
<1>3. ASSUME NEW r \in Requests, NEW o \in Orders, InsertOrder(r, o) PROVE ShelfInv'
  <2>1. /\ status[o] = "none" /\ status' = [status EXCEPT ![o] = "pending"]
        /\ items' = [items EXCEPT ![o] = req[r].lineup] /\ UNCHANGED <<inventory, stock>>
    BY <1>3 DEF InsertOrder
  <2>2. \A p \in Orders : /\ status'[p] \in SoldStatuses <=> status[p] \in SoldStatuses
                          /\ status[p] \in SoldStatuses => items'[p] = items[p]
    BY <2>1 DEF SoldStatuses, TypeOK
  <2> QED
    BY <2>1, <2>2, ShelfUntouched
<1>4. CASE \E s \in Settlers : Confirm(s)
  BY <1>4, TryMoveKeepsShelf DEF Confirm
<1>5. CASE \E o \in Orders : SweepFail(o)
  BY <1>5, TryMoveKeepsShelf DEF SweepFail
<1>6. CASE UNCHANGED <<inventory, stock, status, items>>
  BY <1>6, ShelfUntouched
<1> QED
  BY <1>1, <1>2, <1>3, <1>4, <1>5, <1>6, ForceKeepsShelf
  DEF Next, RequestStep, SettlerStep, Lookup, Reread, FreeKey, InsertFails, AdoptWinner,
      CrashRequest, Settle, ReadLive, FlagForRefund, PaidEdge, CrashSettler, SweepRead, vars, rows, shelf

LEMMA ShelfInit ==
  ASSUME \A v \in Variants : OpeningStatus[v] = "tracked"
  PROVE  Init => ShelfInv
<1> SUFFICES ASSUME Init PROVE ShelfInv
  OBVIOUS
<1>1. \A v \in Variants : SoldUnits(v) = {}
  BY DEF Init, SoldUnits
<1> QED
  <2>1. inventory = OpeningStock /\ stock = OpeningStatus
    BY DEF Init
  <2>2. \A v \in Variants : OpeningStock[v] \in Nat /\ Cardinality(SoldUnits(v)) = 0
    BY <1>1, FS_EmptySet, ConstantsAssumption
  <2> QED
    BY <2>1, <2>2 DEF ShelfInv, StockNotInvented

\* On a tracked shelf nobody overwrites, no interleaving of checkouts, settlements,
\* cancels, sweeps and crashes promises more than there is or gives back more than was
\* taken, unless a direct move falls inside a forced write.
THEOREM ShelfStaysBalanced ==
  ASSUME StockWrites = {}, ~OperatorRaces, \A v \in Variants : OpeningStatus[v] = "tracked"
  PROVE  Spec => []ShelfBalanced
<1>1. Spec => [](Typed /\ SettleInv /\ LedgerInv)
  BY LedgerInvariant
<1>2. Spec => []NeverOversold
  BY TrackedNeverOversold
<1>3. Init => ShelfInv
  BY ShelfInit
<1>4. Typed /\ LedgerInv /\ NeverOversold /\ ShelfInv /\ [Next]_vars => ShelfInv'
  BY ShelfStep
<1>5. NeverOversold /\ ShelfInv => ShelfBalanced
  BY DEF ShelfInv, ShelfBalanced
<1> QED
  BY <1>1, <1>2, <1>3, <1>4, <1>5, PTL DEF Spec

-----------------------------------------------------------------------------
(* The basket that is handed back                                          *)

Matches(r, o) == status[o] # "pending" \/ payment[o] = "paid" \/ items[o] = req[r].lineup

\* What one request knows when no other runs: the order it found holds the key of its
\* cart until it gives the key up, and no other order takes it meanwhile.
Fits(r) ==
  LET o == req[r].order IN
  /\ req[r].pc = "done" => o \in Orders /\ status[o] # "none" /\ Matches(r, o)
  /\ req[r].pc \in {"stale", "reread", "free"} =>
       req[r].cart # NoCart /\ key[o] = req[r].cart /\ status[o] # "none"
  /\ req[r].pc = "reread" => status[o] # "pending" \/ payment[o] = "paid"
  /\ req[r].pc = "insert" => req[r].cart = NoCart \/ \A p \in Orders : key[p] # req[r].cart
  /\ req[r].pc # "adopt"

HandInv == \A r \in Requests : Fits(r)

\* An order that is past pending stays so, one that is paid stays paid, and neither
\* its lines nor its key change.
Onward ==
  /\ key' = key
  /\ \A o \in Orders : status[o] # "none" =>
       /\ status'[o] # "none" /\ items'[o] = items[o]
       /\ status[o] # "pending" => status'[o] # "pending"
       /\ payment[o] = "paid" => payment'[o] = "paid"

LEMMA OthersKeepHand ==
  ASSUME Typed, HandInv, Onward, req' = req
  PROVE  HandInv'
<1> SUFFICES ASSUME NEW r \in Requests PROVE Fits(r)'
  BY DEF HandInv
<1>1. req[r].pc \in {"stale", "reread", "free"} => req[r].order \in Orders
  BY DEF Typed, BusyHasOrder
<1>2. Fits(r)
  BY DEF HandInv
<1> QED
  BY <1>1, <1>2 DEF Fits, Matches, Onward

LEMMA TryMoveOnward ==
  ASSUME Typed, NEW o \in Orders, NEW to, TryMove(o, to)
  PROVE  Onward
<1> USE DEF Typed, TypeOK
<1>1. CASE UNCHANGED <<rows, shelf, sent>>
  BY <1>1 DEF rows, Onward
<1>2. CASE Move(o, to)
  <2>1. /\ status[o] \in Statuses /\ to \in Transitions[status[o]]
        /\ status' = [status EXCEPT ![o] = to] /\ UNCHANGED <<items, key, payment>>
    BY <1>2 DEF Move, CanMove
  <2>2. to \notin {"none", "pending"}
    BY <2>1 DEF Transitions, Statuses
  <2> QED
    BY <2>1, <2>2 DEF Onward
<1> QED
  BY <1>1, <1>2 DEF TryMove

\* A pending order that could not be failed is paid.
LEMMA FailedOrPaid ==
  ASSUME Typed, NEW o \in Orders, status[o] # "none", TryMove(o, "failed")
  PROVE  status'[o] # "pending" \/ payment'[o] = "paid"
<1> USE DEF Typed, TypeOK
<1>1. CASE Move(o, "failed")
  BY <1>1 DEF Move
<1>2. CASE ~CanMove(o, "failed") /\ UNCHANGED <<rows, shelf, sent>>
  <2>1. status[o] \in Statuses
    OBVIOUS
  <2> QED
    BY <1>2, <2>1 DEF CanMove, Transitions, Statuses, rows
<1> QED
  BY <1>1, <1>2 DEF TryMove

\* One checkout request at a time.
Alone == \A r, q \in Requests : r = q

LEMMA RequestKeepsHand ==
  ASSUME Alone, Typed, KeyInv, HandInv, NEW r \in Requests, RequestStep(r) \/ CrashRequest(r)
  PROVE  HandInv'
<1> USE DEF Typed, BusyHasOrder
<1> SUFFICES Fits(r)'
  BY DEF HandInv, Alone
<1>f. Fits(r)
  BY DEF HandInv
<1>0. \A pc \in ReqStates, o \in Orders \cup {NoOrder} :
        SetReq(r, pc, o) => /\ req'[r].pc = pc /\ req'[r].order = o
                            /\ req'[r].cart = req[r].cart /\ req'[r].lineup = req[r].lineup
  BY DEF SetReq, TypeOK
<1>1. CASE FailStale(r)
  <2>1. req[r].pc = "stale" /\ req[r].order \in Orders /\ SetReq(r, "reread", req[r].order)
        /\ TryMove(req[r].order, "failed")
    BY <1>1 DEF FailStale
  <2>2. Onward
    BY <2>1, TryMoveOnward
  <2>3. req[r].cart # NoCart /\ key[req[r].order] = req[r].cart /\ status[req[r].order] # "none"
    BY <1>f, <2>1 DEF Fits
  <2>4. status'[req[r].order] # "pending" \/ payment'[req[r].order] = "paid"
    BY <2>1, <2>3, FailedOrPaid
  <2> QED
    BY <1>0, <2>1, <2>2, <2>3, <2>4 DEF Onward, ReqStates, Fits
<1>2. CASE Reread(r)
  <2>1. req[r].pc = "reread" /\ req[r].order \in Orders /\ UNCHANGED rows
    BY <1>2 DEF Reread
  <2>2. PICK pc \in {"free", "done"} : SetReq(r, pc, req[r].order)
    BY <1>2 DEF Reread
  <2>3. /\ req[r].cart # NoCart /\ key[req[r].order] = req[r].cart /\ status[req[r].order] # "none"
        /\ status[req[r].order] # "pending" \/ payment[req[r].order] = "paid"
    BY <1>f, <2>1 DEF Fits
  <2> QED
    BY <1>0, <2>1, <2>2, <2>3 DEF rows, ReqStates, Fits, Matches
<1>3. CASE FreeKey(r)
  <2>1. /\ req[r].pc = "free" /\ req[r].order \in Orders /\ SetReq(r, "insert", NoOrder)
        /\ key' = [key EXCEPT ![req[r].order] = NoCart]
    BY <1>3 DEF FreeKey
  <2>2. req[r].cart # NoCart /\ key[req[r].order] = req[r].cart
    BY <1>f, <2>1 DEF Fits
  <2>3. \A p \in Orders : key[p] = req[r].cart => p = req[r].order
    BY <2>1, <2>2 DEF KeyInv
  <2>4. \A p \in Orders : key'[p] # req[r].cart
    BY <2>1, <2>2, <2>3 DEF TypeOK
  <2>6. /\ req'[r].pc = "insert" /\ req'[r].cart = req[r].cart
    BY <1>0, <2>1 DEF ReqStates
  <2> QED
    BY <2>4, <2>6 DEF Fits
<1>4. ASSUME NEW o \in Orders, InsertOrder(r, o)
      PROVE  Fits(r)'
  <2>1. /\ SetReq(r, "done", o) /\ status' = [status EXCEPT ![o] = "pending"]
        /\ items' = [items EXCEPT ![o] = req[r].lineup]
    BY <1>4 DEF InsertOrder
  <2>2. req'[r].pc = "done" /\ req'[r].order = o /\ req'[r].lineup = req[r].lineup
    BY <1>0, <2>1 DEF ReqStates
  <2>3. status'[o] # "none" /\ items'[o] = req'[r].lineup
    BY <2>1, <2>2 DEF TypeOK
  <2> QED
    BY <2>2, <2>3 DEF Fits, Matches
<1>5. CASE InsertFails(r) \/ AdoptWinner(r)
  <2>1. req[r].pc # "adopt" /\ (req[r].pc = "insert" => ~KeyTaken(req[r].cart))
    BY <1>f DEF Fits, KeyTaken, Keyed
  <2>2. SetReq(r, "refused", NoOrder)
    BY <1>5, <2>1 DEF InsertFails, AdoptWinner
  <2> QED
    BY <1>0, <2>2 DEF ReqStates, Fits
<1>6. CASE CrashRequest(r)
  <2>1. req'[r].pc = "idle"
    BY <1>6 DEF CrashRequest, Idle, TypeOK
  <2> QED
    BY <2>1 DEF Fits
<1> QED
  BY <1>1, <1>2, <1>3, <1>4, <1>5, <1>6 DEF RequestStep

LEMMA LookupKeepsHand ==
  ASSUME Alone, Typed, HandInv, NEW r \in Requests, NEW c \in Carts \cup {NoCart}, NEW l \in Lineups,
         Lookup(r, c, l), KeyInv
  PROVE  HandInv'
<1>1. PICK pc \in {"insert", "stale", "done"}, o \in Orders \cup {NoOrder} :
        /\ req' = [req EXCEPT ![r] = [pc |-> pc, cart |-> c, lineup |-> l, order |-> o]]
        /\ pc = "insert" => c = NoCart \/ Keyed(c) = {}
        /\ pc # "insert" => o \in Orders /\ key[o] = c /\ key[o] # NoCart
        /\ pc = "done" => status[o] # "pending" \/ items[o] = l
  BY DEF Lookup, Keyed, Unkeyed
<1>2. UNCHANGED rows
  BY DEF Lookup
<1>3. req'[r] = [pc |-> pc, cart |-> c, lineup |-> l, order |-> o]
  BY <1>1 DEF Typed, TypeOK
<1>4. pc # "insert" => status[o] # "none"
  BY <1>1 DEF KeyInv
<1>5. \A q \in Requests : q = r
  BY DEF Alone
<1>7. UNCHANGED <<status, payment, items, key>>
  BY <1>2 DEF rows
<1>8. Fits(r)'
  BY <1>1, <1>3, <1>4, <1>7 DEF Fits, Matches, Keyed
<1> QED
  BY <1>5, <1>8 DEF HandInv

LEMMA HandStep ==
  ASSUME Alone
  PROVE  Typed /\ SettleInv /\ KeyInv /\ HandInv /\ [Next]_vars => HandInv'
<1> SUFFICES ASSUME Typed, SettleInv, KeyInv, HandInv, [Next]_vars PROVE HandInv'
  OBVIOUS
<1> USE DEF Typed, BusyHasOrder
<1>1. ASSUME NEW o \in Orders, NEW to, TryMove(o, to), req' = req PROVE HandInv'
  BY <1>1, TryMoveOnward, OthersKeepHand
<1>2. CASE \E r \in Requests, c \in Carts \cup {NoCart}, l \in Lineups : Lookup(r, c, l)
  BY <1>2, LookupKeepsHand
<1>3. ASSUME NEW s \in Settlers, ForceForward(s) PROVE HandInv'
  <2>1. /\ call[s].order \in Orders /\ status' = [status EXCEPT ![call[s].order] = "processing"]
        /\ UNCHANGED <<items, key, payment, req>>
    BY <1>3 DEF ForceForward
  <2>2. Onward
    BY <2>1 DEF Onward, TypeOK
  <2> QED
    BY <2>1, <2>2, OthersKeepHand
<1>4. ASSUME NEW s \in Settlers, NEW o \in Orders, Settle(s, o) PROVE HandInv'
  <2>1. payment' = [payment EXCEPT ![o] = "paid"] /\ UNCHANGED <<status, items, key, req>>
    BY <1>4 DEF Settle
  <2>2. Onward
    BY <2>1 DEF Onward, TypeOK
  <2> QED
    BY <2>1, <2>2, OthersKeepHand
<1>5. CASE \/ \E s \in Settlers : ReadLive(s) \/ FlagForRefund(s) \/ PaidEdge(s) \/ CrashSettler(s)
           \/ \E v \in Variants, w \in StockWrites : WriteStock(v, w)
           \/ \E S \in SUBSET Orders : SweepRead(S)
           \/ UNCHANGED vars
  <2>1. UNCHANGED <<status, items, key, payment, req>>
    BY <1>5 DEF ReadLive, FlagForRefund, PaidEdge, CrashSettler, WriteStock, SweepRead, vars, rows
  <2> QED
    BY <2>1, OthersKeepHand DEF Onward
<1>6. CASE \E o \in Orders, to \in DirectMoves : DirectMove(o, to)
  BY <1>1, <1>6 DEF DirectMove, TryMove
<1>7. CASE \/ \E s \in Settlers : Confirm(s)
           \/ \E o \in Orders : SweepFail(o)
  BY <1>1, <1>7 DEF Confirm, SweepFail
<1>8. CASE \E r \in Requests : RequestStep(r) \/ CrashRequest(r)
  BY <1>8, RequestKeepsHand
<1> QED
  BY <1>2, <1>3, <1>4, <1>5, <1>6, <1>7, <1>8 DEF Next, SettlerStep

\* A shopper with one checkout at a time is never handed another basket to pay,
\* however often the order is settled, swept, cancelled or rebuilt meanwhile.
THEOREM HandedBackIsTheBasket == ASSUME Alone PROVE Spec => []HandedBackMatches
<1>1. Init => KeyInv /\ HandInv
  BY DEF Init, KeyInv, HandInv, Fits, Idle
<1>2. HandInv => HandedBackMatches
  BY DEF HandInv, Fits, HandedBackMatches, Matches
<1>3. Typed /\ SettleInv /\ KeyInv /\ HandInv /\ [Next]_vars => HandInv'
  BY HandStep
<1> QED
  BY <1>1, <1>2, <1>3, SettleInvariant, KeyInvStep, PTL DEF Spec

=============================================================================
