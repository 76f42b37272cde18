----------------------------- MODULE Shipments -----------------------------
(***************************************************************************)
(* src/src/counter/shipmentService.ts: the parcels of one order, one for   *)
(* each party that ships a part of it.  Every operation reads the parcel,  *)
(* checks the move against TRANSITIONS and writes, without a lock; the     *)
(* order is split by one insert after another.                             *)
(***************************************************************************)
EXTENDS Integers, FiniteSets

CONSTANTS
  Parcels,   \* shipment rows the order may come to have
  NoParcel,
  Parties,   \* who ships the order's lines: the shop or a vendor
  Callers    \* concurrent requests of the back office

Statuses == {"pending", "quoted", "routed", "shipped", "delivered", "cancelled"}

VARIABLES
  parcel,      \* the rows: [party, status, tracked], the status "none" where there is none
  address,     \* is there an address, on the order or the customer?
  call,        \* the move and the parcel of each request, or the parties left to split
  overlapped   \* have two requests to split the order been under way at once?

vars == <<parcel, address, call, overlapped>>

NoRow == [party |-> NoParcel, status |-> "none", tracked |-> FALSE]
Idle == [to |-> "idle", id |-> NoParcel, left |-> {}]

TypeOK ==
  /\ parcel \in [Parcels -> [party : Parties \cup {NoParcel}, status : Statuses \cup {"none"},
                            tracked : BOOLEAN]]
  /\ address \in BOOLEAN /\ overlapped \in BOOLEAN
  /\ call \in [Callers -> [to : Statuses \cup {"idle", "split"}, id : Parcels \cup {NoParcel},
                           left : SUBSET Parties]]

Init ==
  /\ parcel = [i \in Parcels |-> NoRow]
  /\ address \in BOOLEAN
  /\ call = [c \in Callers |-> Idle]
  /\ overlapped = FALSE

Exists(i) == parcel[i].status # "none"

\* Mutant: a parcel may be delivered that was never marked shipped.
TransitionsSkipShipping(from) ==
  CASE from = "pending" -> {"quoted", "routed", "cancelled"}
    [] from = "quoted"  -> {"routed", "cancelled"}
    [] from = "routed"  -> {"shipped", "delivered", "cancelled"}
    [] from = "shipped" -> {"delivered"}
    [] OTHER -> {}

Transitions(from) ==
  CASE from = "pending" -> {"quoted", "routed", "cancelled"}
    [] from = "quoted"  -> {"routed", "cancelled"}
    [] from = "routed"  -> {"shipped", "cancelled"}
    [] from = "shipped" -> {"delivered"}
    [] OTHER -> {}

\* Mutant: every delivery of a payment event splits the order.
PlanAgain(c) ==
  /\ call[c] = Idle
  /\ call' = [call EXCEPT ![c] = [to |-> "split", id |-> NoParcel, left |-> Parties]]
  /\ overlapped' = (overlapped \/ \E d \in Callers : call[d].to = "split")
  /\ UNCHANGED <<parcel, address>>

\* planForOrder(): an order that has a parcel is left as it is.
Plan(c) ==
  /\ call[c] = Idle
  /\ \A i \in Parcels : ~Exists(i)
  /\ call' = [call EXCEPT ![c] = [to |-> "split", id |-> NoParcel, left |-> Parties]]
  /\ overlapped' = (overlapped \/ \E d \in Callers : call[d].to = "split")
  /\ UNCHANGED <<parcel, address>>

\* One parcel for one party.
Split(c, i, p) ==
  /\ call[c].to = "split" /\ p \in call[c].left /\ ~Exists(i)
  /\ parcel' = [parcel EXCEPT ![i] = [party |-> p, status |-> "pending", tracked |-> FALSE]]
  /\ call' = [call EXCEPT ![c] = IF @.left = {p} THEN Idle ELSE [@ EXCEPT !.left = call[c].left \ {p}]]
  /\ UNCHANGED <<address, overlapped>>

\* recordQuote(), route(), markShipped(), markDelivered(), cancel(): the parcel is read
\* and the move checked; a quote needs an address.  A move that is refused, as one to a
\* partner that is not connected, changes nothing.
Read(c, i, to) ==
  /\ call[c] = Idle
  /\ Exists(i) /\ to \in Transitions(parcel[i].status)
  /\ to = "quoted" => address
  /\ call' = [call EXCEPT ![c] = [Idle EXCEPT !.to = to, !.id = i]]
  /\ UNCHANGED <<parcel, address, overlapped>>

\* The new status is written, whatever the parcel has become; shipping brings the
\* carrier and the number.
Write(c) ==
  LET to == call[c].to IN
  /\ to \in Statuses
  /\ parcel' = [parcel EXCEPT ![call[c].id].status = to,
                              ![call[c].id].tracked = @ \/ to = "shipped"]
  /\ call' = [call EXCEPT ![c] = Idle]
  /\ UNCHANGED <<address, overlapped>>

Crash(c) ==
  /\ call[c] # Idle
  /\ call' = [call EXCEPT ![c] = Idle]
  /\ UNCHANGED <<parcel, address, overlapped>>

Next ==
  \/ \E c \in Callers :
       \/ Plan(c) \/ Write(c) \/ Crash(c)
       \/ \E i \in Parcels : \E p \in Parties : Split(c, i, p)
       \/ \E i \in Parcels : \E to \in Statuses : Read(c, i, to)

Spec == Init /\ [][Next]_vars

-----------------------------------------------------------------------------
(* Properties                                                              *)

\* A parcel that was delivered was handed to a carrier with a number, although two
\* requests may write over each other's status.
DeliveredIsTracked ==
  \A i \in Parcels : Exists(i) /\ parcel[i].status = "delivered" => parcel[i].tracked

\* A payment event that is delivered again does not double the parcels, and neither
\* does a split that died half way: no party has two, unless two requests split the
\* order at the same time.
OneParcelEach ==
  ~overlapped =>
    \A i, j \in Parcels :
      Exists(i) /\ Exists(j) /\ i # j => parcel[i].party # parcel[j].party

=============================================================================
