----------------------------- MODULE Settlement -----------------------------
(***************************************************************************)
(* What the payment gateway service promises about one order, whatever     *)
(* paths its payments take: the row says paid once, for money a provider   *)
(* has captured, and the one who made it say so decides the order's fate,  *)
(* once.  Payments implements this specification, with the tabs, locks,    *)
(* webhooks and lost answers hidden.                                       *)
(***************************************************************************)
CONSTANTS Ids, NoId

VARIABLES
  order,     \* "pending", "processing" or "dead"
  settled,   \* "no", "claimed" (the row says paid, the order is not moved yet) or "done"
  txn,       \* the payment the row names
  flagged,   \* the money is to be returned by hand
  captured   \* the payments that moved money

vars == <<order, settled, txn, flagged, captured>>

Init ==
  /\ order = "pending" /\ settled = "no" /\ flagged = FALSE
  /\ txn = NoId /\ captured = {}

\* A provider takes the shopper's money.
Capture(i) ==
  /\ captured' = captured \cup {i}
  /\ UNCHANGED <<order, settled, txn, flagged>>

\* The row names an intent, before or after it is settled.
Name(i) ==
  /\ txn' = i
  /\ UNCHANGED <<order, settled, flagged, captured>>

\* The row says paid, for money that was taken.
Settle(i) ==
  /\ settled = "no" /\ i \in captured
  /\ settled' = "claimed" /\ txn' = i
  /\ UNCHANGED <<order, flagged, captured>>

\* An order still waiting for its money is served ...
Serve ==
  /\ settled = "claimed" /\ order = "pending"
  /\ settled' = "done" /\ order' = "processing"
  /\ UNCHANGED <<txn, flagged, captured>>

\* ... and one that is not is flagged for a refund.
Flag ==
  /\ settled = "claimed" /\ order # "pending"
  /\ settled' = "done" /\ flagged' = TRUE
  /\ UNCHANGED <<order, txn, captured>>

\* The process that settled the row dies before it does either.
Abandon ==
  /\ settled = "claimed" /\ settled' = "done"
  /\ UNCHANGED <<order, txn, flagged, captured>>

\* The order is cancelled or fails.
Die ==
  /\ order' = "dead"
  /\ UNCHANGED <<settled, txn, flagged, captured>>

Next ==
  \/ \E i \in Ids : Capture(i) \/ Name(i) \/ Settle(i)
  \/ Serve \/ Flag \/ Abandon \/ Die

Spec == Init /\ [][Next]_vars

=============================================================================
