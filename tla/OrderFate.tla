----------------------------- MODULE OrderFate -----------------------------
(***************************************************************************)
(* What becomes of one order, as everyone who reads it may count on: its   *)
(* payment settles once; the settlement decides once, to serve an order    *)
(* that waits for its money or to flag one that does not wait any more; an *)
(* ended order stays as it ended.  OrderLifecycle implements this for      *)
(* every order, with the shelf, the requests and the sweeps hidden, and    *)
(* Payments implements it through Settlement, so that the two speak of     *)
(* the same markPaid.                                                      *)
(***************************************************************************)
CONSTANTS
  Dead,      \* the statuses in which an order has ended
  Unpaid     \* those of them that a settled order never takes

VARIABLES
  order,     \* "pending", "processing" (and all that follows on it), or one of Dead
  settled,   \* "no", "claimed" (paid, its settlement still deciding) or "done"
  flagged    \* the money is to be returned by hand

vars == <<order, settled, flagged>>

Init == order = "pending" /\ settled = "no" /\ flagged = FALSE

\* The payment row says paid.
Settle ==
  /\ settled = "no" /\ settled' = "claimed"
  /\ UNCHANGED <<order, flagged>>

\* The settlement serves an order that waits for its money ...
Serve ==
  /\ settled = "claimed" /\ order = "pending"
  /\ settled' = "done" /\ order' = "processing"
  /\ UNCHANGED flagged

\* ... flags one that does not wait any more ...
Flag ==
  /\ settled = "claimed" /\ order # "pending"
  /\ settled' = "done" /\ flagged' = TRUE
  /\ UNCHANGED order

\* ... or dies before it does either.
Abandon ==
  /\ settled = "claimed" /\ settled' = "done"
  /\ UNCHANGED <<order, flagged>>

\* An operator moves an order that waits for its money.
ServeByHand ==
  /\ order = "pending" /\ order' = "processing"
  /\ UNCHANGED <<settled, flagged>>

\* The order is cancelled, or fails.
End(d) ==
  /\ order \notin Dead /\ order' = d
  /\ d \in Unpaid => settled = "no"
  /\ UNCHANGED <<settled, flagged>>

Next ==
  \/ Settle \/ Serve \/ Flag \/ Abandon \/ ServeByHand
  \/ \E d \in Dead : End(d)

Spec == Init /\ [][Next]_vars

=============================================================================
