--------------------------- MODULE OrderLifecycle ---------------------------
(***************************************************************************)
(* src/src/services/order.service.ts: the life of an order, from the       *)
(* checkout that creates it to its terminal status, and what each step     *)
(* does to the stock of the variants on its lines.                         *)
(*                                                                         *)
(* One action is one database statement or one transaction: everything     *)
(* the code does between two awaits on different transactions is a step of *)
(* its own, so any other caller may act in between.  A transaction is one  *)
(* step: transition() holds the order row FOR UPDATE, and every            *)
(* conditional UPDATE of a transaction re-checks its own WHERE clause.     *)
(*                                                                         *)
(* Callers: checkout requests (create), calls of markPaid ("settlers":     *)
(* gateway webhook, return page, in-page token), the hourly sweep, and     *)
(* whoever moves a status directly (admin, partner write-back, refund,     *)
(* payment.failed webhook).                                                *)
(***************************************************************************)
EXTENDS Integers, FiniteSets

CONSTANTS
  Orders,         \* order rows, used or not yet used
  Variants,       \* product variants
  Carts,          \* idempotency keys: "cart_<id>" of a storefront cart
  Requests,       \* concurrent calls of create()
  Settlers,       \* concurrent calls of markPaid()
  NoCart,         \* a null idempotencyKey
  NoOrder,
  MaxQty,         \* bound: the largest quantity of a variant on an order
  MaxStock,       \* bound: the largest stock an outside write may set
  OpeningStock,   \* inventory of each variant at the start
  OpeningStatus,  \* stockStatus of each variant at the start
  StockWrites,    \* <<stockStatus, inventory>> that a merchant or a sync writes
  DirectMoves,    \* statuses that are requested through transition() directly
  OperatorRaces,  \* may a direct move fall inside markPaid's forced write?
  Crashes         \* may the process die inside markPaid or create?

Statuses == {"pending", "processing", "shipped", "delivered", "cancelled", "failed"}
Terminal == {"cancelled", "failed"}
StockStatuses == {"tracked", "in_stock", "out_of_stock", "backorder"}

ASSUME ConstantsAssumption ==
  /\ IsFiniteSet(Orders)
  /\ NoCart \notin Carts
  /\ NoOrder \notin Orders
  /\ MaxQty \in Nat \ {0}
  /\ MaxStock \in Nat
  /\ OpeningStock \in [Variants -> Nat]
  /\ OpeningStatus \in [Variants -> StockStatuses]
  /\ StockWrites \subseteq StockStatuses \X (0 .. MaxStock)
  /\ DirectMoves \subseteq Statuses
  /\ OperatorRaces \in BOOLEAN
  /\ Crashes \in BOOLEAN

VARIABLES
  \* orders and payments rows
  status,      \* order.status, "none" while the row does not exist
  items,       \* order.items: quantity of each variant
  key,         \* order.idempotencyKey
  payment,     \* payment.status
  flagged,     \* orders with meta.paymentOnTerminalOrder (refundNeeded)
  reconciled,  \* orders with meta.inventoryReconcile
  \* product_variants rows
  inventory, reserved, stock,
  \* calls in progress
  req,         \* create(): program counter and locals of each request
  call,        \* markPaid(): program counter and order of each settler
  sweep,       \* the stale list sweepStalePending is working through
  \* what has been handed to other components, per order
  sent,
  origin       \* history: the cart an order was created for

rows  == <<status, items, key, payment, flagged, reconciled, origin>>
shelf == <<inventory, reserved, stock>>
vars  == <<rows, shelf, req, call, sweep, sent>>

Lineups == {l \in [Variants -> 0 .. MaxQty] : \E v \in Variants : l[v] > 0}
NoLineup == [v \in Variants |-> 0]

Handoffs == {"ping", "production", "release", "fulfil"}

Idle == [pc |-> "idle", cart |-> NoCart, lineup |-> NoLineup, order |-> NoOrder]
IdleCall == [pc |-> "idle", order |-> NoOrder]

ReqStates  == {"idle", "stale", "reread", "free", "insert", "adopt", "done", "refused"}
CallStates == {"idle", "claimed", "threw", "stopping", "forcing", "moved"}

TypeOK ==
  /\ status \in [Orders -> Statuses \cup {"none"}]
  /\ items \in [Orders -> [Variants -> 0 .. MaxQty]]
  /\ key \in [Orders -> Carts \cup {NoCart}]
  /\ payment \in [Orders -> {"pending", "paid"}]
  /\ flagged \subseteq Orders /\ reconciled \subseteq Orders
  /\ inventory \in [Variants -> Nat]
  /\ reserved \in [Variants -> Nat]
  /\ stock \in [Variants -> StockStatuses]
  /\ req \in [Requests -> [pc : ReqStates, cart : Carts \cup {NoCart},
                           lineup : [Variants -> 0 .. MaxQty],
                           order : Orders \cup {NoOrder}]]
  /\ call \in [Settlers -> [pc : CallStates, order : Orders \cup {NoOrder}]]
  /\ sweep \subseteq Orders
  /\ sent \in [Orders -> [Handoffs -> Nat]]
  /\ origin \in [Orders -> Carts \cup {NoCart}]

Init ==
  /\ status = [o \in Orders |-> "none"]
  /\ items = [o \in Orders |-> NoLineup]
  /\ key = [o \in Orders |-> NoCart]
  /\ payment = [o \in Orders |-> "pending"]
  /\ flagged = {} /\ reconciled = {}
  /\ inventory = OpeningStock
  /\ reserved = [v \in Variants |-> 0]
  /\ stock = OpeningStatus
  /\ req = [r \in Requests |-> Idle]
  /\ call = [s \in Settlers |-> IdleCall]
  /\ sweep = {}
  /\ sent = [o \in Orders |-> [h \in Handoffs |-> 0]]
  /\ origin = [o \in Orders |-> NoCart]

-----------------------------------------------------------------------------
(* transition(): the status graph and its effect on the shelf              *)

Transitions ==
  [s \in Statuses |->
     CASE s = "pending"    -> {"processing", "cancelled", "failed"}
       [] s = "processing" -> {"shipped", "cancelled", "failed"}
       [] s = "shipped"    -> {"delivered", "cancelled"}
       [] s = "delivered"  -> {"cancelled"}
       [] OTHER            -> {}]

\* Mutant: the release without its floor.
ClampUnfloored(a, b) == a - b

\* GREATEST(a - b, 0)
Clamp(a, b) == IF a > b THEN a - b ELSE 0

\* The confirm UPDATE finds its row for every line of o.
Confirmable(o) ==
  \A v \in Variants : /\ reserved[v] >= items[o][v]
                      /\ stock[v] = "tracked" => inventory[v] >= items[o][v]

\* Mutant: no live check of the payment, as before "audit C4".
CanMoveUnpaid(o, to) ==
  /\ status[o] # "none"
  /\ to \in Transitions[status[o]]
  /\ to = "processing" => Confirmable(o)

\* transition(o, to) commits; otherwise it throws and changes nothing.
CanMove(o, to) ==
  /\ status[o] # "none"
  /\ to \in Transitions[status[o]]
  /\ to = "failed" => payment[o] # "paid"
  /\ to = "processing" => Confirmable(o)

\* Mutant: the restock does not ask whether the stock had been taken.
InventoryAfterRestock(o, to) ==
  IF to = "processing"
  THEN [v \in Variants |-> IF stock[v] = "tracked" THEN inventory[v] - items[o][v]
                                                   ELSE inventory[v]]
  ELSE IF to \in Terminal
  THEN [v \in Variants |-> inventory[v] + items[o][v]]
  ELSE inventory

InventoryAfter(o, to) ==
  IF to = "processing"
  THEN [v \in Variants |-> IF stock[v] = "tracked" THEN inventory[v] - items[o][v]
                                                   ELSE inventory[v]]
  ELSE IF to \in Terminal /\ status[o] \in {"processing", "shipped"}
  THEN [v \in Variants |-> inventory[v] + items[o][v]]
  ELSE inventory

\* Mutant: a cancel after the confirm releases the reservation once more.
ReservedAfterTwice(o, to) ==
  IF to = "processing"
  THEN [v \in Variants |-> reserved[v] - items[o][v]]
  ELSE IF to \in Terminal
  THEN [v \in Variants |-> Clamp(reserved[v], items[o][v])]
  ELSE reserved

ReservedAfter(o, to) ==
  IF to = "processing"
  THEN [v \in Variants |-> reserved[v] - items[o][v]]
  ELSE IF to \in Terminal /\ status[o] = "pending"
  THEN [v \in Variants |-> Clamp(reserved[v], items[o][v])]
  ELSE reserved

\* What transition() starts after its commit, without waiting for it.
HandoffsAfter(to) ==
  CASE to = "processing" -> {"ping", "production"}
    [] to \in Terminal   -> {"release"}
    [] OTHER             -> {}

Hand(o, H) ==
  sent' = [sent EXCEPT ![o] = [h \in Handoffs |-> IF h \in H THEN @[h] + 1 ELSE @[h]]]

Move(o, to) ==
  /\ CanMove(o, to)
  /\ status' = [status EXCEPT ![o] = to]
  /\ inventory' = InventoryAfter(o, to)
  /\ reserved' = ReservedAfter(o, to)
  /\ Hand(o, HandoffsAfter(to))
  /\ UNCHANGED <<items, key, payment, flagged, reconciled, origin, stock>>

\* A caller that swallows what transition() throws.
TryMove(o, to) ==
  \/ Move(o, to)
  \/ ~CanMove(o, to) /\ UNCHANGED <<rows, shelf, sent>>

-----------------------------------------------------------------------------
(* Direct callers of transition() and outside writers of the shelf         *)

\* The next statement of some markPaid() is its forced write of o.
BeingForced(o) == \E s \in Settlers : call[s] = [pc |-> "forcing", order |-> o]

\* POST /orders/:id/transition, a partner's status write-back, the cancel
\* that ends a full refund, or the payment.failed webhook.
DirectMove(o, to) ==
  /\ OperatorRaces \/ ~BeingForced(o)
  /\ Move(o, to)
  /\ UNCHANGED <<req, call, sweep>>

\* A merchant edit, an import or a provider re-sync: it overwrites what the
\* shelf says of a variant and knows nothing of what is reserved.
WriteStock(v, w) ==
  /\ <<stock[v], inventory[v]>> # w
  /\ stock' = [stock EXCEPT ![v] = w[1]]
  /\ inventory' = [inventory EXCEPT ![v] = w[2]]
  /\ UNCHANGED <<rows, reserved, req, call, sweep, sent>>

-----------------------------------------------------------------------------
(* create(): one checkout request                                          *)

SetReq(r, pc, o) == req' = [req EXCEPT ![r] = [@ EXCEPT !.pc = pc, !.order = o]]

Unkeyed  == {o \in Orders : key[o] = NoCart}
Keyed(c) == {o \in Orders : key[o] = c}

\* Bound: a request that may insert an order starts only while an unused order
\* is left for it.
RoomForOrder ==
  Cardinality({r \in Requests : req[r].pc \in {"stale", "reread", "free", "insert"}})
    < Cardinality({o \in Orders : status[o] = "none"})

\* Mutant: any order found under the key is returned, as before "audit C1/C2".
LookupVerbatim(r, c, l) ==
  /\ req[r].pc \in {"idle", "done", "refused"}
  /\ LET start(pc, o) == req' = [req EXCEPT ![r] =
                           [pc |-> pc, cart |-> c, lineup |-> l, order |-> o]]
     IN \/ (c = NoCart \/ Keyed(c) = {}) /\ RoomForOrder /\ start("insert", NoOrder)
        \/ \E o \in Keyed(c) \ Unkeyed : start("done", o)
  /\ UNCHANGED <<rows, shelf, call, sweep, sent>>

\* The order found under the cart's key is returned as it is when it is past
\* pending or still matches the cart (sameLineup); a drifted pending order is
\* to be failed and rebuilt.
Lookup(r, c, l) ==
  /\ req[r].pc \in {"idle", "done", "refused"}
  /\ LET start(pc, o) == req' = [req EXCEPT ![r] =
                           [pc |-> pc, cart |-> c, lineup |-> l, order |-> o]]
     IN \/ /\ c = NoCart \/ Keyed(c) = {}
           /\ RoomForOrder
           /\ start("insert", NoOrder)
        \/ \E o \in Keyed(c) \ Unkeyed :
             \/ /\ status[o] = "pending" /\ items[o] # l
                /\ RoomForOrder
                /\ start("stale", o)
             \/ /\ status[o] # "pending" \/ items[o] = l
                /\ start("done", o)
  /\ UNCHANGED <<rows, shelf, call, sweep, sent>>

FailStale(r) ==
  /\ req[r].pc = "stale"
  /\ TryMove(req[r].order, "failed")
  /\ SetReq(r, "reread", req[r].order)
  /\ UNCHANGED <<call, sweep>>

\* Mutant: the key is freed without looking whether the stale order failed.
RereadBlind(r) ==
  /\ req[r].pc = "reread"
  /\ SetReq(r, "free", req[r].order)
  /\ UNCHANGED <<rows, shelf, call, sweep, sent>>

\* Mutant: the request tries again until the stale order has failed.
RereadRetry(r) ==
  /\ req[r].pc = "reread"
  /\ SetReq(r, IF status[req[r].order] = "failed" THEN "free" ELSE "stale", req[r].order)
  /\ UNCHANGED <<rows, shelf, call, sweep, sent>>

Reread(r) ==
  /\ req[r].pc = "reread"
  /\ SetReq(r, IF status[req[r].order] = "failed" THEN "free" ELSE "done", req[r].order)
  /\ UNCHANGED <<rows, shelf, call, sweep, sent>>

FreeKey(r) ==
  /\ req[r].pc = "free"
  /\ key' = [key EXCEPT ![req[r].order] = NoCart]
  /\ SetReq(r, "insert", NoOrder)
  /\ UNCHANGED <<status, items, payment, flagged, reconciled, origin, shelf, call, sweep, sent>>

\* Mutant: the guard looks at the shelf and not at what is already promised.
ReservableOnShelf(l) ==
  \A v \in Variants : l[v] > 0 =>
     /\ stock[v] # "out_of_stock"
     /\ stock[v] = "tracked" => inventory[v] >= l[v]

\* The reserving UPDATE finds its row for every line of l (availableOf in SQL).
Reservable(l) ==
  \A v \in Variants : l[v] > 0 =>
     /\ stock[v] # "out_of_stock"
     /\ stock[v] = "tracked" => inventory[v] - reserved[v] >= l[v]

KeyTaken(c) == c # NoCart /\ Keyed(c) # {}

\* The transaction: reserve every line, then insert the order.  A short line
\* or a taken key rolls all of it back.
InsertOrder(r, o) ==
  /\ req[r].pc = "insert" /\ status[o] = "none"
  /\ Reservable(req[r].lineup) /\ ~KeyTaken(req[r].cart)
  /\ reserved' = [v \in Variants |-> reserved[v] + req[r].lineup[v]]
  /\ status' = [status EXCEPT ![o] = "pending"]
  /\ items' = [items EXCEPT ![o] = req[r].lineup]
  /\ key' = [key EXCEPT ![o] = req[r].cart]
  /\ origin' = [origin EXCEPT ![o] = req[r].cart]
  /\ SetReq(r, "done", o)
  /\ UNCHANGED <<payment, flagged, reconciled, inventory, stock, call, sweep, sent>>

InsertFails(r) ==
  /\ req[r].pc = "insert"
  /\ \/ ~Reservable(req[r].lineup) /\ SetReq(r, "refused", NoOrder)
     \/ Reservable(req[r].lineup) /\ KeyTaken(req[r].cart) /\ SetReq(r, "adopt", NoOrder)
  /\ UNCHANGED <<rows, shelf, call, sweep, sent>>

\* P2002 on the key: hand back the order of the request that won it, if its
\* key has not been freed meanwhile.
AdoptWinner(r) ==
  /\ req[r].pc = "adopt"
  /\ \/ \E o \in Keyed(req[r].cart) : SetReq(r, "done", o)
     \/ Keyed(req[r].cart) = {} /\ SetReq(r, "refused", NoOrder)
  /\ UNCHANGED <<rows, shelf, call, sweep, sent>>

-----------------------------------------------------------------------------
(* markPaid(): one settlement                                              *)

SetCall(s, pc) == call' = [call EXCEPT ![s].pc = pc]

\* Mutant: the update of the payment row is not conditional.
SettleUnclaimed(s, o) ==
  /\ call[s].pc = "idle" /\ status[o] # "none"
  /\ payment' = [payment EXCEPT ![o] = "paid"]
  /\ call' = [call EXCEPT ![s] = [pc |-> "claimed", order |-> o]]
  /\ UNCHANGED <<status, items, key, flagged, reconciled, origin, shelf, req, sweep, sent>>

\* The conditional update of the payment row: the one caller whose update
\* counts goes on; a caller that finds the row paid returns.
Settle(s, o) ==
  /\ call[s].pc = "idle"
  /\ status[o] # "none" /\ payment[o] # "paid"
  /\ payment' = [payment EXCEPT ![o] = "paid"]
  /\ call' = [call EXCEPT ![s] = [pc |-> "claimed", order |-> o]]
  /\ UNCHANGED <<status, items, key, flagged, reconciled, origin, shelf, req, sweep, sent>>

\* Mutant: what transition() throws ends the settlement.
ConfirmEscapes(s) ==
  /\ call[s].pc = "claimed"
  /\ TryMove(call[s].order, "processing")
  /\ IF CanMove(call[s].order, "processing") THEN SetCall(s, "moved")
                                             ELSE call' = [call EXCEPT ![s] = IdleCall]
  /\ UNCHANGED <<req, sweep>>

Confirm(s) ==
  /\ call[s].pc = "claimed"
  /\ TryMove(call[s].order, "processing")
  /\ SetCall(s, IF CanMove(call[s].order, "processing") THEN "moved" ELSE "threw")
  /\ UNCHANGED <<req, sweep>>

\* Mutant: every throw is taken for a shortfall of stock.
ReadLiveConflated(s) ==
  /\ call[s].pc = "threw"
  /\ SetCall(s, "forcing")
  /\ UNCHANGED <<rows, shelf, req, sweep, sent>>

\* The re-read of the live status after transition() threw.
ReadLive(s) ==
  /\ call[s].pc = "threw"
  /\ SetCall(s, IF status[call[s].order] = "pending" THEN "forcing" ELSE "stopping")
  /\ UNCHANGED <<rows, shelf, req, sweep, sent>>

FlagForRefund(s) ==
  /\ call[s].pc = "stopping"
  /\ flagged' = flagged \cup {call[s].order}
  /\ call' = [call EXCEPT ![s] = IdleCall]
  /\ UNCHANGED <<status, items, key, payment, reconciled, origin, shelf, req, sweep, sent>>

\* Mutant: only the status is forced, as before "audit H3".
ForceBare(s) ==
  LET o == call[s].order IN
  /\ call[s].pc = "forcing"
  /\ status' = [status EXCEPT ![o] = "processing"]
  /\ reconciled' = reconciled \cup {o}
  /\ Hand(o, {"ping"})
  /\ SetCall(s, "moved")
  /\ UNCHANGED <<items, key, payment, flagged, origin, shelf, req, sweep>>

\* The forced transaction neither locks the order row nor looks at its status.
ForceForward(s) ==
  LET o == call[s].order IN
  /\ call[s].pc = "forcing"
  /\ inventory' = [v \in Variants |-> IF stock[v] = "tracked"
                                      THEN Clamp(inventory[v], items[o][v])
                                      ELSE inventory[v]]
  /\ reserved' = [v \in Variants |-> Clamp(reserved[v], items[o][v])]
  /\ status' = [status EXCEPT ![o] = "processing"]
  /\ reconciled' = reconciled \cup {o}
  /\ Hand(o, {"ping"})
  /\ SetCall(s, "moved")
  /\ UNCHANGED <<items, key, payment, flagged, origin, stock, req, sweep>>

\* Cart clear, submitPaidOrder, receipt and owner mails, onOrderPaid.
PaidEdge(s) ==
  /\ call[s].pc = "moved"
  /\ Hand(call[s].order, {"fulfil"})
  /\ call' = [call EXCEPT ![s] = IdleCall]
  /\ UNCHANGED <<rows, shelf, req, sweep>>

-----------------------------------------------------------------------------
(* sweepStalePending(): a snapshot, then one transition per order          *)

\* Any set of pending orders may be the ones older than the cutoff; those
\* whose payment the snapshot shows as paid are only reported.
SweepRead(S) ==
  /\ sweep = {}
  /\ S \subseteq {o \in Orders : status[o] = "pending" /\ payment[o] # "paid"}
  /\ sweep' = S
  /\ UNCHANGED <<rows, shelf, req, call, sent>>

SweepFail(o) ==
  /\ o \in sweep
  /\ TryMove(o, "failed")
  /\ sweep' = sweep \ {o}
  /\ UNCHANGED <<req, call>>

-----------------------------------------------------------------------------
(* The process dies in the middle of a call                                *)

CrashSettler(s) ==
  /\ Crashes /\ call[s].pc # "idle"
  /\ call' = [call EXCEPT ![s] = IdleCall]
  /\ UNCHANGED <<rows, shelf, req, sweep, sent>>

CrashRequest(r) ==
  /\ Crashes /\ req[r].pc \notin {"idle", "done", "refused"}
  /\ req' = [req EXCEPT ![r] = Idle]
  /\ UNCHANGED <<rows, shelf, call, sweep, sent>>

-----------------------------------------------------------------------------

RequestStep(r) ==
  \/ FailStale(r) \/ Reread(r) \/ FreeKey(r)
  \/ \E o \in Orders : InsertOrder(r, o)
  \/ InsertFails(r) \/ AdoptWinner(r)

SettlerStep(s) ==
  Confirm(s) \/ ReadLive(s) \/ FlagForRefund(s) \/ ForceForward(s) \/ PaidEdge(s)

Next ==
  \/ \E o \in Orders, to \in DirectMoves : DirectMove(o, to)
  \/ \E v \in Variants, w \in StockWrites : WriteStock(v, w)
  \/ \E r \in Requests, c \in Carts \cup {NoCart}, l \in Lineups : Lookup(r, c, l)
  \/ \E r \in Requests : RequestStep(r) \/ CrashRequest(r)
  \/ \E s \in Settlers, o \in Orders : Settle(s, o)
  \/ \E s \in Settlers : SettlerStep(s) \/ CrashSettler(s)
  \/ \E S \in SUBSET Orders : SweepRead(S)
  \/ \E o \in Orders : SweepFail(o)

Spec == Init /\ [][Next]_vars

\* A call that has begun runs on: nothing the code awaits in it waits for
\* another caller for ever.
FairSpec ==
  /\ Spec
  /\ \A r \in Requests : WF_vars(RequestStep(r))
  /\ \A s \in Settlers : WF_vars(SettlerStep(s))
  /\ \A o \in Orders : WF_vars(SweepFail(o))

-----------------------------------------------------------------------------
(* Properties                                                              *)

\* The units of v that the pending orders hold, one element per unit.
HeldUnits(v) ==
  {u \in Orders \X (1 .. MaxQty) : status[u[1]] = "pending" /\ u[2] <= items[u[1]][v]}

\* The units of v that confirmed orders have taken and not given back.
SoldUnits(v) ==
  {u \in Orders \X (1 .. MaxQty) :
     status[u[1]] \in {"processing", "shipped", "delivered"} /\ u[2] <= items[u[1]][v]}

\* The reserved column is exactly what the pending orders hold: however
\* checkouts, sweeps, rebuilds, cancels, settlements and crashes interleave,
\* no release is skipped or done twice (the phantom reservations the comment
\* at order.service.ts:406-411 tells of).
ReservedIsHeld ==
  \A v \in Variants : reserved[v] = Cardinality(HeldUnits(v))

\* As long as nobody overwrites the shelf, a tracked variant is never promised
\* beyond its inventory, so every pending order can still be confirmed.
NeverOversold ==
  \A v \in Variants : stock[v] = "tracked" => reserved[v] <= inventory[v]

\* Stock is not created: what is on the shelf and what confirmed orders have
\* taken never exceeds what there was at the start (a double restock would).
StockNotInvented ==
  \A v \in Variants : inventory[v] + Cardinality(SoldUnits(v)) <= OpeningStock[v]

\* While nobody overwrites the shelf, neither side of it drifts: no promise beyond
\* the inventory, no unit that was never there.
ShelfBalanced == NeverOversold /\ StockNotInvented

\* The paid edge of an order (cart clear, vendor submission, receipt, owner
\* mail) runs at most once, however many settlements arrive for it.
PaidEdgeOnce == \A o \in Orders : sent[o]["fulfil"] <= 1

\* An order that went to the vendors on a captured payment is never failed:
\* not by a sweep working from an old snapshot, not by a rebuilding checkout,
\* not by a late payment.failed.
ServedNeverFailed == \A o \in Orders : sent[o]["fulfil"] > 0 => status[o] # "failed"

\* What the paid edge set going is neither repeated nor left on a failed order.
ServedForGood == PaidEdgeOnce /\ ServedNeverFailed

\* A charge is never lost in silence: once no settlement of a paid order is
\* under way, the order went through the paid edge or is flagged for refund.
NoSilentCharge ==
  \A o \in Orders :
    payment[o] = "paid" /\ (\A s \in Settlers : call[s].order # o)
      => sent[o]["fulfil"] > 0 \/ o \in flagged

\* One cart has at most one order that can still be paid or shipped: the key
\* is given up only by an order that has failed.
OneLiveOrderPerCart ==
  \A o, p \in Orders :
    /\ o # p /\ origin[o] = origin[p] /\ origin[o] # NoCart
    /\ status[o] # "none" /\ status[p] # "none"
    => status[o] \in Terminal \/ status[p] \in Terminal

\* The order a checkout hands back for payment is the basket that was checked
\* out: an unpaid pending order with other lines is never handed back.
HandedBackMatches ==
  \A r \in Requests : LET o == req[r].order IN
    req[r].pc = "done" /\ status[o] = "pending" /\ payment[o] # "paid"
      => items[o] = req[r].lineup

\* The settlement of o has still to decide what becomes of it.
Undecided == {"claimed", "threw", "stopping", "forcing"}
Deciding(o) == \E s \in Settlers : call[s].order = o /\ call[s].pc \in Undecided

\* What OrderFate sees of o.
Outcome(o) ==
  IF status[o] \in {"none", "pending"} THEN "pending"
  ELSE IF status[o] \in Terminal THEN status[o] ELSE "processing"

SettledState(o) ==
  IF payment[o] # "paid" THEN "no" ELSE IF Deciding(o) THEN "claimed" ELSE "done"

Fate(o) ==
  INSTANCE OrderFate WITH
    Dead <- Terminal, Unpaid <- {"failed"},
    order <- Outcome(o), settled <- SettledState(o), flagged <- o \in flagged

\* Every order implements OrderFate: it settles once, and its settlement decides once,
\* on what the order is at that moment; whoever ends an order, or finds it ended, ends
\* it for good, and one that settled never fails.
\* (Fate(o)!Spec for every o, as one formula about steps.)
FateDecided ==
  /\ \A o \in Orders : Fate(o)!Init
  /\ [][\A o \in Orders : Fate(o)!Next \/ UNCHANGED Fate(o)!vars]_vars

\* A captured payment moves its order out of pending.
CapturedMovesForward ==
  \A o \in Orders :
    (payment[o] = "paid" /\ status[o] = "pending") ~> (status[o] # "pending")

\* Every checkout request is answered, however often the order it found is
\* settled, swept or rebuilt under it.
CheckoutAnswers ==
  \A r \in Requests : (req[r].pc # "idle") ~> (req[r].pc \in {"done", "refused"})

=============================================================================
