----------------------------- MODULE AfterSale -----------------------------
(***************************************************************************)
(* An order after its payment: the vendors that are sent their lines       *)
(* (Fulfillment), the partners that are told of theirs (WebhookDelivery)   *)
(* and the parcels (Shipments).  The three hang on one order and share no  *)
(* variable, so their steps interleave and each leaves the others alone.   *)
(***************************************************************************)
EXTENDS Fulfillment

CONSTANTS
  Parcels, NoParcel, Parties, Requests,    \* see Shipments
  Vendors, NoVendor, BrandOf, Setups, Events   \* see WebhookDelivery

VARIABLES
  s_parcel, s_address, s_call, s_overlapped,
  w_setup, w_order, w_hook, w_secret, w_rows, w_young, w_call, w_events, w_got

svars == <<s_parcel, s_address, s_call, s_overlapped>>
wvars == <<w_setup, w_order, w_hook, w_secret, w_rows, w_young, w_call, w_events, w_got>>
all   == <<vars, svars, wvars>>

Parcelling ==
  INSTANCE Shipments WITH
    Callers <- Requests, parcel <- s_parcel, address <- s_address, call <- s_call,
    overlapped <- s_overlapped

Partners ==
  INSTANCE WebhookDelivery WITH
    setup <- w_setup, order <- w_order, hook <- w_hook, secret <- w_secret, rows <- w_rows,
    young <- w_young, call <- w_call, events <- w_events, got <- w_got

\* The hooks considered are of the kinds the module knows.
ASSUME AfterSaleAssumption == Setups \subseteq Partners!SetupType /\ Events \in Nat

-----------------------------------------------------------------------------
AfterSaleInit == Init /\ Parcelling!Init /\ Partners!Init

VendorsMove  == Next /\ UNCHANGED <<svars, wvars>>
ParcelsMove  == Parcelling!Next /\ UNCHANGED <<vars, wvars>>
PartnersMove == Partners!Next /\ UNCHANGED <<vars, svars>>

AfterSaleNext == VendorsMove \/ ParcelsMove \/ PartnersMove

AfterSaleSpec == AfterSaleInit /\ [][AfterSaleNext]_all

-----------------------------------------------------------------------------
(* Properties                                                              *)

\* Every variable of the three parts keeps its type.
TypesOK == TypeOK /\ Parcelling!TypeOK /\ Partners!TypeOK

\* Shipments: what was delivered had a carrier and a number, and a repeated or
\* interrupted split does not double the parcels.  (The types ride along.)
ParcelsKept == TypesOK /\ Parcelling!DeliveredIsTracked /\ Parcelling!OneParcelEach

\* WebhookDelivery: a partner is sent its own lines and nobody else's.
OwnLinesOnly == Partners!OwnLinesOnly

\* WebhookDelivery: a partner whose vendor is on a paid order hears of it in the end.
OwnerHearsOfIt == Partners!OwnerHearsOfIt

=============================================================================
