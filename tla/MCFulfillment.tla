--------------------------- MODULE MCFulfillment ---------------------------
(***************************************************************************)
(* AfterSale for TLC.  Its three parts share no state, so one of them      *)
(* moves at a time: "part" says which, and the state spaces add up.        *)
(***************************************************************************)
EXTENDS AfterSale, TLC

VARIABLE part

EveryProvider == {"printful", "printify", "contrado"}

\* v1 and v2 are two shops of one brand, v3 is of another.  Every hook is tried with
\* orders of nobody's lines, of one vendor and of two; a ping and a partner that only
\* acknowledges, with an order of one.
ThreeVendors == [v \in {"v1", "v2", "v3"} |-> IF v = "v3" THEN "b2" ELSE "b1"]
SomeSetups ==
  [lines : {{}, {"v1"}, {"v1", "v2"}, {"v1", "v3"}}, cred : {"v1", "v3", "none"},
   brand : {"b1", "b2", "none"}, topic : {"order"}, async : {FALSE}]
  \cup
  [lines : {{"v1"}}, cred : {"v1"}, brand : {"b1", "none"}, topic : {"order", "action"}, async : BOOLEAN]

-----------------------------------------------------------------------------
\* The parts that do not move stand at one of their initial states.
MCInit ==
  /\ part \in {"vendors", "partners", "parcels"}
  /\ AfterSaleInit
  /\ part # "vendors" => provider = "printful" /\ address
  /\ part # "parcels" => s_address
  /\ part # "partners" => w_setup = CHOOSE s \in Setups : TRUE

Routing(A) == part = "vendors" /\ A /\ UNCHANGED <<part, svars, wvars>>
Hooks(A) == part = "partners" /\ A /\ UNCHANGED <<part, vars, svars>>

MCNext ==
  /\ \/ part = "vendors" /\ VendorsMove
     \/ part = "partners" /\ PartnersMove
     \/ part = "parcels" /\ ParcelsMove
  /\ UNCHANGED part

\* The fairness of Fulfillment in its part and that of WebhookDelivery in its own:
\* where one part never moves, fairness of "either" is fairness of the other.
MCFairness ==
  /\ WF_<<part, all>>(Routing(Landed) \/ Hooks(Partners!Cool))
  /\ WF_<<part, all>>(Routing(Step("retry")))
  /\ SF_<<part, all>>(Routing(Retry) \/ Hooks(Partners!Redeliver))
  /\ SF_<<part, all>>(Routing(Look("retry")) \/ Hooks(Partners!Open("hourly")))
  /\ SF_<<part, all>>(Routing(RecoverAnswered) \/ Hooks(Partners!Opened))
  /\ SF_<<part, all>>(Routing(CreateAnswered) \/ Hooks(Partners!Answered))
  /\ SF_<<part, all>>(Routing(ProduceAnswered))

MCSpec == MCInit /\ [][MCNext]_<<part, all>> /\ MCFairness

=============================================================================
