---------------------------- MODULE MCBackOffice ----------------------------
(***************************************************************************)
(* BackOffice for TLC.  Its four parts share no state, so one of them      *)
(* moves at a time: "part" says which, and the state spaces add up.        *)
(***************************************************************************)
EXTENDS BackOffice, TLC

VARIABLE part

\* A link for one that asks for no approval, or asks for it; and one for anybody.
SomeLinks == {[cap |-> 1, approval |-> FALSE, days |-> 1],
              [cap |-> 1, approval |-> TRUE, days |-> 0],
              [cap |-> 0, approval |-> TRUE, days |-> 1]}

\* Runs are also the requests, visits, reads and writes that overlap: one symmetry for all.
Sym == Permutations(Runs) \cup Permutations(Addresses) \cup Permutations(Accounts)

-----------------------------------------------------------------------------
\* The parts that do not move stand at one of their initial states.
MCInit ==
  /\ part \in {"campaign", "accounts", "members", "cache"}
  /\ BackOfficeInit
  /\ part # "campaign" => carrier = "smtp"
  /\ part # "members" => m_group.ends = 1 /\ m_setup = CHOOSE s \in Links : TRUE

\* A disorderly history of the accounts and one of the cache that is not sound promise
\* nothing more and are not followed.
MCNext ==
  /\ \/ part = "campaign" /\ CampaignMoves
     \/ part = "accounts" /\ a_orderly /\ AccountsMove
     \/ part = "members" /\ MembersMove
     \/ part = "cache" /\ k_sound /\ CacheMoves
  /\ UNCHANGED part

MCSpec == MCInit /\ [][MCNext]_<<part, all>>

=============================================================================
