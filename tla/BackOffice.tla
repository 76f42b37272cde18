----------------------------- MODULE BackOffice -----------------------------
(***************************************************************************)
(* Four parts of the shop's own side: a campaign that goes out (Campaign), *)
(* the addresses of the customers' accounts (CustomerAccounts), a group    *)
(* with a registration link (Membership) and the shared cache (Cache).     *)
(* They share no variable, so their steps interleave and each leaves the   *)
(* others alone.                                                           *)
(***************************************************************************)
EXTENDS Campaign

CONSTANTS
  Addresses, Accounts, Requests,             \* see CustomerAccounts
  Customers, Visits, Links, Horizon, Signups,  \* see Membership
  Readers, Writers, MaxWrites                \* see Cache

ASSUME BackOfficeAssumption ==
  /\ Nobody \notin Addresses \cup Accounts \cup {"void"} /\ "void" \notin Addresses
  /\ IsFiniteSet(Visits)
  /\ Links \subseteq [cap : Nat, approval : BOOLEAN, days : Nat]
  /\ Horizon \in Nat /\ MaxWrites \in Nat

VARIABLES
  a_email, a_ident, a_password, a_codes, a_call, a_orderly,
  m_setup, m_group, m_signups, m_row, m_now, m_visit, m_op, m_sweep, m_due, m_joined, m_granted,
  k_version, k_gen, k_entry, k_read, k_write, k_owed, k_sound

avars == <<a_email, a_ident, a_password, a_codes, a_call, a_orderly>>
mvars == <<m_setup, m_group, m_signups, m_row, m_now, m_visit, m_op, m_sweep, m_due, m_joined, m_granted>>
kvars == <<k_version, k_gen, k_entry, k_read, k_write, k_owed, k_sound>>
all   == <<vars, avars, mvars, kvars>>

SignIn ==
  INSTANCE CustomerAccounts WITH
    NoOne <- Nobody, Calls <- Requests,
    email <- a_email, ident <- a_ident, password <- a_password, codes <- a_codes,
    call <- a_call, orderly <- a_orderly

Group ==
  INSTANCE Membership WITH
    Setups <- Links,
    setup <- m_setup, group <- m_group, signups <- m_signups, row <- m_row, now <- m_now,
    visit <- m_visit, op <- m_op, sweep <- m_sweep, due <- m_due, joined <- m_joined,
    granted <- m_granted

Shared ==
  INSTANCE Cache WITH
    version <- k_version, gen <- k_gen, entry <- k_entry, read <- k_read, write <- k_write,
    owed <- k_owed, sound <- k_sound

-----------------------------------------------------------------------------
BackOfficeInit == Init /\ SignIn!Init /\ Group!Init /\ Shared!Init

CampaignMoves == Next /\ UNCHANGED <<avars, mvars, kvars>>
AccountsMove  == SignIn!Next /\ UNCHANGED <<vars, mvars, kvars>>
MembersMove   == Group!Next /\ UNCHANGED <<vars, avars, kvars>>
CacheMoves    == Shared!Next /\ UNCHANGED <<vars, avars, mvars>>

BackOfficeNext == CampaignMoves \/ AccountsMove \/ MembersMove \/ CacheMoves

BackOfficeSpec == BackOfficeInit /\ [][BackOfficeNext]_all

-----------------------------------------------------------------------------
(* Properties                                                              *)

\* Every variable of the four parts keeps its type.
TypesOK == TypeOK /\ SignIn!TypeOK /\ Group!TypeOK /\ Shared!TypeOK

\* CustomerAccounts: whoever proves an address gets in.
ProofLetsIn == SignIn!ProofLetsIn

\* Membership: the cap of a link, and the discount of those who were let in.
SignupsKept == Group!SignupsKept

\* Cache: a read that starts after an invalidation never gets an older value.
FreshAfterWrite == Shared!FreshAfterWrite

\* Membership: the sweep takes no membership that goes on.
SweptWereOver == Group!SweptWereOver

=============================================================================
