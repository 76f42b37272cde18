-------------------------- MODULE MembershipProofs --------------------------
(***************************************************************************)
(* Theorems about Membership, for any customers, any finite set of         *)
(* registrations that overlap, any settings of the group and any horizon.  *)
(***************************************************************************)
EXTENDS Membership, FiniteSetTheorems, TLAPS

-----------------------------------------------------------------------------
(* The invariant                                                           *)

\* What the constants stand for.
Sensible ==
  /\ IsFiniteSet(Visits)
  /\ Setups \subseteq [cap : Nat, approval : BOOLEAN, days : Nat]
  /\ Horizon \in Nat

\* The registrations that were counted and have not joined yet.
Joining == {v \in Visits : visit[v].pc = "join"}

\* Whoever joined or is about to was counted, and counted only while there was room.
Counted ==
  /\ joined + Cardinality(Joining) <= signups
  /\ setup.cap # 0 => signups <= setup.cap

\* A membership that does not wait for approval was let in.
LetIn == \A c \in Customers : (Member(c) /\ ~row[c].pending) => c \in granted

\* A registration at work knows its customer, and so does the operator's call.
Known ==
  /\ \A v \in Visits : visit[v].pc # "idle" => visit[v].c \in Customers
  /\ op.pc # "idle" => op.c \in Customers

Inv == TypeOK /\ Counted /\ LetIn /\ Known

-----------------------------------------------------------------------------
(* Settings, dates and rows                                                *)

LEMMA Settings ==
  ASSUME Sensible, TypeOK
  PROVE  /\ setup.cap \in Nat /\ setup.approval \in BOOLEAN /\ setup.days \in Nat
         /\ Horizon \in Nat /\ now \in Nat /\ now <= Horizon
  BY DEF Sensible, TypeOK

LEMMA UntilRange ==
  ASSUME Sensible, NEW t \in Nat
  PROVE  Until(t) \in 0 .. Late
  BY DEF Sensible, Until, Late

LEMMA ExpiryRange ==
  ASSUME Sensible, TypeOK
  PROVE  DefaultExpiry(now) \in 0 .. Late
<1>1. Never \in 0 .. Late
  BY DEF Never, Late, Sensible
<1>2. now + setup.days \in Nat
  BY Settings
<1> QED
  BY <1>1, <1>2, UntilRange DEF DefaultExpiry

LEMMA MadeRow ==
  ASSUME NEW r \in Rows, NEW pending \in BOOLEAN, NEW ends \in 0 .. Late
  PROVE  Made(r, pending, ends) \in Rows /\ Made(r, pending, ends).pending = pending
  BY DEF Made, Rows

LEMMA GoneRow ==
  ASSUME Sensible, NEW r \in Rows
  PROVE  Gone(r) \in Rows /\ Gone(r).in = FALSE
  BY DEF Gone, Rows, Never, Late, Sensible

LEMMA DropRows ==
  ASSUME Sensible, TypeOK, LetIn, NEW S \in SUBSET Customers, Drop(S)
  PROVE  row' \in [Customers -> Rows] /\ granted' \subseteq Customers /\ LetIn'
<1>1. \A c \in Customers : Gone(row[c]) \in Rows /\ Gone(row[c]).in = FALSE
  BY GoneRow DEF TypeOK
<1>2. row' \in [Customers -> Rows] /\ granted' \subseteq Customers
  BY <1>1 DEF Drop, TypeOK
<1>3. \A c \in Customers : row'[c].in => c \notin S /\ row'[c] = row[c]
  BY <1>1 DEF Drop
<1>4. LetIn'
  BY <1>3 DEF LetIn, Member, Drop
<1> QED
  BY <1>2, <1>4

LEMMA WriteRow ==
  ASSUME TypeOK, NEW c \in Customers, NEW r \in Rows, Write(c, r)
  PROVE  /\ row' \in [Customers -> Rows] /\ row'[c] = r
         /\ \A d \in Customers : d # c => row'[d] = row[d]
  BY DEF TypeOK, Write

-----------------------------------------------------------------------------
(* Counting registrations                                                  *)

LEMMA JoiningFinite ==
  ASSUME Sensible
  PROVE  IsFiniteSet(Joining) /\ Cardinality(Joining) \in Nat
<1>1. IsFiniteSet(Visits) /\ Joining \subseteq Visits
  BY DEF Sensible, Joining
<1> QED
  BY <1>1, FS_Subset, FS_CardinalityType

\* A registration that is not about to join leaves the others as they are.
LEMMA JoiningSame ==
  ASSUME TypeOK, NEW v \in Visits, NEW x, visit' = [visit EXCEPT ![v] = x],
         visit[v].pc # "join", x.pc # "join"
  PROVE  Joining' = Joining
  BY DEF TypeOK, Joining

LEMMA JoiningOneMore ==
  ASSUME Sensible, TypeOK, NEW v \in Visits, visit[v].pc = "reserve",
         visit' = [visit EXCEPT ![v].pc = "join"]
  PROVE  Cardinality(Joining') = Cardinality(Joining) + 1
<1>1. Joining' = Joining \cup {v} /\ v \notin Joining
  BY DEF TypeOK, Joining
<1> QED
  BY <1>1, JoiningFinite, FS_AddElement

LEMMA JoiningOneLess ==
  ASSUME Sensible, TypeOK, NEW v \in Visits, visit[v].pc = "join", Leave(v)
  PROVE  Cardinality(Joining') = Cardinality(Joining) - 1
<1>1. Joining' = Joining \ {v} /\ v \in Joining
  BY DEF TypeOK, Joining, Leave, NoVisit
<1> QED
  BY <1>1, JoiningFinite, FS_RemoveElement

LEMMA CountedStays ==
  ASSUME Counted, UNCHANGED <<setup, signups, visit, joined>>
  PROVE  Counted'
  BY DEF Counted, Joining

LEMMA LetInStays ==
  ASSUME LetIn, UNCHANGED <<row, granted>>
  PROVE  LetIn'
  BY DEF LetIn, Member

-----------------------------------------------------------------------------
(* register()                                                              *)

LEMMA InitInv ==
  ASSUME Sensible, Init
  PROVE  Inv
<1>1. TypeOK
  <2>1. Never \in 0 .. Late /\ 1 \in 0 .. Late /\ 0 \in 0 .. Horizon
    BY DEF Sensible, Never, Late
  <2>2. row \in [Customers -> Rows]
    BY <2>1 DEF Init, Rows
  <2>3. group \in [alive : BOOLEAN, ends : 0 .. Late]
    BY <2>1 DEF Init
  <2>4. /\ visit \in [Visits -> [pc : {"idle", "reserve", "join"}, c : Customers \cup {Nobody}, ends : 0 .. Late]]
        /\ op \in [pc : {"idle", "approve", "extend"}, c : Customers \cup {Nobody}, id : 0 .. 1, ends : 0 .. Late]
        /\ sweep \in [pc : {"idle", "group", "members"}, at : 0 .. Horizon, doomed : BOOLEAN,
                      batch : SUBSET Customers]
    BY <2>1 DEF Init, NoVisit, NoOp, NoSweep
  <2> QED
    BY <2>1, <2>2, <2>3, <2>4 DEF Init, TypeOK
<1>2. Joining = {}
  BY DEF Init, Joining, NoVisit
<1>3. Counted
  BY <1>1, <1>2, Settings, FS_EmptySet DEF Init, Counted
<1>4. LetIn /\ Known
  BY DEF Init, LetIn, Known, Member, NoVisit, NoOp
<1> QED
  BY <1>1, <1>3, <1>4 DEF Inv

LEMMA VisitInv ==
  ASSUME Sensible, Inv, NEW v \in Visits, NEW c \in Customers, Visit(v, c)
  PROVE  Inv'
<1>1. TypeOK' /\ Known'
  BY ExpiryRange DEF Inv, TypeOK, Visit, Known
<1>2. Joining' = Joining
  <2> DEFINE x == [pc |-> "reserve", c |-> c, ends |-> DefaultExpiry(now)]
  <2>1. x.pc # "join" /\ visit' = [visit EXCEPT ![v] = x] /\ visit[v].pc # "join"
    BY DEF Visit
  <2> QED
    BY <2>1, JoiningSame DEF Inv
<1>3. Counted' /\ LetIn'
  BY <1>2 DEF Inv, Visit, Counted, LetIn, Member
<1> QED
  BY <1>1, <1>3 DEF Inv

LEMMA ReserveInv ==
  ASSUME Sensible, Inv, NEW v \in Visits, Reserve(v)
  PROVE  Inv'
<1>1. TypeOK' /\ Known'
  BY DEF Inv, TypeOK, Reserve, Leave, NoVisit, Known, Never, Late, Sensible
<1>2. LetIn'
  BY LetInStays DEF Inv, Reserve
<1>3. Counted'
  <2>1. CASE group.alive /\ HasRoom
    <3>1. Cardinality(Joining') = Cardinality(Joining) + 1 /\ signups' = signups + 1
      BY <2>1, JoiningOneMore DEF Inv, Reserve
    <3>2. setup.cap # 0 => signups + 1 <= setup.cap
      BY <2>1, Settings DEF Inv, TypeOK, HasRoom
    <3> QED
      BY <3>1, <3>2, JoiningFinite DEF Inv, TypeOK, Counted, Reserve
  <2>2. CASE ~(group.alive /\ HasRoom)
    <3>1. Joining' = Joining
      BY <2>2, JoiningSame DEF Inv, Reserve, Leave, NoVisit
    <3> QED
      BY <2>2, <3>1 DEF Inv, Counted, Reserve
  <2> QED
    BY <2>1, <2>2
<1> QED
  BY <1>1, <1>2, <1>3 DEF Inv

LEMMA JoinInv ==
  ASSUME Sensible, Inv, NEW v \in Visits, Join(v)
  PROVE  Inv'
<1> DEFINE c == visit[v].c
           ends == IF setup.approval THEN Never ELSE visit[v].ends
<1>0. c \in Customers /\ visit[v].pc = "join" /\ Leave(v)
  BY DEF Inv, Known, Join
<1>1. Cardinality(Joining') = Cardinality(Joining) - 1
  BY <1>0, JoiningOneLess DEF Inv
<1>2. /\ visit' \in [Visits -> [pc : {"idle", "reserve", "join"}, c : Customers \cup {Nobody}, ends : 0 .. Late]]
      /\ Known'
  BY <1>0 DEF Inv, TypeOK, Leave, NoVisit, Known, Join, Never, Late, Sensible
<1>3. CASE Member(c) \/ ~group.alive
  BY <1>1, <1>2, <1>3, JoiningFinite, LetInStays DEF Inv, TypeOK, Counted, Join
<1>4. CASE ~(Member(c) \/ ~group.alive)
  <2>1. /\ joined' = joined + 1 /\ Write(c, Made(row[c], setup.approval, ends))
        /\ granted' = IF setup.approval THEN granted \ {c} ELSE granted \cup {c}
        /\ UNCHANGED <<setup, group, signups, now, op, sweep, due>>
    BY <1>4 DEF Join
  <2>2. ends \in 0 .. Late
    BY DEF Inv, TypeOK, Never, Late, Sensible
  <2> HIDE DEF ends
  <2>3. Made(row[c], setup.approval, ends) \in Rows
        /\ Made(row[c], setup.approval, ends).pending = setup.approval
    <3>1. row[c] \in Rows /\ setup.approval \in BOOLEAN
      BY <1>0, Settings DEF Inv, TypeOK
    <3> QED
      BY <2>2, <3>1, MadeRow
  <2>4. /\ row' \in [Customers -> Rows] /\ row'[c].pending = setup.approval
        /\ \A d \in Customers : d # c => row'[d] = row[d]
    BY <1>0, <2>1, <2>3, WriteRow DEF Inv
  <2>5. TypeOK'
    BY <1>0, <1>2, <2>1, <2>4 DEF Inv, TypeOK
  <2>6. Counted'
    BY <1>1, <2>1, JoiningFinite DEF Inv, TypeOK, Counted
  <2>7. LetIn'
    BY <1>0, <2>1, <2>4, Settings DEF Inv, LetIn, Member
  <2> QED
    BY <1>2, <2>5, <2>6, <2>7 DEF Inv
<1> QED
  BY <1>3, <1>4

-----------------------------------------------------------------------------
(* The operator                                                            *)

LEMMA AssignInv ==
  ASSUME Sensible, Inv, NEW c \in Customers, Assign(c)
  PROVE  Inv'
<1>1. Made(row[c], FALSE, DefaultExpiry(now)) \in Rows
  BY ExpiryRange, MadeRow DEF Inv, TypeOK
<1>2. /\ row' \in [Customers -> Rows]
      /\ \A d \in Customers : d # c => row'[d] = row[d]
  BY <1>1, WriteRow DEF Inv, Assign
<1>3. TypeOK' /\ LetIn' /\ Known'
  BY <1>2 DEF Inv, TypeOK, LetIn, Known, Member, Assign
<1> QED
  BY <1>3, CountedStays DEF Inv, Assign

LEMMA RevokeInv ==
  ASSUME Sensible, Inv, NEW c \in Customers, Revoke(c)
  PROVE  Inv'
<1>1. row' \in [Customers -> Rows] /\ granted' \subseteq Customers /\ LetIn'
  BY DropRows DEF Inv, Revoke
<1>2. TypeOK' /\ Known'
  BY <1>1 DEF Inv, TypeOK, Known, Revoke
<1> QED
  BY <1>1, <1>2, CountedStays DEF Inv, Revoke

LEMMA ResetInv ==
  ASSUME Sensible, Inv, NEW c \in Customers, Reset(c)
  PROVE  Inv'
<1> DEFINE r == [row[c] EXCEPT !.ends = DefaultExpiry(now), !.reminded = FALSE]
<1>1. r \in Rows /\ r.in = row[c].in /\ r.pending = row[c].pending
  BY ExpiryRange DEF Inv, TypeOK, Rows
<1>2. /\ row' \in [Customers -> Rows] /\ row'[c] = r
      /\ \A d \in Customers : d # c => row'[d] = row[d]
  BY <1>1, WriteRow DEF Inv, Reset
<1> HIDE DEF r
<1>3. TypeOK' /\ LetIn' /\ Known'
  BY <1>1, <1>2 DEF Inv, TypeOK, LetIn, Known, Member, Reset
<1> QED
  BY <1>3, CountedStays DEF Inv, Reset

LEMMA AskInv ==
  ASSUME Sensible, Inv, NEW c \in Customers, Ask(c)
  PROVE  Inv'
<1>1. row[c] \in Rows /\ DefaultExpiry(now) \in 0 .. Late
  BY ExpiryRange DEF Inv, TypeOK
<1>2. (IF row[c].ends > now THEN row[c].ends ELSE now) + 1 \in Nat
  BY <1>1, Settings DEF Inv, Rows, Late
<1>3. Until((IF row[c].ends > now THEN row[c].ends ELSE now) + 1) \in 0 .. Late
  BY <1>2, UntilRange
<1>4. op' \in [pc : {"idle", "approve", "extend"}, c : Customers \cup {Nobody}, id : 0 .. 1, ends : 0 .. Late]
      /\ op'.c = c
  BY <1>1, <1>3 DEF Ask, Rows
<1>5. TypeOK' /\ Known'
  BY <1>4 DEF Inv, TypeOK, Known, Ask
<1> QED
  BY <1>5, CountedStays, LetInStays DEF Inv, Ask

\* approve() and extend() write the end they decided on, and free the call.
LEMMA OpRow ==
  ASSUME Sensible, Inv, op.pc # "idle",
         NEW r, r \in {[row[op.c] EXCEPT !.pending = FALSE, !.ends = op.ends],
                       [row[op.c] EXCEPT !.ends = op.ends, !.reminded = FALSE]},
         row' = [row EXCEPT ![op.c] = r]
  PROVE  /\ op.c \in Customers /\ row' \in [Customers -> Rows] /\ row'[op.c] = r
         /\ r.in = row[op.c].in
         /\ \A d \in Customers : d # op.c => row'[d] = row[d]
<1>1. op.c \in Customers /\ row[op.c] \in Rows /\ op.ends \in 0 .. Late
  BY DEF Inv, Known, TypeOK
<1>2. r \in Rows /\ r.in = row[op.c].in
  BY <1>1 DEF Rows
<1> QED
  BY <1>1, <1>2 DEF Inv, TypeOK

LEMMA ApproveInv ==
  ASSUME Sensible, Inv, Approve
  PROVE  Inv'
<1>0. NoOp \in [pc : {"idle", "approve", "extend"}, c : Customers \cup {Nobody}, id : 0 .. 1, ends : 0 .. Late]
  BY DEF NoOp, Never, Late, Sensible
<1>1. CASE Still(op.c, op.id)
  <2> DEFINE r == [row[op.c] EXCEPT !.pending = FALSE, !.ends = op.ends]
  <2>1. row' = [row EXCEPT ![op.c] = r] /\ granted' = granted \cup {op.c}
    BY <1>1 DEF Approve
  <2>2. /\ op.c \in Customers /\ row' \in [Customers -> Rows]
        /\ \A d \in Customers : d # op.c => row'[d] = row[d]
    BY <2>1, OpRow DEF Approve
  <2> QED
    BY <1>0, <2>1, <2>2, CountedStays DEF Inv, TypeOK, LetIn, Known, Member, Approve, NoOp
<1>2. CASE ~Still(op.c, op.id)
  BY <1>0, <1>2, CountedStays, LetInStays DEF Inv, TypeOK, Known, Approve, NoOp
<1> QED
  BY <1>1, <1>2

LEMMA ExtendInv ==
  ASSUME Sensible, Inv, Extend
  PROVE  Inv'
<1>0. NoOp \in [pc : {"idle", "approve", "extend"}, c : Customers \cup {Nobody}, id : 0 .. 1, ends : 0 .. Late]
  BY DEF NoOp, Never, Late, Sensible
<1>1. CASE Still(op.c, op.id)
  <2> DEFINE r == [row[op.c] EXCEPT !.ends = op.ends, !.reminded = FALSE]
  <2>0. row[op.c] \in Rows
    BY DEF Inv, TypeOK, Known, Extend
  <2>1. row' = [row EXCEPT ![op.c] = r]
    BY <1>1 DEF Extend
  <2>2. /\ op.c \in Customers /\ row' \in [Customers -> Rows] /\ row'[op.c] = r
        /\ \A d \in Customers : d # op.c => row'[d] = row[d]
    BY <2>1, OpRow DEF Extend
  <2>3. row'[op.c].in = row[op.c].in /\ row'[op.c].pending = row[op.c].pending
    BY <2>0, <2>2 DEF Rows
  <2> QED
    BY <1>0, <2>2, <2>3, CountedStays DEF Inv, TypeOK, LetIn, Known, Member, Extend, NoOp
<1>2. CASE ~Still(op.c, op.id)
  BY <1>0, <1>2, CountedStays, LetInStays DEF Inv, TypeOK, Known, Extend, NoOp
<1> QED
  BY <1>1, <1>2

LEMMA GroupInv ==
  ASSUME Sensible, Inv, Prolong \/ Delete
  PROVE  Inv'
<1>1. CASE Prolong
  BY <1>1, CountedStays, LetInStays DEF Inv, TypeOK, Known, Prolong, Never, Late, Sensible
<1>2. CASE Delete
  <2>1. row' \in [Customers -> Rows] /\ granted' \subseteq Customers /\ LetIn'
    BY <1>2, DropRows DEF Inv, Delete
  <2> QED
    BY <1>2, <2>1, CountedStays DEF Inv, TypeOK, Known, Delete
<1> QED
  BY <1>1, <1>2

-----------------------------------------------------------------------------
(* The sweep, the reminders and the clock                                  *)

LEMMA SweepInv ==
  ASSUME Sensible, Inv, StartSweep \/ SweepGroup \/ SweepMembers
  PROVE  Inv'
<1>0. NoSweep \in [pc : {"idle", "group", "members"}, at : 0 .. Horizon, doomed : BOOLEAN,
                   batch : SUBSET Customers]
  BY DEF NoSweep, Sensible
<1>1. CASE StartSweep
  <2>1. group.alive \in BOOLEAN
    BY DEF Inv, TypeOK
  <2>2. sweep' \in [pc : {"idle", "group", "members"}, at : 0 .. Horizon, doomed : BOOLEAN,
                    batch : SUBSET Customers]
    BY <1>1, <2>1 DEF StartSweep, Inv, TypeOK, Over
  <2> QED
    BY <1>1, <2>2, CountedStays, LetInStays DEF Inv, TypeOK, Known, StartSweep
<1>2. CASE SweepGroup
  <2>1. row' \in [Customers -> Rows] /\ granted' \subseteq Customers /\ LetIn'
    BY <1>2, DropRows, LetInStays DEF Inv, TypeOK, SweepGroup
  <2> QED
    BY <1>0, <1>2, <2>1, CountedStays DEF Inv, TypeOK, Known, SweepGroup
<1>3. CASE SweepMembers
  <2> DEFINE gone == {c \in Customers : Member(c) /\ Over(row[c].ends, sweep.at)}
  <2>1. gone \in SUBSET Customers /\ Drop(gone)
    BY <1>3 DEF SweepMembers
  <2> HIDE DEF gone
  <2>2. row' \in [Customers -> Rows] /\ granted' \subseteq Customers /\ LetIn'
    BY <2>1, DropRows DEF Inv
  <2> QED
    BY <1>0, <1>3, <2>2, CountedStays DEF Inv, TypeOK, Known, SweepMembers
<1> QED
  BY <1>1, <1>2, <1>3

LEMMA StartRemindersInv ==
  ASSUME Sensible, Inv, StartReminders
  PROVE  Inv'
<1>1. due' \subseteq Customers \X (0 .. 1)
  BY DEF Inv, TypeOK, StartReminders, Rows
<1> QED
  BY <1>1, CountedStays, LetInStays DEF Inv, TypeOK, Known, StartReminders

LEMMA RemindInv ==
  ASSUME Sensible, Inv, NEW c \in Customers, NEW id \in 0 .. 1, Remind(c, id)
  PROVE  Inv'
<1>1. CASE Still(c, id)
  <2> DEFINE r == [row[c] EXCEPT !.reminded = TRUE]
  <2>1. r \in Rows /\ r.in = row[c].in /\ r.pending = row[c].pending
    BY DEF Inv, TypeOK, Rows
  <2>2. /\ row' \in [Customers -> Rows] /\ row'[c] = r
        /\ \A d \in Customers : d # c => row'[d] = row[d]
    BY <1>1, <2>1, WriteRow DEF Inv, Remind
  <2> HIDE DEF r
  <2>3. TypeOK' /\ LetIn' /\ Known'
    BY <1>1, <2>1, <2>2 DEF Inv, TypeOK, LetIn, Known, Member, Remind
  <2> QED
    BY <2>3, CountedStays DEF Inv, Remind
<1>2. CASE ~Still(c, id)
  BY <1>2, CountedStays, LetInStays DEF Inv, TypeOK, Known, Remind
<1> QED
  BY <1>1, <1>2

LEMMA TickInv ==
  ASSUME Sensible, Inv, Tick
  PROVE  Inv'
<1>1. now' \in 0 .. Horizon
  BY Settings DEF Inv, Tick
<1> QED
  BY <1>1, CountedStays, LetInStays DEF Inv, TypeOK, Known, Tick

-----------------------------------------------------------------------------
(* The theorems                                                            *)

LEMMA NextInv ==
  ASSUME Sensible, Inv, [Next]_vars
  PROVE  Inv'
<1>1. CASE \E v \in Visits : Reserve(v) \/ Join(v) \/ \E c \in Customers : Visit(v, c)
  BY <1>1, ReserveInv, JoinInv, VisitInv
<1>2. CASE \E c \in Customers : Assign(c) \/ Revoke(c) \/ Reset(c) \/ Ask(c)
                                 \/ \E id \in 0 .. 1 : Remind(c, id)
  BY <1>2, AssignInv, RevokeInv, ResetInv, AskInv, RemindInv
<1>3. CASE Approve \/ Extend \/ Prolong \/ Delete
  BY <1>3, ApproveInv, ExtendInv, GroupInv
<1>4. CASE StartSweep \/ SweepGroup \/ SweepMembers \/ StartReminders \/ Tick
  BY <1>4, SweepInv, StartRemindersInv, TickInv
<1>5. CASE UNCHANGED vars
  BY <1>5, CountedStays, LetInStays DEF vars, Inv, TypeOK, Known
<1> QED
  BY <1>1, <1>2, <1>3, <1>4, <1>5 DEF Next

\* The inductive invariant, with the types: what joined and what is about to join was
\* counted, and a membership that does not wait was let in.
THEOREM MembershipInvariant ==
  ASSUME Sensible
  PROVE  Spec => []Inv
<1>1. Init => Inv
  BY Sensible, InitInv
<1>2. Inv /\ [Next]_vars => Inv'
  BY Sensible, NextInv
<1> QED
  BY <1>1, <1>2, PTL DEF Spec

\* No more customers join through the link than it allows, and nobody has the group's
\* discount who was not let in, however many register at once.
THEOREM SignupsAlwaysKept ==
  ASSUME Sensible
  PROVE  Spec => []SignupsKept
<1>1. Inv => SignupsKept
  <2> SUFFICES ASSUME Inv PROVE SignupsKept
    OBVIOUS
  <2>1. joined <= signups
    BY JoiningFinite, Sensible DEF Inv, TypeOK, Counted
  <2> QED
    BY <2>1 DEF Inv, Counted, LetIn, SignupsKept, Discounted
<1> QED
  BY <1>1, MembershipInvariant, PTL

\* A sweep's own idea of the time is never ahead of the clock.
Earlier == sweep.at <= now

LEMMA EarlierInv ==
  ASSUME Sensible, Inv, Inv', Earlier, [Next]_vars
  PROVE  Earlier'
<1>1. sweep.at \in Nat /\ now \in Nat /\ now' \in Nat
  BY Settings DEF Inv, TypeOK, Sensible
<1>2. CASE \E v \in Visits : Reserve(v) \/ Join(v) \/ \E c \in Customers : Visit(v, c)
  BY <1>2 DEF Reserve, Join, Visit, Earlier
<1>3. CASE \E c \in Customers : Assign(c) \/ Revoke(c) \/ Reset(c) \/ Ask(c)
                                 \/ \E id \in 0 .. 1 : Remind(c, id)
  BY <1>3 DEF Assign, Revoke, Reset, Ask, Remind, Earlier
<1>4. CASE Approve \/ Extend \/ Prolong \/ Delete
  BY <1>4 DEF Approve, Extend, Prolong, Delete, Earlier
<1>5. CASE StartSweep
  BY <1>1, <1>5 DEF StartSweep, Earlier
<1>6. CASE SweepGroup
  BY <1>1, <1>6 DEF SweepGroup, NoSweep, Earlier, Inv, TypeOK
<1>7. CASE SweepMembers
  BY <1>1, <1>7 DEF SweepMembers, NoSweep, Earlier
<1>8. CASE StartReminders
  BY <1>8 DEF StartReminders, Earlier
<1>9. CASE Tick
  BY <1>1, <1>9 DEF Tick, Earlier
<1>10. CASE UNCHANGED vars
  BY <1>10 DEF vars, Earlier
<1> QED
  BY <1>2, <1>3, <1>4, <1>5, <1>6, <1>7, <1>8, <1>9, <1>10 DEF Next

\* One step: only the sweep of memberships ends a sweep there and removes a row.
LEMMA SweptStep ==
  ASSUME Sensible, Inv, Earlier, [Next]_vars,
         NEW c \in Customers, sweep.pc = "members", Member(c), row'[c].in = FALSE, sweep'.pc = "idle"
  PROVE  Over(row[c].ends, now)
<1>1. sweep' # sweep
  OBVIOUS
<1>2. SweepMembers
  <2>1. ~UNCHANGED sweep
    BY <1>1
  <2>2. ~UNCHANGED vars
    BY <2>1 DEF vars
  <2>3. ~\E v \in Visits : Reserve(v) \/ Join(v) \/ \E d \in Customers : Visit(v, d)
    BY <2>1 DEF Reserve, Join, Visit
  <2>4. ~\E d \in Customers : Assign(d) \/ Revoke(d) \/ Reset(d) \/ Ask(d)
                               \/ \E id \in 0 .. 1 : Remind(d, id)
    BY <2>1 DEF Assign, Revoke, Reset, Ask, Remind
  <2>5. ~(Approve \/ Extend \/ Prolong \/ Delete \/ StartReminders \/ Tick)
    BY <2>1 DEF Approve, Extend, Prolong, Delete, StartReminders, Tick
  <2>6. ~(StartSweep \/ SweepGroup)
    BY DEF StartSweep, SweepGroup
  <2> QED
    BY <2>2, <2>3, <2>4, <2>5, <2>6 DEF Next
<1>3. Over(row[c].ends, sweep.at)
  BY <1>2 DEF SweepMembers, Drop, Member
<1>4. sweep.at \in Nat /\ now \in Nat /\ row[c].ends \in Nat
  BY Settings DEF Inv, TypeOK, Sensible, Rows, Late
<1> QED
  BY <1>3, <1>4 DEF Over, Earlier

\* The sweep takes no membership that goes on, whatever is extended or added again
\* while it is at work.
THEOREM SweptAlwaysOver ==
  ASSUME Sensible
  PROVE  Spec => SweptWereOver
<1>1. Init => Earlier
  BY DEF Init, NoSweep, Earlier
<1>2. Inv /\ Inv' /\ Earlier /\ [Next]_vars => Earlier'
  BY Sensible, EarlierInv
<1>3. Spec => []Earlier
  BY <1>1, <1>2, MembershipInvariant, PTL DEF Spec
<1>4. Inv /\ Earlier /\ [Next]_vars =>
        [\A c \in Customers :
           (sweep.pc = "members" /\ Member(c) /\ row'[c].in = FALSE /\ sweep'.pc = "idle") =>
              Over(row[c].ends, now)]_vars
  BY Sensible, SweptStep
<1> QED
  BY <1>3, <1>4, MembershipInvariant, PTL DEF Spec, SweptWereOver

=============================================================================
