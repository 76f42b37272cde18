----------------------------- MODULE Membership -----------------------------
(***************************************************************************)
(* src/src/services/milieu.service.ts: one customer group (a milieu), its  *)
(* registration link, and the sweep and the reminders that run on a timer. *)
(*                                                                         *)
(* Visitors register through the link at the same time; register() looks,  *)
(* reserves one of the link's signups and joins in three statements.  The  *)
(* operator's calls read a row and write it by its id.  Time is a clock of *)
(* a few ticks; the rate limit, the honeypot, names and the announcements  *)
(* of the sweep are left out.                                              *)
(***************************************************************************)
EXTENDS Integers, FiniteSets

CONSTANTS
  Customers, Nobody,
  Visits,     \* calls of register() that may overlap
  Setups,     \* what groups are tried: [cap, approval, days]
  Horizon,    \* the clock stops there
  Signups     \* without a cap, nobody visits after so many signups

VARIABLES
  setup,      \* the group's settings: the cap of its link, approval, duration of a membership
  group,      \* [alive, ends]: the group, and when it is over
  signups,    \* regSignupCount
  row,        \* the membership of each customer: [in, id, pending, ends, reminded]
  now,
  visit,      \* each register(): [pc, c, ends]
  op,         \* an operator's call: [pc, c, id, ends]
  sweep,      \* runSweep(): [pc, at, doomed, batch]
  due,        \* runReminders(): the rows still to be reminded, by customer and id
  joined,     \* history: memberships made through the link
  granted     \* history: customers an operator approved or added, or who needed neither

vars == <<setup, group, signups, row, now, visit, op, sweep, due, joined, granted>>

Never == 0                                        \* no end: null in the database
Late == Horizon + 1                               \* every end after the horizon
Until(t) == IF t > Horizon THEN Late ELSE t
DefaultExpiry(t) == IF setup.days = 0 THEN Never ELSE Until(t + setup.days)
Over(ends, t) == ends # Never /\ ends <= t

\* A row's id is one bit: the row made after it was deleted has the other.
Rows == [in : BOOLEAN, id : 0 .. 1, pending : BOOLEAN, ends : 0 .. Late, reminded : BOOLEAN]
Gone(r) == [in |-> FALSE, id |-> r.id, pending |-> FALSE, ends |-> Never, reminded |-> FALSE]
Made(r, pending, ends) ==
  [in |-> TRUE, id |-> IF r.in THEN r.id ELSE 1 - r.id, pending |-> pending, ends |-> ends, reminded |-> FALSE]
NoVisit == [pc |-> "idle", c |-> Nobody, ends |-> Never]
NoOp == [pc |-> "idle", c |-> Nobody, id |-> 0, ends |-> Never]
NoSweep == [pc |-> "idle", at |-> 0, doomed |-> FALSE, batch |-> {}]

TypeOK ==
  /\ setup \in Setups
  /\ group \in [alive : BOOLEAN, ends : 0 .. Late]
  /\ signups \in Nat /\ joined \in Nat
  /\ row \in [Customers -> Rows]
  /\ now \in 0 .. Horizon
  /\ visit \in [Visits -> [pc : {"idle", "reserve", "join"}, c : Customers \cup {Nobody}, ends : 0 .. Late]]
  /\ op \in [pc : {"idle", "approve", "extend"}, c : Customers \cup {Nobody}, id : 0 .. 1, ends : 0 .. Late]
  /\ sweep \in [pc : {"idle", "group", "members"}, at : 0 .. Horizon, doomed : BOOLEAN,
                 batch : SUBSET Customers]
  /\ due \subseteq Customers \X (0 .. 1)
  /\ granted \subseteq Customers

Init ==
  /\ setup \in Setups
  /\ group \in [alive : {TRUE}, ends : {Never, 1}]
  /\ signups = 0 /\ joined = 0 /\ now = 0
  /\ row = [c \in Customers |-> [in |-> FALSE, id |-> 0, pending |-> FALSE, ends |-> Never, reminded |-> FALSE]]
  /\ visit = [v \in Visits |-> NoVisit] /\ op = NoOp /\ sweep = NoSweep
  /\ due = {} /\ granted = {}

Member(c) == row[c].in
Write(c, r) == row' = [row EXCEPT ![c] = r]
Drop(S) ==
  /\ row' = [c \in Customers |-> IF c \in S THEN Gone(row[c]) ELSE row[c]]
  /\ granted' = granted \ S

Live == group.alive /\ ~Over(group.ends, now)

-----------------------------------------------------------------------------
(* register(): peek, reserve, join                                         *)

\* A member learns the status and changes nothing.  The end of the membership counts
\* from here, however late the visitor joins.
Visit(v, c) ==
  /\ visit[v].pc = "idle" /\ Live /\ ~Member(c)
  /\ setup.cap # 0 \/ signups < Signups
  /\ visit' = [visit EXCEPT ![v] = [pc |-> "reserve", c |-> c, ends |-> DefaultExpiry(now)]]
  /\ UNCHANGED <<setup, group, signups, row, now, op, sweep, due, joined, granted>>

Leave(v) == visit' = [visit EXCEPT ![v] = NoVisit]
HasRoom == setup.cap = 0 \/ signups < setup.cap

\* Mutant: the signup is counted, and the count not compared.
ReserveUnchecked(v) ==
  /\ visit[v].pc = "reserve"
  /\ signups' = signups + 1 /\ visit' = [visit EXCEPT ![v].pc = "join"]
  /\ UNCHANGED <<setup, group, row, now, op, sweep, due, joined, granted>>

\* One statement that counts the signup where there is room.
Reserve(v) ==
  /\ visit[v].pc = "reserve"
  /\ IF group.alive /\ HasRoom
     THEN signups' = signups + 1 /\ visit' = [visit EXCEPT ![v].pc = "join"]
     ELSE UNCHANGED signups /\ Leave(v)
  /\ UNCHANGED <<setup, group, row, now, op, sweep, due, joined, granted>>

\* The row is unique for the customer: one who joined meanwhile makes it fail, and the
\* signup that was counted stays counted.
Join(v) ==
  LET c == visit[v].c IN
  /\ visit[v].pc = "join" /\ Leave(v)
  /\ IF Member(c) \/ ~group.alive
     THEN UNCHANGED <<row, joined, granted>>
     ELSE /\ Write(c, Made(row[c], setup.approval, IF setup.approval THEN Never ELSE visit[v].ends))
          /\ joined' = joined + 1
          /\ granted' = IF setup.approval THEN granted \ {c} ELSE granted \cup {c}
  /\ UNCHANGED <<setup, group, signups, now, op, sweep, due>>

-----------------------------------------------------------------------------
(* The operator: assign, revoke, reset_expiry, extend, approve, update     *)

\* Whoever an operator adds is approved by it.
Assign(c) ==
  /\ group.alive
  /\ Write(c, Made(row[c], FALSE, DefaultExpiry(now))) /\ granted' = granted \cup {c}
  /\ UNCHANGED <<setup, group, signups, now, visit, op, sweep, due, joined>>

Revoke(c) ==
  /\ Member(c) /\ Drop({c})
  /\ UNCHANGED <<setup, group, signups, now, visit, op, sweep, due, joined>>

Reset(c) ==
  /\ Member(c)
  /\ Write(c, [row[c] EXCEPT !.ends = DefaultExpiry(now), !.reminded = FALSE])
  /\ UNCHANGED <<setup, group, signups, now, visit, op, sweep, due, joined, granted>>

\* approve() of a pending row, extend() of one that ends: read, and then written.
Ask(c) ==
  /\ op.pc = "idle" /\ Member(c)
  /\ \/ /\ row[c].pending
        /\ op' = [pc |-> "approve", c |-> c, id |-> row[c].id, ends |-> DefaultExpiry(now)]
     \/ /\ row[c].ends # Never
        /\ op' = [pc |-> "extend", c |-> c, id |-> row[c].id,
                  ends |-> Until((IF row[c].ends > now THEN row[c].ends ELSE now) + 1)]
  /\ UNCHANGED <<setup, group, signups, row, now, visit, sweep, due, joined, granted>>

Still(c, id) == Member(c) /\ row[c].id = id

\* Mutant: the update finds the customer's row, not the row that was read.
ApproveWhoever ==
  /\ op.pc = "approve" /\ op' = NoOp
  /\ row' = IF Member(op.c) THEN [row EXCEPT ![op.c].pending = FALSE, ![op.c].ends = op.ends] ELSE row
  /\ granted' = IF Still(op.c, op.id) THEN granted \cup {op.c} ELSE granted
  /\ UNCHANGED <<setup, group, signups, now, visit, sweep, due, joined>>

\* By the id of the row that was read; a row deleted since makes it throw.
Approve ==
  /\ op.pc = "approve" /\ op' = NoOp
  /\ IF Still(op.c, op.id)
     THEN /\ row' = [row EXCEPT ![op.c].pending = FALSE, ![op.c].ends = op.ends]
          /\ granted' = granted \cup {op.c}
     ELSE UNCHANGED <<row, granted>>
  /\ UNCHANGED <<setup, group, signups, now, visit, sweep, due, joined>>

Extend ==
  /\ op.pc = "extend" /\ op' = NoOp
  /\ row' = IF Still(op.c, op.id)
            THEN [row EXCEPT ![op.c].ends = op.ends, ![op.c].reminded = FALSE] ELSE row
  /\ UNCHANGED <<setup, group, signups, now, visit, sweep, due, joined, granted>>

\* update() and remove().
Prolong ==
  /\ group.alive /\ group.ends # Never /\ group' = [group EXCEPT !.ends = Never]
  /\ UNCHANGED <<setup, signups, row, now, visit, op, sweep, due, joined, granted>>

Delete ==
  /\ group.alive /\ group' = [group EXCEPT !.alive = FALSE] /\ Drop(Customers)
  /\ UNCHANGED <<setup, signups, now, visit, op, sweep, due, joined>>

-----------------------------------------------------------------------------
(* runSweep() and runReminders()                                           *)

\* "batch" are the memberships that are announced as revoked in the end.
StartSweep ==
  /\ sweep.pc = "idle"
  /\ sweep' = [pc |-> "group", at |-> now, doomed |-> group.alive /\ Over(group.ends, now),
             batch |-> {c \in Customers : Member(c) /\ (Over(row[c].ends, now) \/ Over(group.ends, now))}]
  /\ UNCHANGED <<setup, group, signups, row, now, visit, op, due, joined, granted>>

\* The group found over is deleted by its id, whatever became of it since.
SweepGroup ==
  /\ sweep.pc = "group"
  /\ IF sweep.doomed /\ group.alive
     THEN group' = [group EXCEPT !.alive = FALSE] /\ Drop(Customers)
     ELSE UNCHANGED <<group, row, granted>>
  /\ sweep' = IF sweep.doomed /\ ~group.alive THEN NoSweep ELSE [sweep EXCEPT !.pc = "members"]
  /\ UNCHANGED <<setup, signups, now, visit, op, due, joined>>

\* Mutant: what was found over is deleted.
SweepBatch ==
  /\ sweep.pc = "members" /\ sweep' = NoSweep /\ Drop(sweep.batch)
  /\ UNCHANGED <<setup, group, signups, now, visit, op, due, joined>>

\* One deleteMany: rows whose end, as it is now, was over when the sweep started.
SweepMembers ==
  /\ sweep.pc = "members" /\ sweep' = NoSweep
  /\ Drop({c \in Customers : Member(c) /\ Over(row[c].ends, sweep.at)})
  /\ UNCHANGED <<setup, group, signups, now, visit, op, due, joined>>

\* Those that end next and were not reminded are read together and stamped in turn.
StartReminders ==
  /\ due = {}
  /\ due' = {<<c, row[c].id>> : c \in {x \in Customers :
               Member(x) /\ ~row[x].pending /\ ~row[x].reminded /\ row[x].ends = now + 1}}
  /\ due' # {}
  /\ UNCHANGED <<setup, group, signups, row, now, visit, op, sweep, joined, granted>>

\* A row deleted since makes the update throw, and the rest is not reminded.
Remind(c, id) ==
  /\ <<c, id>> \in due
  /\ IF Still(c, id)
     THEN Write(c, [row[c] EXCEPT !.reminded = TRUE]) /\ due' = due \ {<<c, id>>}
     ELSE UNCHANGED row /\ due' = {}
  /\ UNCHANGED <<setup, group, signups, now, visit, op, sweep, joined, granted>>

Tick ==
  /\ now < Horizon /\ now' = now + 1
  /\ UNCHANGED <<setup, group, signups, row, visit, op, sweep, due, joined, granted>>

-----------------------------------------------------------------------------
Next ==
  \/ \E v \in Visits : Reserve(v) \/ Join(v) \/ \E c \in Customers : Visit(v, c)
  \/ \E c \in Customers : Assign(c) \/ Revoke(c) \/ Reset(c) \/ Ask(c) \/ \E id \in 0 .. 1 : Remind(c, id)
  \/ Approve \/ Extend \/ Prolong \/ Delete
  \/ StartSweep \/ SweepGroup \/ SweepMembers \/ StartReminders \/ Tick

Spec == Init /\ [][Next]_vars

-----------------------------------------------------------------------------
(* Properties                                                              *)

\* discountFor(): who has the group's discount.
Discounted(c) ==
  Member(c) /\ ~row[c].pending /\ ~Over(row[c].ends, now) /\ Live

\* However registrations overlap, no more customers join through the link than it
\* allows, and each was counted ("the max-signups cap is enforced atomically",
\* milieu.service.ts:291); and nobody has the group's discount whose membership was
\* not let in: by an operator, or by a link that asks for no approval ("no benefits
\* until approved", :296).
SignupsKept ==
  /\ joined <= signups
  /\ setup.cap # 0 => signups <= setup.cap
  /\ \A c \in Customers : Discounted(c) => c \in granted

\* The sweep of memberships takes none that goes on: what an operator extended, or
\* added again, after the sweep had found it over stays.
SweptWereOver ==
  [][\A c \in Customers :
       (sweep.pc = "members" /\ Member(c) /\ row'[c].in = FALSE /\ sweep'.pc = "idle") =>
          Over(row[c].ends, now)]_vars

=============================================================================
