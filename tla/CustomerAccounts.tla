-------------------------- MODULE CustomerAccounts --------------------------
(***************************************************************************)
(* src/src/counter/customerAuth.ts and src/src/counter/customerEmail.ts:   *)
(* which addresses belong to which customer account.  An account has one   *)
(* primary address, the unique column Customer.email, and up to three      *)
(* identities of kind "email", unique by address, which sign it in once    *)
(* they are verified.  The two are written by separate statements of       *)
(* separate requests, and have to agree, or somebody who proves an address *)
(* is refused for good: the column is taken and nothing resolves to it.    *)
(*                                                                         *)
(* Whoever reads the mail of an address can have a code to sign in or to   *)
(* reset a password at any time, and use it twice at once: those codes are *)
(* not kept.  Sessions, the attempts of a code, social logins as a way in  *)
(* and the guest orders that a proven address claims are left out.         *)
(***************************************************************************)
EXTENDS Integers, FiniteSets

CONSTANTS
  Addresses, Accounts,
  NoOne,       \* no account, or no address: in neither set
  Calls        \* requests that may overlap

VARIABLES
  email,     \* Customer.email: an address, "void" (a placeholder) or NoOne (no such account)
  ident,     \* identities of kind "email": [holder, verified] for each address
  password,  \* has the account a password identity?
  codes,     \* addresses with a code of purpose "email_change" that is not consumed
  call,      \* each request: [pc, x, a]
  orderly    \* history: see Disorder

vars == <<email, ident, password, codes, call, orderly>>

MaxEmails == 3
Idle == [pc |-> "idle", x |-> NoOne, a |-> NoOne]
Free == [holder |-> NoOne, verified |-> FALSE]

TypeOK ==
  /\ email \in [Accounts -> Addresses \cup {"void", NoOne}]
  /\ ident \in [Addresses -> [holder : Accounts \cup {NoOne}, verified : BOOLEAN]]
  /\ password \in [Accounts -> BOOLEAN]
  /\ codes \subseteq Addresses
  /\ call \in [Calls -> [pc : {"idle", "create", "identify", "redeem", "promote", "scalar", "void",
                               "rename", "upsert", "link", "add", "primary", "remove", "unlink"},
                         x : Addresses \cup {NoOne}, a : Accounts \cup {NoOne}]]
  /\ orderly \in BOOLEAN

Init ==
  /\ email = [a \in Accounts |-> NoOne]
  /\ ident = [x \in Addresses |-> Free]
  /\ password = [a \in Accounts |-> FALSE]
  /\ codes = {} /\ call = [c \in Calls |-> Idle] /\ orderly = TRUE

-----------------------------------------------------------------------------
(* Reading the tables                                                      *)

Emails(a) == {x \in Addresses : ident[x].holder = a}
VerifiedEmails(a) == {x \in Emails(a) : ident[x].verified}
Taken(x) == \E a \in Accounts : email[a] = x
InUse(x, a) == ident[x].holder \notin {a, NoOne} \/ \E b \in Accounts \ {a} : email[b] = x

\* resolveCustomerByEmail(): by the verified identity; or by the primary address of
\* an account that has no identities of this kind at all.
Resolves(x) ==
  IF ident[x].verified THEN ident[x].holder
  ELSE IF \E a \in Accounts : email[a] = x /\ Emails(a) = {}
       THEN CHOOSE a \in Accounts : email[a] = x ELSE NoOne

Goto(c, pc, x, a) == call' = [call EXCEPT ![c] = [pc |-> pc, x |-> x, a |-> a]]
Done(c) == call' = [call EXCEPT ![c] = Idle]
At(c, pc) == call[c].pc = pc
Starts(c, pc, x, a) == At(c, "idle") /\ Goto(c, pc, x, a)
Unused == {a \in Accounts : email[a] = NoOne}

\* Two requests that move the addresses of one account at the same time.
Edits == {"scalar", "primary", "remove", "unlink", "rename"}
Clashes(c, a) == \E d \in Calls \ {c} : call[d].a = a /\ call[d].pc \in Edits

-----------------------------------------------------------------------------
(* registerWithPassword(), signInWithOAuth() and other makers of accounts  *)

Register(c, x) ==
  /\ ~InUse(x, NoOne) /\ Starts(c, "create", x, NoOne)
  /\ UNCHANGED <<email, ident, password, codes, orderly>>

CreateCustomer(c) ==
  /\ At(c, "create")
  /\ IF Taken(call[c].x)
     THEN Done(c) /\ UNCHANGED email
     ELSE \E n \in Unused : /\ email' = [email EXCEPT ![n] = call[c].x]
                            /\ Goto(c, "identify", call[c].x, n)
  /\ UNCHANGED <<ident, password, codes, orderly>>

\* The password, and the address as an unverified claim.
Identify(c) ==
  /\ At(c, "identify") /\ Done(c)
  /\ password' = [password EXCEPT ![call[c].a] = TRUE]
  /\ IF ident[call[c].x].holder = NoOne
     THEN ident' = [ident EXCEPT ![call[c].x] = [holder |-> call[c].a, verified |-> FALSE]]
     ELSE UNCHANGED ident
  /\ UNCHANGED <<email, codes, orderly>>

\* A provider vouches for the address, or an order or an import brings it: the
\* account it resolves to, or a new one, which gets no identity of kind "email".
Arrive(x) ==
  /\ Resolves(x) = NoOne /\ ~Taken(x)
  /\ \E n \in Unused : email' = [email EXCEPT ![n] = x]
  /\ UNCHANGED <<ident, password, codes, call, orderly>>

-----------------------------------------------------------------------------
(* resetPasswordWithCode(), verifyCode()                                   *)

\* The account that the address resolves to when the code comes back.
ResetPassword(x) ==
  /\ Resolves(x) # NoOne /\ ~password[Resolves(x)]
  /\ password' = [password EXCEPT ![Resolves(x)] = TRUE]
  /\ UNCHANGED <<email, ident, codes, call, orderly>>

\* The code is found before it is consumed: two requests may redeem one code.
Redeem(c, x) ==
  /\ Starts(c, "redeem", x, NoOne)
  /\ UNCHANGED <<email, ident, password, codes, orderly>>

\* A verified identity signs in.  An unverified one is promoted by a session of its
\* own account; any other prover of the address voids it.  "mine" is that session.
Find(c) ==
  LET x == call[c].x  h == ident[x].holder IN
  /\ At(c, "redeem")
  /\ \/ ident[x].verified /\ Done(c)
     \/ h # NoOne /\ ~ident[x].verified /\ Goto(c, "promote", x, h)    \* mine
     \/ h # NoOne /\ ~ident[x].verified /\ Goto(c, "void", x, h)       \* not mine
     \/ h = NoOne /\ Goto(c, "upsert", x, NoOne)
  /\ UNCHANGED <<email, ident, password, codes, orderly>>

Promote(c) ==
  LET x == call[c].x  h == call[c].a IN
  /\ At(c, "promote")
  /\ IF ident[x].holder # h
     THEN Done(c) /\ UNCHANGED <<ident, orderly>>      \* the row is gone already
     ELSE /\ ident' = [ident EXCEPT ![x] = [holder |-> h, verified |-> TRUE]]
          /\ Goto(c, "scalar", x, h)
          /\ orderly' = (orderly /\ ~Clashes(c, h))
  /\ UNCHANGED <<email, password, codes>>

\* A column that holds a placeholder is to take the address.
ReadScalar(c) ==
  /\ At(c, "scalar")
  /\ IF email[call[c].a] = "void" THEN Goto(c, "primary", call[c].x, call[c].a) ELSE Done(c)
  /\ UNCHANGED <<email, ident, password, codes, orderly>>

Void(c) ==
  LET x == call[c].x  h == call[c].a IN
  /\ At(c, "void")
  /\ IF ident[x].holder # h
     THEN Done(c) /\ UNCHANGED <<ident, orderly>>      \* the row is gone already
     ELSE /\ ident' = [ident EXCEPT ![x] = Free]
          /\ Goto(c, "rename", x, h)
          /\ orderly' = (orderly /\ ~Clashes(c, h))
  /\ UNCHANGED <<email, password, codes>>

\* Mutant: the account keeps the column if it has another verified address (audit C7).
RenameUnlessOther(c) ==
  LET x == call[c].x  h == call[c].a IN
  /\ At(c, "rename") /\ Goto(c, "upsert", x, NoOne)
  /\ email' = IF email[h] = x /\ VerifiedEmails(h) = {} THEN [email EXCEPT ![h] = "void"] ELSE email
  /\ UNCHANGED <<ident, password, codes, orderly>>

\* The column of the voided account is freed, for another of its verified addresses.
\* Where that one is taken, the update throws.
Rename(c) ==
  LET x == call[c].x  h == call[c].a IN
  /\ At(c, "rename")
  /\ \/ email[h] # x /\ Goto(c, "upsert", x, NoOne) /\ UNCHANGED <<email, orderly>>
     \/ /\ email[h] = x /\ VerifiedEmails(h) = {}
        /\ email' = [email EXCEPT ![h] = "void"] /\ Goto(c, "upsert", x, NoOne) /\ UNCHANGED orderly
     \/ \E y \in VerifiedEmails(h) :
          /\ email[h] = x
          /\ IF Taken(y)
             THEN Done(c) /\ UNCHANGED email /\ orderly' = FALSE
             ELSE email' = [email EXCEPT ![h] = y] /\ Goto(c, "upsert", x, NoOne) /\ UNCHANGED orderly
  /\ UNCHANGED <<ident, password, codes>>

\* upsertCustomer(): the account the address resolves to, or a new one, which is
\* refused while another has the address in its column.
Upsert(c) ==
  LET x == call[c].x IN
  /\ At(c, "upsert")
  /\ \/ Resolves(x) # NoOne /\ Goto(c, "link", x, Resolves(x)) /\ UNCHANGED email
     \/ Resolves(x) = NoOne /\ Taken(x) /\ Done(c) /\ UNCHANGED email
     \/ /\ Resolves(x) = NoOne /\ ~Taken(x)
        /\ \E n \in Unused : email' = [email EXCEPT ![n] = x] /\ Goto(c, "link", x, n)
  /\ UNCHANGED <<ident, password, codes, orderly>>

Link(c) ==
  /\ At(c, "link") /\ Done(c)
  /\ ident' = IF ident[call[c].x].holder # NoOne THEN ident
              ELSE [ident EXCEPT ![call[c].x] = [holder |-> call[c].a, verified |-> TRUE]]
  /\ UNCHANGED <<email, password, codes, orderly>>

-----------------------------------------------------------------------------
(* requestEmailChange(), confirmEmailChange(), setPrimaryEmail(),          *)
(* removeEmail() and unlinkIdentity()                                      *)

\* The password is asked for, or where there is none a code to a verified address.
Reproves(a) == password[a] \/ VerifiedEmails(a) # {}

RequestAdd(c, a, x) ==
  /\ Reproves(a)
  /\ ~InUse(x, a) /\ x \notin VerifiedEmails(a)
  /\ x \in Emails(a) \/ Cardinality(Emails(a)) < MaxEmails
  /\ Starts(c, "add", x, a)
  /\ UNCHANGED <<email, ident, password, codes, orderly>>

\* An account whose primary address has no identity loses the fallback with its
\* first one: orderly no more.
Add(c) ==
  LET x == call[c].x  a == call[c].a IN
  /\ At(c, "add") /\ Done(c)
  /\ IF ident[x].holder \notin {NoOne, a}
     THEN UNCHANGED <<ident, codes, orderly>>
     ELSE /\ ident' = [ident EXCEPT ![x] = [holder |-> a, verified |-> @.verified]]
          /\ codes' = codes \cup {x}
          /\ orderly' = (orderly /\ (email[a] \in Emails(a) \cup {x, "void"}))
  /\ UNCHANGED <<email, password>>

Confirm(a, x) ==
  /\ x \in Emails(a) /\ x \in codes
  /\ codes' = codes \ {x}
  /\ ident' = [ident EXCEPT ![x] = [holder |-> a, verified |-> TRUE]]
  /\ UNCHANGED <<email, password, call, orderly>>

\* Each of the three reads before it writes.
Edit(c, a, x, pc) ==
  /\ Starts(c, pc, x, a) /\ orderly' = (orderly /\ ~Clashes(c, a))
  /\ UNCHANGED <<email, ident, password, codes>>

AskPrimary(c, a, x) == x \in VerifiedEmails(a) /\ Edit(c, a, x, "primary")
AskRemove(c, a, x) ==
  email[a] # x /\ Cardinality(Emails(a)) > 1 /\ x \in Emails(a) /\ Edit(c, a, x, "remove")

\* Mutant: the address that backs the column can be unlinked like any other.
AskUnlinkAny(c, a, x) ==
  /\ x \in Emails(a) /\ (password[a] \/ VerifiedEmails(a) \ {x} # {})
  /\ Edit(c, a, x, "remove")

\* Never the last way in, and never the primary address without another to take over.
AskUnlink(c, a, x) ==
  /\ x \in Emails(a) /\ (password[a] \/ VerifiedEmails(a) \ {x} # {})
  /\ email[a] = x => VerifiedEmails(a) \ {x} # {}
  /\ Edit(c, a, x, IF email[a] = x THEN "unlink" ELSE "remove")

\* The column takes the address unless another account has it there: so it is for
\* setPrimaryEmail(), and for verifyCode() after it read a placeholder.
SetPrimary(c) ==
  LET x == call[c].x  a == call[c].a IN
  /\ At(c, "primary") /\ Done(c)
  /\ email' = IF \E b \in Accounts \ {a} : email[b] = x THEN email ELSE [email EXCEPT ![a] = x]
  /\ UNCHANGED <<ident, password, codes, orderly>>

Repoint(c) ==
  LET x == call[c].x  a == call[c].a IN
  /\ At(c, "unlink")
  /\ \E y \in Addresses \ {x} :
       \* the address that was verified when the request read the identities
       /\ VerifiedEmails(a) \ {x} # {} => y \in VerifiedEmails(a)
       /\ IF \E b \in Accounts \ {a} : email[b] = y
          THEN Done(c) /\ UNCHANGED email
          ELSE email' = [email EXCEPT ![a] = y] /\ Goto(c, "remove", x, a)
  /\ UNCHANGED <<ident, password, codes, orderly>>

Remove(c) ==
  LET x == call[c].x  a == call[c].a IN
  /\ At(c, "remove") /\ Done(c)
  /\ ident' = IF ident[x].holder = a THEN [ident EXCEPT ![x] = Free] ELSE ident
  /\ UNCHANGED <<email, password, codes, orderly>>

\* A request dies between two of its statements.  One that dies after it voided an
\* identity leaves the column it was to free.
Crash(c) ==
  /\ call[c].pc # "idle" /\ Done(c)
  /\ orderly' = (orderly /\ call[c].pc # "rename")
  /\ UNCHANGED <<email, ident, password, codes>>

-----------------------------------------------------------------------------
Begin(c) ==
  \E x \in Addresses :
    \/ Register(c, x) \/ Redeem(c, x)
    \/ \E a \in Accounts :
         RequestAdd(c, a, x) \/ AskPrimary(c, a, x) \/ AskRemove(c, a, x) \/ AskUnlink(c, a, x)

Step(c) ==
  \/ CreateCustomer(c) \/ Identify(c)
  \/ Find(c) \/ Promote(c) \/ ReadScalar(c) \/ Void(c) \/ Rename(c) \/ Upsert(c) \/ Link(c)
  \/ Add(c) \/ SetPrimary(c) \/ Repoint(c) \/ Remove(c) \/ Crash(c)

Next ==
  \/ \E c \in Calls : Begin(c) \/ Step(c)
  \/ \E x \in Addresses : Arrive(x) \/ ResetPassword(x) \/ \E a \in Accounts : Confirm(a, x)

Spec == Init /\ [][Next]_vars

-----------------------------------------------------------------------------
(* Properties                                                              *)

\* Whoever proves an address gets in: no account keeps it in its column while
\* signing in by it leads nowhere (audits C5 and C7).  Shown while no request dies
\* between the void and the renaming, no two requests move the addresses of one
\* account at once, and no account without email identities is given its first.
ProofLetsIn ==
  orderly =>
    \A a \in Accounts, x \in Addresses :
      (email[a] = x /\ Emails(a) # {}) =>
        \/ ident[x].holder = a
        \/ \E c \in Calls : At(c, "rename") /\ call[c].x = x

\* "The account keeps its other emails - this adds, it does not replace"
\* (customerAuth.ts:692): an address that signed an account in still does when
\* another is added to it.
AddingKeepsTheOthers ==
  [][\A c \in Calls, x \in Addresses :
       (At(c, "add") /\ Resolves(x) = call[c].a /\ ident' # ident) => Resolves(x)' = call[c].a]_vars

=============================================================================
