------------------------------- MODULE Cache -------------------------------
(***************************************************************************)
(* The shared cache, src/src/lib/cache.ts, and the invalidation that every *)
(* write of a cached model runs, src/src/lib/db.ts.  A namespace has a     *)
(* generation number in Redis that is part of the key of all it holds; a   *)
(* write bumps it, and what was stored under the old number is no longer   *)
(* found and expires.                                                      *)
(*                                                                         *)
(* One namespace and one row in it.  The row is its version: the number of *)
(* writes committed to it.                                                 *)
(***************************************************************************)
EXTENDS Integers

CONSTANTS
  Readers,   \* concurrent calls of cached()
  Writers,   \* concurrent writes
  MaxWrites  \* how often the row is written

VARIABLES
  version,  \* the row in PostgreSQL
  gen,      \* the generation in Redis, 0 when there is none yet
  entry,    \* what is stored under each generation: a version or Missing
  read,     \* the calls of cached()
  write,    \* the writes
  owed,     \* history: by generation, the newest version whose write had invalidated
            \* the namespace when that generation began
  sound     \* history: Redis has answered every look at the generation and every INCR,
            \* every write passed a model, no first reader has put the generation back

vars == <<version, gen, entry, read, write, owed, sound>>

\* Generation "0" is what a generation that could not be read counts as.
Generations == 0 .. MaxWrites + 1
Versions == 0 .. MaxWrites
Missing == -1

Idle == [pc |-> "idle", gen |-> 0, value |-> Missing]
Resting == [pc |-> "idle", version |-> 0]

TypeOK ==
  /\ version \in Versions /\ gen \in Generations
  /\ entry \in [Generations -> Versions \cup {Missing}]
  /\ read \in [Readers -> [pc : {"idle", "seed", "get", "compute", "bare", "set", "done"},
                           gen : Generations, value : Versions \cup {Missing}]]
  /\ write \in [Writers -> [pc : {"idle", "invalidate"}, version : Versions]]
  /\ owed \in [Generations -> Versions]
  /\ sound \in BOOLEAN

Init ==
  /\ version = 0
  /\ gen = 0
  /\ entry = [g \in Generations |-> Missing]
  /\ read = [r \in Readers |-> Idle]
  /\ write = [w \in Writers |-> Resting]
  /\ owed = [g \in Generations |-> 0]
  /\ sound = TRUE

-----------------------------------------------------------------------------
(* cached()                                                                *)

Goto(r, pc) == read' = [read EXCEPT ![r].pc = pc]

\* A reader looks at the generation, and is about to write the first one when it finds
\* none, or computes without the cache, which is switched off; one that gets no answer
\* goes on with generation "0".
Begin(r) ==
  /\ read[r].pc = "idle"
  /\ \/ /\ \E pc \in {IF gen = 0 THEN "seed" ELSE "get", "bare"} :
             read' = [read EXCEPT ![r] = [pc |-> pc, gen |-> gen, value |-> Missing]]
        /\ UNCHANGED sound
     \/ /\ read' = [read EXCEPT ![r] = [pc |-> "get", gen |-> 0, value |-> Missing]]
        /\ sound' = FALSE
  /\ UNCHANGED <<version, gen, entry, write, owed>>

\* The first generation is set, whatever has been set or bumped since it was looked for.
Seed(r) ==
  /\ read[r].pc = "seed"
  /\ gen' = 1
  /\ sound' = (sound /\ gen <= 1)
  /\ owed' = IF gen = 0 THEN [owed EXCEPT ![1] = owed[0]] ELSE owed
  /\ read' = [read EXCEPT ![r].pc = "get", ![r].gen = 1]
  /\ UNCHANGED <<version, entry, write>>

\* A hit is the answer; without an answer of Redis the value is computed and not stored.
Get(r) ==
  LET hit == entry[read[r].gen] IN
  /\ read[r].pc = "get"
  /\ \/ read' = [read EXCEPT ![r].pc = IF hit = Missing THEN "compute" ELSE "done", ![r].value = hit]
     \/ Goto(r, "bare")
  /\ UNCHANGED <<version, gen, entry, write, owed, sound>>

\* compute(): the row as it is.
Compute(r) ==
  /\ read[r].pc \in {"compute", "bare"}
  /\ read' = [read EXCEPT ![r].pc = IF read[r].pc = "bare" THEN "done" ELSE "set", ![r].value = version]
  /\ UNCHANGED <<version, gen, entry, write, owed, sound>>

\* Mutant: the key is built from the generation of the moment.
StoreNow(r) ==
  /\ read[r].pc = "set" /\ Goto(r, "done")
  /\ entry' = [entry EXCEPT ![gen] = read[r].value]
  /\ UNCHANGED <<version, gen, write, owed, sound>>

\* The value is stored under the generation read at the start, or Redis refuses it.
Store(r) ==
  /\ read[r].pc = "set" /\ Goto(r, "done")
  /\ entry' = [entry EXCEPT ![read[r].gen] = read[r].value] \/ entry' = entry
  /\ UNCHANGED <<version, gen, write, owed, sound>>

\* The value is handed back; or the process has died on the way.
Return(r) ==
  /\ read[r].pc # "idle"
  /\ read' = [read EXCEPT ![r] = Idle]
  /\ UNCHANGED <<version, gen, entry, write, owed, sound>>

\* The entry's time to live is over.
Expire(g) ==
  /\ entry[g] # Missing
  /\ entry' = [entry EXCEPT ![g] = Missing]
  /\ UNCHANGED <<version, gen, read, write, owed, sound>>

-----------------------------------------------------------------------------
(* A write                                                                 *)

Later(u, v) == IF u < v THEN v ELSE u

\* A write of a model commits, and the namespace is invalidated afterwards.
Commit(w) ==
  /\ write[w].pc = "idle" /\ version < MaxWrites
  /\ version' = version + 1
  /\ write' = [write EXCEPT ![w] = [pc |-> "invalidate", version |-> version + 1]]
  /\ UNCHANGED <<gen, entry, read, owed, sound>>

\* invalidate(): INCR, from nothing to 1; or no answer, and the write stands (as it does
\* when the process dies before it gets here).
Invalidate(w) ==
  /\ write[w].pc = "invalidate"
  /\ write' = [write EXCEPT ![w] = Resting]
  /\ \/ /\ gen <= MaxWrites
        /\ gen' = gen + 1
        /\ owed' = [owed EXCEPT ![gen + 1] = Later(owed[gen], write[w].version)]
        /\ UNCHANGED sound
     \/ sound' = FALSE /\ UNCHANGED <<gen, owed>>
  /\ UNCHANGED <<version, entry, read>>

\* Raw SQL, as that of the stock of orders, passes no model and invalidates nothing.
WriteRaw(w) ==
  /\ write[w].pc = "idle" /\ version < MaxWrites
  /\ version' = version + 1
  /\ sound' = FALSE
  /\ UNCHANGED <<gen, entry, read, write, owed>>

-----------------------------------------------------------------------------
Next ==
  \/ \E r \in Readers : Begin(r) \/ Seed(r) \/ Get(r) \/ Compute(r) \/ Store(r) \/ Return(r)
  \/ \E g \in Generations : Expire(g)
  \/ \E w \in Writers : Commit(w) \/ Invalidate(w) \/ WriteRaw(w)

Spec == Init /\ [][Next]_vars

-----------------------------------------------------------------------------
(* Properties                                                              *)

\* A read that starts after a write has invalidated the namespace never gets an older
\* value, however many reads and writes are on their way and whatever they store late
\* ("must not race its own invalidation and hand itself back the value it just
\* replaced", db.ts:57), as long as the generation is read and bumped and never put back (sound).
FreshAfterWrite ==
  \A r \in Readers :
    (sound /\ read[r].pc = "done") => read[r].value >= owed[read[r].gen]

=============================================================================
