-------------------------------- MODULE Open --------------------------------
(***************************************************************************)
(* Opening the store: initialize and migrate, run by several processes at  *)
(* once against a file that may not exist yet.                             *)
(*                                                                         *)
(* Setting up a connection switches the file to WAL mode, which needs an   *)
(* exclusive lock for a moment.  Processes that try at the same time are   *)
(* refused at once, not after the busy timeout: by the one that has the    *)
(* lock, or by one another's shared locks, and then all of them may lose.  *)
(* The schema ladder runs in one BEGIN IMMEDIATE transaction.  "database   *)
(* is locked" sends initialize back to its start after a backoff, a        *)
(* bounded number of times; any other error ends it.  How long a lock is   *)
(* held is not modelled, so a backoff may end before or after the hold.    *)
(*                                                                         *)
(* Processes run different releases: Version[p] is the schemaVersion of    *)
(* the binary p runs.  The ladder's statements are numbered, Stmts for     *)
(* each version.  A process runs once; one that is launched again is       *)
(* another member of Procs.                                                *)
(***************************************************************************)
EXTENDS Integers, Sequences

CONSTANTS Procs,
          Version,         \* the schema version of each process's binary
          Stmts,           \* statements in a step of the ladder
          Attempts,        \* initAttempts
          MaxMishaps,      \* bound on crashes, errors and busy timeouts
          None

ASSUME VersionAssumption  == Version \in [Procs -> Nat \ {0}]
ASSUME StmtsAssumption    == Stmts \in Nat \ {0}
ASSUME AttemptsAssumption == Attempts \in Nat \ {0}
ASSUME MishapsAssumption  == MaxMishaps \in Nat
ASSUME NoneAssumption     == None \notin Procs

VARIABLES pc,              \* per process: where it is
          conn,            \* per process: its write connection is set up
          attempt,         \* per process: the attempt it is at
          tx,              \* per process: the schema as its transaction sees it
          next,            \* per process: the statement it runs next
          journal,         \* the file's journal mode: delete or wal
          lock,            \* the process holding the file's write or exclusive lock
          schemas,         \* the committed schemas, newest last
          synced,          \* how many of them a power cut cannot take
          mishaps,         \* crashes, errors and busy timeouts so far

          (* History, read by the invariants and by no action. *)
          cold,            \* per process: attempts begun on a file not in WAL mode
          timeouts         \* per process: busy timeouts it sat out

file == <<journal, schemas, synced>>
history == <<cold, timeouts>>
vars == <<pc, conn, attempt, tx, next, lock, file, mishaps, history>>

Schema   == schemas[Len(schemas)]
Blank    == [version |-> 0, applied |-> {}]
Top(p)   == Version[p] * Stmts

Holding  == {"flipping", "reading", "applying", "bumped"}
Racing   == {"sharing", "losing"}
Opening  == {"connecting", "waiting", "backoff"} \cup Racing \cup Holding
Ended    == {"open", "newer", "locked", "broken", "failed", "gone"}

Init == /\ pc = [p \in Procs |-> "off"]
        /\ conn = [p \in Procs |-> FALSE]
        /\ attempt = [p \in Procs |-> 0]
        /\ tx = [p \in Procs |-> Blank]
        /\ next = [p \in Procs |-> 1]
        /\ journal = "delete"
        /\ lock = None
        /\ schemas = <<Blank>> /\ synced = 1
        /\ mishaps = 0
        /\ cold = [p \in Procs |-> 0]
        /\ timeouts = [p \in Procs |-> 0]

Goto(p, label) == pc' = [pc EXCEPT ![p] = label]

Release(p) == lock' = IF lock = p THEN None ELSE lock

\* Attempt n begins.
Try(p, n) == /\ Goto(p, "connecting")
             /\ attempt' = [attempt EXCEPT ![p] = n]
             /\ cold' = [cold EXCEPT ![p] = IF journal = "delete" THEN @ + 1 ELSE @]
             /\ UNCHANGED timeouts

-----------------------------------------------------------------------------
(* initialize. *)

\* The file exists from here on: Open creates it empty, or finds it.
Start(p) == /\ pc[p] = "off"
            /\ Try(p, 1)
            /\ UNCHANGED <<conn, tx, next, lock, file, mishaps>>

\* Ping on a connection that is set up, or on a file that is in WAL mode, takes
\* no lock.
Connect(p) == /\ pc[p] = "connecting" /\ (conn[p] \/ journal = "wal")
              /\ Goto(p, "waiting")
              /\ conn' = [conn EXCEPT ![p] = TRUE]
              /\ UNCHANGED <<attempt, tx, next, lock, file, mishaps, history>>

\* Ping on a file in the old mode: the pragma reads the header under a shared
\* lock, finds the mode to be switched, and asks for the exclusive lock.
Share(p) == /\ pc[p] = "connecting" /\ ~conn[p] /\ journal = "delete" /\ lock = None
            /\ Goto(p, "sharing")
            /\ UNCHANGED <<conn, attempt, tx, next, lock, file, mishaps, history>>

Rivals(p) == {q \in Procs \ {p} : pc[q] \in Racing}

Flip(p) == /\ pc[p] = "sharing" /\ lock = None /\ Rivals(p) = {}
           /\ Goto(p, "flipping")
           /\ lock' = p
           /\ UNCHANGED <<conn, attempt, tx, next, file, mishaps, history>>

\* The shared lock of another process is enough to be refused, and one's own is
\* given back only afterwards: of the processes that race, none need win.
Collide(p) == /\ pc[p] = "sharing" /\ Rivals(p) # {}
              /\ Goto(p, "losing")
              /\ UNCHANGED <<conn, attempt, tx, next, lock, file, mishaps, history>>

Flipped(p) == /\ pc[p] = "flipping"
              /\ Goto(p, "waiting")
              /\ conn' = [conn EXCEPT ![p] = TRUE]
              /\ journal' = "wal"
              /\ Release(p)
              /\ UNCHANGED <<attempt, tx, next, schemas, synced, mishaps, history>>

\* Mutant: SQLITE_BUSY ends initialize like any other error.
BusyFatal(p) == Goto(p, "locked")

\* SQLITE_BUSY: go round again unless this was the last attempt.
Busy(p) == Goto(p, IF attempt[p] < Attempts THEN "backoff" ELSE "locked")

FlipRefused(p) ==
  /\ \/ pc[p] = "losing"
     \/ pc[p] = "connecting" /\ ~conn[p] /\ journal = "delete" /\ lock # None
  /\ Busy(p)
  /\ UNCHANGED <<conn, attempt, tx, next, lock, file, mishaps, history>>

\* The backoff is a timer: it ends whatever the lock does.
Retry(p) == /\ pc[p] = "backoff"
            /\ Try(p, attempt[p] + 1)
            /\ UNCHANGED <<conn, tx, next, lock, file, mishaps>>

-----------------------------------------------------------------------------
(* migrate. *)

\* Mutant: a deferred BEGIN, which takes no lock up front.
BeginDeferred(p) == /\ pc[p] = "waiting"
                    /\ Goto(p, "reading")
                    /\ lock' = p
                    /\ UNCHANGED <<conn, attempt, tx, next, file, mishaps, history>>

Begin(p) == /\ pc[p] = "waiting" /\ lock = None
            /\ Goto(p, "reading")
            /\ lock' = p
            /\ UNCHANGED <<conn, attempt, tx, next, file, mishaps, history>>

BeginTimeout(p) == /\ pc[p] = "waiting" /\ lock # None
                   /\ mishaps < MaxMishaps /\ mishaps' = mishaps + 1
                   /\ timeouts' = [timeouts EXCEPT ![p] = @ + 1]
                   /\ Busy(p)
                   /\ UNCHANGED <<conn, attempt, tx, next, lock, file, cold>>

\* Mutants: a newer schema is not refused; the ladder starts at its first step;
\* the refusal leaves the transaction open.
ReadAny(p) == /\ pc[p] = "reading"
              /\ Goto(p, "applying")
              /\ tx' = [tx EXCEPT ![p] = Schema]
              /\ next' = [next EXCEPT ![p] = Schema.version * Stmts + 1]
              /\ UNCHANGED <<conn, attempt, lock, file, mishaps, history>>

ReadFromFirst(p) == /\ pc[p] = "reading" /\ Schema.version <= Version[p]
                    /\ Goto(p, "applying")
                    /\ tx' = [tx EXCEPT ![p] = Schema]
                    /\ next' = [next EXCEPT ![p] = 1]
                    /\ UNCHANGED <<conn, attempt, lock, file, mishaps, history>>

RefuseOpen(p) == /\ pc[p] = "reading" /\ Schema.version > Version[p]
                 /\ Goto(p, "newer")
                 /\ UNCHANGED <<conn, attempt, tx, next, lock, file, mishaps, history>>

\* user_version is this binary's or an older one's: run the steps past it.
ReadVersion(p) == /\ pc[p] = "reading" /\ Schema.version <= Version[p]
                  /\ Goto(p, "applying")
                  /\ tx' = [tx EXCEPT ![p] = Schema]
                  /\ next' = [next EXCEPT ![p] = Schema.version * Stmts + 1]
                  /\ UNCHANGED <<conn, attempt, lock, file, mishaps, history>>

\* The ladder only climbs.
RefuseNewer(p) == /\ pc[p] = "reading" /\ Schema.version > Version[p]
                  /\ Goto(p, "newer")
                  /\ Release(p)
                  /\ UNCHANGED <<conn, attempt, tx, next, file, mishaps, history>>

\* Mutant: each statement commits by itself.
ApplyAutocommit(p) ==
  /\ pc[p] = "applying" /\ next[p] <= Top(p) /\ next[p] \notin tx[p].applied
  /\ tx' = [tx EXCEPT ![p].applied = @ \cup {next[p]}]
  /\ next' = [next EXCEPT ![p] = @ + 1]
  /\ schemas' = Append(schemas, tx'[p])
  /\ UNCHANGED <<pc, conn, attempt, lock, journal, synced, mishaps, history>>

\* CREATE TABLE fails on a table that exists.
Apply(p) ==
  /\ pc[p] = "applying" /\ next[p] <= Top(p)
  /\ IF next[p] \in tx[p].applied
     THEN Goto(p, "broken") /\ Release(p) /\ UNCHANGED <<tx, next>>
     ELSE /\ tx' = [tx EXCEPT ![p].applied = @ \cup {next[p]}]
          /\ next' = [next EXCEPT ![p] = @ + 1]
          /\ UNCHANGED <<pc, lock>>
  /\ UNCHANGED <<conn, attempt, file, mishaps, history>>

SetVersion(p) == /\ pc[p] = "applying" /\ next[p] > Top(p)
                 /\ Goto(p, "bumped")
                 /\ tx' = [tx EXCEPT ![p].version =
                             IF @ < Version[p] THEN Version[p] ELSE @]
                 /\ UNCHANGED <<conn, attempt, next, lock, file, mishaps, history>>

\* A transaction that changed nothing writes nothing.
Commit(p) == /\ pc[p] = "bumped"
             /\ Goto(p, "open")
             /\ schemas' = IF tx[p] = Schema THEN schemas ELSE Append(schemas, tx[p])
             /\ Release(p)
             /\ UNCHANGED <<conn, attempt, tx, next, journal, synced, mishaps, history>>

-----------------------------------------------------------------------------
(* What may go wrong, and the end of a process. *)

\* An I/O error or a cancelled context: the deferred rollback and Close run.
Fail(p) == /\ pc[p] \in Opening
           /\ mishaps < MaxMishaps /\ mishaps' = mishaps + 1
           /\ Goto(p, "failed")
           /\ Release(p)
           /\ UNCHANGED <<conn, attempt, tx, next, file, history>>

\* The process is killed; its locks go with it.
Crash(p) == /\ pc[p] \in Opening
            /\ mishaps < MaxMishaps /\ mishaps' = mishaps + 1
            /\ Goto(p, "gone")
            /\ Release(p)
            /\ UNCHANGED <<conn, attempt, tx, next, file, history>>

\* A process that was serving ends, and may leave the file checkpointed.
Close(p) == /\ pc[p] = "open"
            /\ Goto(p, "gone")
            /\ synced' \in {synced, Len(schemas)}
            /\ UNCHANGED <<conn, attempt, tx, next, lock, journal, schemas,
                           mishaps, history>>

\* Commits that were not flushed go, newest first.
PowerLoss(n) ==
  /\ \E p \in Procs : pc[p] \in Opening \cup {"open"}
  /\ pc' = [p \in Procs |-> IF pc[p] \in Opening \cup {"open"} THEN "gone" ELSE pc[p]]
  /\ schemas' = SubSeq(schemas, 1, n) /\ synced' = n
  /\ lock' = None
  /\ UNCHANGED <<conn, attempt, tx, next, journal, mishaps, history>>

-----------------------------------------------------------------------------
Initialize(p) == \/ Connect(p) \/ Share(p) \/ Flip(p) \/ Collide(p) \/ Flipped(p)
                 \/ FlipRefused(p) \/ Retry(p)
Migrate(p)    == \/ Begin(p) \/ BeginTimeout(p) \/ ReadVersion(p) \/ RefuseNewer(p)
                 \/ Apply(p) \/ SetVersion(p) \/ Commit(p)

Next == \/ \E p \in Procs : \/ Start(p) \/ Initialize(p) \/ Migrate(p)
                            \/ Fail(p) \/ Crash(p) \/ Close(p)
        \/ \E n \in synced..Len(schemas) : PowerLoss(n)

Spec == Init /\ [][Next]_vars

\* A process that has been started runs.  Busy timeouts are not obliged to
\* happen, nor are failures.
FairSpec == /\ Spec
            /\ \A p \in Procs : /\ WF_vars(Initialize(p))
                                /\ WF_vars(Migrate(p))

-----------------------------------------------------------------------------
SchemaType == [version : Nat, applied : SUBSET Nat]

TypeOK ==
  /\ pc \in [Procs -> {"off"} \cup Opening \cup Ended]
  /\ conn \in [Procs -> BOOLEAN]
  /\ attempt \in [Procs -> 0..Attempts]
  /\ tx \in [Procs -> SchemaType]
  /\ next \in [Procs -> Nat \ {0}]
  /\ journal \in {"delete", "wal"}
  /\ lock \in Procs \cup {None}
  /\ schemas \in Seq(SchemaType) /\ synced \in 1..Len(schemas)
  /\ mishaps \in 0..MaxMishaps
  /\ cold \in [Procs -> Nat] /\ timeouts \in [Procs -> Nat]

\* A partially applied migration is never observed: whatever was committed, by
\* whichever binaries, and whatever a power cut left of it, is the whole ladder
\* up to the version it says, and no more.
SchemaWhole ==
  \A i \in DOMAIN schemas : schemas[i].applied = 1..schemas[i].version * Stmts

\* Concurrent first runs do not trip over each other's tables.
NeverBroken == \A p \in Procs : pc[p] # "broken"

\* A process that serves the store can use everything its binary knows of, also
\* after a newer binary migrated the store under it.
ServedSchema ==
  \A p \in Procs : pc[p] = "open" => /\ Schema.version >= Version[p]
                                     /\ 1..Top(p) \subseteq Schema.applied

\* SQLITE_BUSY is returned at once only to those who race on a genuinely new
\* file; every other contention is waited out for the busy timeout.  So a process
\* is turned away from a locked store only after all its attempts, and every one
\* of them that it began on a file in WAL mode cost it a busy timeout.
LockedOutWithCause ==
  \A p \in Procs : pc[p] = "locked" => cold[p] + timeouts[p] >= Attempts

\* A store is opened at exactly the binary's version, never at a newer one.
OpensAtOwnVersion ==
  [][\A p \in Procs : pc[p] # "open" /\ pc'[p] = "open" =>
       schemas'[Len(schemas')].version = Version[p]]_vars

\* The version only climbs, but for what a power cut takes back.
VersionClimbs ==
  [][Len(schemas') >= Len(schemas) =>
       /\ schemas'[Len(schemas')].version >= Schema.version
       /\ \A i \in DOMAIN schemas : schemas'[i] = schemas[i]]_vars

\* Every attempt to open a store ends.
EveryOpenEnds == \A p \in Procs : pc[p] \in Opening ~> pc[p] \in Ended

-----------------------------------------------------------------------------
(* The inductive invariant. *)

LockHeld == \A p \in Procs : lock = p <=> pc[p] \in Holding

Connected == \A p \in Procs :
  /\ conn[p] => journal = "wal"
  /\ pc[p] \in {"waiting", "reading", "applying", "bumped"} => conn[p]

\* Nobody has a lock while processes race for the exclusive one, and the file is
\* still in the old mode.
Race == \A p \in Procs : pc[p] \in Racing => journal = "delete" /\ lock = None

\* What the attempts of a process cost it.  Before the switch to WAL mode every
\* attempt is a cold one; after it only a busy timeout ends one with SQLITE_BUSY.
Patience == \A p \in Procs :
  /\ pc[p] = "off" => cold[p] = 0
  /\ pc[p] \in Opening => attempt[p] - 1 <= cold[p] + timeouts[p]
  /\ pc[p] \in Opening /\ journal = "delete" => attempt[p] = cold[p]
  /\ pc[p] = "backoff" => attempt[p] < Attempts /\ attempt[p] <= cold[p] + timeouts[p]
  /\ pc[p] = "locked" => Attempts <= cold[p] + timeouts[p]

\* What a process that holds the write lock knows of the schema stays true.
Transaction == \A p \in Procs :
  /\ pc[p] \in {"applying", "bumped"} => Schema.version <= Version[p]
  /\ pc[p] = "applying" =>
       /\ tx[p] = [version |-> Schema.version, applied |-> 1..next[p] - 1]
       /\ next[p] \in Schema.version * Stmts + 1..Top(p) + 1
  /\ pc[p] = "bumped" => tx[p] = [version |-> Version[p], applied |-> 1..Top(p)]

IInv == /\ TypeOK /\ LockHeld /\ Connected /\ Race /\ Patience
        /\ SchemaWhole /\ Transaction /\ NeverBroken /\ ServedSchema
-----------------------------------------------------------------------------
(* Store.tla takes the opening of a store for four states of a process and   *)
(* one hold of the write lock.  Its life of processes, with no calls made,   *)
(* is what the detail here implements.                                       *)

Migrating == {"reading", "applying", "bumped"}

StateOf(label) == CASE label = "open" -> "up"
                    [] label \in Migrating -> "migrating"
                    [] label \in Opening \ Migrating -> "opening"
                    [] OTHER -> "down"

\* The lock of a switch to WAL mode keeps no one waiting, and is not shown.
WriteLock == IF \E p \in Procs : lock = p /\ pc[p] \in Migrating THEN lock ELSE None

NoCalls == [c \in {} |-> None]

S == INSTANCE Store WITH Calls <- {}, Observations <- {}, Filters <- {}, Times <- {},
                         Suffixes <- {}, DefaultLimit <- 1,
                         state <- [p \in Procs |-> StateOf(pc[p])],
                         wconn <- [p \in Procs |-> None],
                         lock <- WriteLock,
                         log <- <<>>, synced <- 0, lost <- {},
                         pc <- NoCalls, proc <- NoCalls, ask <- NoCalls, rec <- NoCalls,
                         view <- NoCalls, page <- NoCalls, total <- NoCalls,
                         classes <- NoCalls, known <- NoCalls

\* The steps of opening are steps of Store's processes: one migration at a time
\* holds the write lock from before it reads the version until it is over, and
\* every end of a migration, and of a process, gives the lock back.
ImplementsOpening == S!Spec
=============================================================================
