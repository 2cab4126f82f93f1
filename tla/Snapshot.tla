------------------------------ MODULE Snapshot ------------------------------
(***************************************************************************)
(* Store.Snapshot: a consistent copy of the docket, written in a staging   *)
(* directory beside the destination and renamed into place.  Runs to one   *)
(* destination overlap, other processes record meanwhile, any step may     *)
(* fail, and a run may be killed at any of them.                           *)
(*                                                                         *)
(* The docket is append-only, so a state of it is its number of rows.  A   *)
(* copy is [rows, whole, private]: the state it was taken of, whether it   *)
(* is written to the end, and whether its mode is 0600.  The destination   *)
(* is not the docket's own path, and processes die but power stays on.     *)
(***************************************************************************)
EXTENDS Integers

CONSTANTS Runs,            \* invocations of `field-docket snapshot`
          Names,           \* what os.MkdirTemp may generate
          Absent,
          MaxRows          \* bound on the docket

Copies == [rows : Nat, whole : BOOLEAN, private : BOOLEAN]

ASSUME MaxRowsAssumption == MaxRows \in Nat
ASSUME AbsentAssumption  == Absent \notin Copies \cup Names \cup Nat

VARIABLES docket,          \* rows committed
          dest,            \* the file at the destination
          pc,              \* per run: where Snapshot is
          dir,             \* per run: the name of its staging directory
          mode,            \* per name: its directory's mode, or none
          file,            \* per name: snapshot.db in that directory
          began,           \* per run: the docket when it began (history)
          rivals,          \* per run: the runs it overlapped (history)
          erred            \* the runs a system call failed (history)

vars == <<docket, dest, pc, dir, mode, file, began, rivals, erred>>

Staging == {"reserved", "copying", "copied", "secured"}
Active  == Staging \cup {"moved", "erring"}
Ended   == {"done", "failed", "uncleared", "killed"}

Init == /\ docket = 0 /\ dest = Absent
        /\ pc = [r \in Runs |-> "idle"]
        /\ dir = [r \in Runs |-> Absent]
        /\ mode = [n \in Names |-> "none"]
        /\ file = [n \in Names |-> Absent]
        /\ began = [r \in Runs |-> 0]
        /\ rivals = [r \in Runs |-> {}]
        /\ erred = {}

Goto(r, label) == pc' = [pc EXCEPT ![r] = label]

Under == {r \in Runs : pc[r] \in Active}

\* Another process records.
Record == /\ docket < MaxRows /\ docket' = docket + 1
          /\ UNCHANGED <<dest, pc, dir, mode, file, began, rivals, erred>>

-----------------------------------------------------------------------------
(* os.MkdirTemp: a name nobody uses, mode 0700.                              *)

Reserve(r, n, m) ==
  /\ pc[r] = "idle"
  /\ Goto(r, "reserved")
  /\ dir' = [dir EXCEPT ![r] = n]
  /\ mode' = [mode EXCEPT ![n] = m]
  /\ began' = [began EXCEPT ![r] = docket]
  /\ rivals' = [s \in Runs |-> IF s = r THEN Under
                               ELSE IF s \in Under THEN rivals[s] \cup {r}
                               ELSE rivals[s]]
  /\ UNCHANGED <<docket, dest, file, erred>>

\* Mutants: one fixed name for every run; a directory others can enter.
MkdirFixed(r) == Reserve(r, CHOOSE n \in Names : TRUE, "private")
MkdirShared(r) == \E n \in Names : mode[n] = "none" /\ Reserve(r, n, "shared")

MkdirTemp(r) == \E n \in Names : mode[n] = "none" /\ Reserve(r, n, "private")

MkdirFails(r) == /\ pc[r] = "idle"
                 /\ Goto(r, "failed")
                 /\ erred' = erred \cup {r}
                 /\ UNCHANGED <<docket, dest, dir, mode, file, began, rivals>>

-----------------------------------------------------------------------------
(* VACUUM INTO, chmod, rename.  Each returns an error when it does not find  *)
(* what it needs, and the deferred clean-up follows.                         *)

Step(r, from, to, found) == pc[r] = from /\ Goto(r, IF found THEN to ELSE "erring")

Rest == UNCHANGED <<docket, dir, mode, began, rivals, erred>>

\* One read transaction supplies the whole copy.  SQLite creates the file, at a
\* mode the umask decides, and refuses one that exists.
VacuumBegins(r) ==
  LET absent == file[dir[r]] = Absent
  IN /\ Step(r, "reserved", "copying", absent)
     /\ IF absent
        THEN file' = [file EXCEPT ![dir[r]] =
                        [rows |-> docket, whole |-> FALSE, private |-> FALSE]]
        ELSE file' = file
     /\ UNCHANGED dest /\ Rest

Rewrite(r, from, to, copy) ==
  LET present == file[dir[r]] # Absent
  IN /\ Step(r, from, to, present)
     /\ file' = IF present THEN [file EXCEPT ![dir[r]] = copy] ELSE file
     /\ UNCHANGED dest /\ Rest

Copy(r) == file[dir[r]]

\* Mutant: the file is copied as it lies, records notwithstanding.
VacuumTorn(r) == Rewrite(r, "copying", "copied",
                         [rows |-> Copy(r).rows, whole |-> Copy(r).rows = docket,
                          private |-> Copy(r).private])

VacuumEnds(r) == Rewrite(r, "copying", "copied",
                         [rows |-> Copy(r).rows, whole |-> TRUE, private |-> Copy(r).private])

\* Mutant: the mode is left as SQLite set it.
ChmodSkipped(r) == Rewrite(r, "copied", "secured", Copy(r))

Chmod(r) == Rewrite(r, "copied", "secured",
                    [rows |-> Copy(r).rows, whole |-> Copy(r).whole, private |-> TRUE])

\* Mutant: a destination that exists is kept.
RenameNoReplace(r) ==
  /\ Step(r, "secured", "moved", TRUE)
  /\ dest' = IF dest = Absent THEN Copy(r) ELSE dest
  /\ file' = [file EXCEPT ![dir[r]] = Absent]
  /\ Rest

Rename(r) ==
  LET present == Copy(r) # Absent
  IN /\ Step(r, "secured", "moved", present)
     /\ IF present
        THEN dest' = Copy(r) /\ file' = [file EXCEPT ![dir[r]] = Absent]
        ELSE UNCHANGED <<dest, file>>
     /\ Rest

-----------------------------------------------------------------------------
(* The deferred os.RemoveAll, which follows success and failure alike and    *)
(* whose own error is reported too; errors; and the end of a process.        *)

Leave(r) == Goto(r, IF pc[r] = "moved" THEN "done" ELSE "failed")

\* Mutant: only a failure is cleaned up after.
ClearOnFailure(r) ==
  /\ pc[r] \in {"moved", "erring"}
  /\ Leave(r)
  /\ IF pc[r] = "erring"
     THEN /\ mode' = [mode EXCEPT ![dir[r]] = "none"]
          /\ file' = [file EXCEPT ![dir[r]] = Absent]
     ELSE UNCHANGED <<mode, file>>
  /\ UNCHANGED <<docket, dest, dir, began, rivals, erred>>

Clear(r) == /\ pc[r] \in {"moved", "erring"}
            /\ Leave(r)
            /\ mode' = [mode EXCEPT ![dir[r]] = "none"]
            /\ file' = [file EXCEPT ![dir[r]] = Absent]
            /\ UNCHANGED <<docket, dest, dir, began, rivals, erred>>

ClearFails(r) == /\ pc[r] \in {"moved", "erring"}
                 /\ Goto(r, "uncleared")
                 /\ erred' = erred \cup {r}
                 /\ UNCHANGED <<docket, dest, dir, mode, file, began, rivals>>

Fail(r) == /\ pc[r] \in Staging
           /\ Goto(r, "erring")
           /\ erred' = erred \cup {r}
           /\ UNCHANGED <<docket, dest, dir, mode, file, began, rivals>>

Kill(r) == /\ pc[r] \in Active
           /\ Goto(r, "killed")
           /\ UNCHANGED <<docket, dest, dir, mode, file, began, rivals, erred>>

Next == \/ Record
        \/ \E r \in Runs :
             \/ MkdirTemp(r) \/ MkdirFails(r)
             \/ VacuumBegins(r) \/ VacuumEnds(r) \/ Chmod(r) \/ Rename(r)
             \/ Clear(r) \/ ClearFails(r) \/ Fail(r) \/ Kill(r)

Spec == Init /\ [][Next]_vars

-----------------------------------------------------------------------------
TypeOK == /\ docket \in Nat
          /\ dest \in Copies \cup {Absent}
          /\ pc \in [Runs -> {"idle"} \cup Active \cup Ended]
          /\ dir \in [Runs -> Names \cup {Absent}]
          /\ mode \in [Names -> {"none", "private"}]
          /\ file \in [Names -> Copies \cup {Absent}]
          /\ began \in [Runs -> Nat]
          /\ rivals \in [Runs -> SUBSET Runs]
          /\ erred \subseteq Runs

\* Whatever anyone but the owner can reach, or a reader of the destination can
\* open, at any instant, is a finished copy that only the owner can read.
VisibleIsFinished ==
  /\ dest # Absent => dest.whole /\ dest.private
  /\ \A n \in Names : file[n] # Absent /\ ~file[n].private => mode[n] = "private"

\* Overlapping runs do not collide, and what a killed run left behind is in
\* nobody's way: a run fails only when a call of its own is refused by the
\* system.
FailsOnItsOwn == \A r \in Runs : pc[r] \in {"erring", "failed"} => r \in erred

\* A run leaves its staging directory, with a copy of the docket in it, only
\* when it is killed or says that it could not clear it.
Litter == \A n \in Names :
  mode[n] # "none" => \E r \in Runs : dir[r] = n /\ pc[r] \in Active \cup {"uncleared", "killed"}

\* After a run succeeded the destination holds the docket as it was when that
\* run began, or later; but for the copy of a run it overlapped, which may be
\* as old as that one's beginning.
FreshAfterSuccess ==
  \A r \in Runs : pc[r] = "done" =>
    dest # Absent /\ \E s \in {r} \cup rivals[r] : dest.rows >= began[s]

\* What the destination holds as a backup, and how a run stands.
Backed == IF dest = Absent THEN Absent
          ELSE IF dest.whole /\ dest.private THEN dest.rows ELSE -1

Standing(r) == CASE pc[r] \in Staging \cup {"erring"} -> "running"
                 [] pc[r] = "moved" -> "installed"
                 [] pc[r] \in {"uncleared", "killed", "failed"} -> "failed"
                 [] OTHER -> pc[r]

B == INSTANCE Backup WITH NoCopy <- Absent, dest <- Backed,
                          run <- [r \in Runs |-> Standing(r)]

\* The destination is a register of whole docket states, whatever the runs'
\* steps do to the directory beside it.
ImplementsBackup == B!Spec

-----------------------------------------------------------------------------
(* The inductive invariant.                                                  *)

\* A staging directory is one run's own for as long as the run is under way.
Owned == \A r \in Under :
  /\ dir[r] \in Names /\ mode[dir[r]] = "private"
  /\ \A s \in Under : dir[s] = dir[r] => s = r

\* What each place in Snapshot knows of its intermediate.
Staged == \A r \in Runs :
  /\ pc[r] = "reserved" => Copy(r) = Absent
  /\ pc[r] \in {"copying", "copied", "secured"} =>
       /\ Copy(r) # Absent /\ Copy(r).rows \in began[r]..docket
       /\ pc[r] # "copying" => Copy(r).whole
       /\ pc[r] = "secured" => Copy(r).private

Vacant == \A n \in Names : mode[n] = "none" => file[n] = Absent

\* Runs that are under way at once know of one another; one that began after
\* another had ended began with no fewer rows.
Overlap == \A r, s \in Runs :
  /\ began[r] <= docket
  /\ s \in rivals[r] => pc[s] # "idle"
  /\ r \in Under /\ s \in Under /\ r # s => s \in rivals[r]
  /\ pc[r] = "done" /\ s \in Under /\ s \notin rivals[r] => began[s] >= began[r]

Installed == \A r \in Runs : pc[r] = "moved" =>
  dest # Absent /\ \E s \in {r} \cup rivals[r] : dest.rows >= began[s]

IInv == /\ TypeOK /\ VisibleIsFinished /\ FailsOnItsOwn /\ Litter /\ FreshAfterSuccess
        /\ Owned /\ Staged /\ Vacant /\ Overlap /\ Installed
=============================================================================
