------------------------------- MODULE Backup -------------------------------
(***************************************************************************)
(* What a backup destination promises: it is a register that holds no copy *)
(* or one settled copy of the docket.  A run replaces the copy at most     *)
(* once, at one instant, by a state the docket had while the run was under *)
(* way; a run that succeeds has replaced it; and a run that does not may   *)
(* have.  Copies are the number of rows they hold: the docket only grows.  *)
(***************************************************************************)
EXTENDS Integers

CONSTANTS Runs,
          NoCopy           \* not a number of rows

VARIABLES docket,          \* the rows committed so far
          dest,            \* the copy at the destination, or NoCopy
          began,           \* per run: the docket when the run began
          run              \* per run: where it stands

vars == <<docket, dest, began, run>>

Init == /\ docket = 0 /\ dest = NoCopy
        /\ began = [r \in Runs |-> 0]
        /\ run = [r \in Runs |-> "idle"]

Moves(r, from, to) == run[r] = from /\ run' = [run EXCEPT ![r] = to]

Record == docket' = docket + 1 /\ UNCHANGED <<dest, began, run>>

Begin(r) == /\ Moves(r, "idle", "running")
            /\ began' = [began EXCEPT ![r] = docket]
            /\ UNCHANGED <<docket, dest>>

Install(r) == /\ Moves(r, "running", "installed")
              /\ dest' \in began[r]..docket
              /\ UNCHANGED <<docket, began>>

Succeed(r) == Moves(r, "installed", "done") /\ UNCHANGED <<docket, dest, began>>

Fail(r) == /\ \E from \in {"idle", "running", "installed"} : Moves(r, from, "failed")
           /\ UNCHANGED <<docket, dest, began>>

Next == Record \/ \E r \in Runs : Begin(r) \/ Install(r) \/ Succeed(r) \/ Fail(r)

Spec == Init /\ [][Next]_vars
=============================================================================
