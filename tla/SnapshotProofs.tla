--------------------------- MODULE SnapshotProofs ---------------------------
(***************************************************************************)
(* Proofs about Snapshot, for any number of runs and of names, and any     *)
(* docket.                                                                 *)
(***************************************************************************)
EXTENDS Snapshot, TLAPS

\* Type correctness; a name in use is a name.
LEMMA TypesKept ==
  ASSUME IInv, [Next]_vars
  PROVE  TypeOK'
<1> USE DEF Goto, Under, Active, Staging, Ended, Copy, Copies, TypeOK, Owned, Staged
<1>0. TypeOK /\ Owned /\ Staged /\ Absent \notin Copies \cup Names \cup Nat
  BY AbsentAssumption DEF IInv
<1>1. CASE UNCHANGED vars
  BY <1>0, <1>1 DEF vars
<1>2. CASE Record
  BY <1>0, <1>2 DEF Record
<1>3. ASSUME NEW r \in Runs, MkdirTemp(r) PROVE TypeOK'
  BY <1>0, <1>3 DEF MkdirTemp, Reserve
<1>4. ASSUME NEW r \in Runs, MkdirFails(r) PROVE TypeOK'
  BY <1>0, <1>4 DEF MkdirFails
<1>5. ASSUME NEW r \in Runs, VacuumBegins(r) PROVE TypeOK'
  <2> DEFINE begun == [rows |-> docket, whole |-> FALSE, private |-> FALSE]
  <2>1. begun \in Copies /\ (file' = file \/ file' = [file EXCEPT ![dir[r]] = begun])
    BY <1>0, <1>5 DEF VacuumBegins
  <2>2. file' \in [Names -> Copies \cup {Absent}]
    BY <1>0, <2>1
  <2> QED BY <1>0, <1>5, <2>2 DEF VacuumBegins, Step, Rest
<1>6. ASSUME NEW r \in Runs, VacuumEnds(r) PROVE TypeOK'
  BY <1>0, <1>6 DEF VacuumEnds, Rewrite, Step, Rest
<1>7. ASSUME NEW r \in Runs, Chmod(r) PROVE TypeOK'
  BY <1>0, <1>7 DEF Chmod, Rewrite, Step, Rest
<1>8. ASSUME NEW r \in Runs, Rename(r) PROVE TypeOK'
  BY <1>0, <1>8 DEF Rename, Step, Rest
<1>9. ASSUME NEW r \in Runs, Clear(r) PROVE TypeOK'
  BY <1>0, <1>9 DEF Clear, Leave
<1>10. ASSUME NEW r \in Runs, ClearFails(r) PROVE TypeOK'
  BY <1>0, <1>10 DEF ClearFails
<1>11. ASSUME NEW r \in Runs, Fail(r) PROVE TypeOK'
  BY <1>0, <1>11 DEF Fail
<1>12. ASSUME NEW r \in Runs, Kill(r) PROVE TypeOK'
  BY <1>0, <1>12 DEF Kill
<1> QED BY <1>1, <1>2, <1>3, <1>4, <1>5, <1>6, <1>7, <1>8, <1>9, <1>10, <1>11, <1>12 DEF Next

\* A generated name is nobody's, so a run's directory stays its own.
LEMMA OwnershipKept ==
  ASSUME IInv, [Next]_vars
  PROVE  Owned'
<1> USE DEF Goto, Under, Active, Staging, Ended, Copy, Copies, Owned, TypeOK
<1>0. TypeOK /\ Owned /\ Absent \notin Copies \cup Names \cup Nat
  BY AbsentAssumption DEF IInv
<1>1. CASE UNCHANGED vars
  BY <1>0, <1>1 DEF vars
<1>2. CASE Record
  BY <1>0, <1>2 DEF Record
<1>3. ASSUME NEW r \in Runs, MkdirTemp(r) PROVE Owned'
  BY <1>0, <1>3 DEF MkdirTemp, Reserve
<1>4. ASSUME NEW r \in Runs, MkdirFails(r) PROVE Owned'
  BY <1>0, <1>4 DEF MkdirFails
<1>5. ASSUME NEW r \in Runs, VacuumBegins(r) PROVE Owned'
  BY <1>0, <1>5 DEF VacuumBegins, Step, Rest
<1>6. ASSUME NEW r \in Runs, VacuumEnds(r) PROVE Owned'
  BY <1>0, <1>6 DEF VacuumEnds, Rewrite, Step, Rest
<1>7. ASSUME NEW r \in Runs, Chmod(r) PROVE Owned'
  BY <1>0, <1>7 DEF Chmod, Rewrite, Step, Rest
<1>8. ASSUME NEW r \in Runs, Rename(r) PROVE Owned'
  BY <1>0, <1>8 DEF Rename, Step, Rest
<1>9. ASSUME NEW r \in Runs, Clear(r) PROVE Owned'
  BY <1>0, <1>9 DEF Clear, Leave
<1>10. ASSUME NEW r \in Runs, ClearFails(r) PROVE Owned'
  BY <1>0, <1>10 DEF ClearFails
<1>11. ASSUME NEW r \in Runs, Fail(r) PROVE Owned'
  BY <1>0, <1>11 DEF Fail
<1>12. ASSUME NEW r \in Runs, Kill(r) PROVE Owned'
  BY <1>0, <1>12 DEF Kill
<1> QED BY <1>1, <1>2, <1>3, <1>4, <1>5, <1>6, <1>7, <1>8, <1>9, <1>10, <1>11, <1>12 DEF Next

\* What a run knows of its intermediate nobody else changes.
LEMMA StagedKept ==
  ASSUME IInv, [Next]_vars
  PROVE  Staged'
<1> USE DEF Goto, Under, Active, Staging, Ended, Copy, Copies, Staged, Owned, Vacant, TypeOK
<1>0. TypeOK /\ Staged /\ Owned /\ Vacant /\ Overlap /\ Absent \notin Copies \cup Names \cup Nat
  BY AbsentAssumption DEF IInv
<1>1. CASE UNCHANGED vars
  BY <1>0, <1>1 DEF vars
<1>2. CASE Record
  BY <1>0, <1>2 DEF Record
<1>3. ASSUME NEW r \in Runs, MkdirTemp(r) PROVE Staged'
  BY <1>0, <1>3 DEF MkdirTemp, Reserve
<1>4. ASSUME NEW r \in Runs, MkdirFails(r) PROVE Staged'
  BY <1>0, <1>4 DEF MkdirFails
<1>5. ASSUME NEW r \in Runs, VacuumBegins(r) PROVE Staged'
  <2> DEFINE begun == [rows |-> docket, whole |-> FALSE, private |-> FALSE]
  <2>1. /\ pc[r] = "reserved" /\ file[dir[r]] = Absent /\ dir[r] \in Names
        /\ pc' = [pc EXCEPT ![r] = "copying"]
        /\ file' = [file EXCEPT ![dir[r]] = begun]
    BY <1>0, <1>5 DEF VacuumBegins, Step
  <2>2. file'[dir[r]] = begun /\ begun \in Copies /\ begun.rows = docket
    BY <1>0, <2>1
  <2>3. UNCHANGED <<docket, dir, began>>
    BY <1>5 DEF VacuumBegins, Rest
  <2>4. began[r] <= docket
    BY <1>0 DEF Overlap
  <2>5. ASSUME NEW q \in Runs, q # r, q \in Under PROVE file'[dir[q]] = file[dir[q]]
    BY <1>0, <2>1, <2>5
  <2>6. /\ pc'[r] = "copying" /\ Copy(r)' = begun /\ begun # Absent
        /\ begun.rows \in began'[r]..docket'
    <3>1. pc'[r] = "copying" /\ Copy(r)' = begun /\ begun # Absent
      BY <1>0, <2>1, <2>2, <2>3
    <3>2. began[r] \in Nat /\ docket \in Nat /\ began'[r] = began[r] /\ docket' = docket
      BY <1>0, <2>3
    <3>3. docket \in began[r]..docket
      BY <2>4, <3>2
    <3> QED BY <2>2, <3>1, <3>2, <3>3
  <2>7. ASSUME NEW q \in Runs, q # r
        PROVE  pc'[q] = pc[q] /\ (q \in Under => Copy(q)' = Copy(q))
    BY <1>0, <2>1, <2>3, <2>5, <2>7
  <2> QED BY <1>0, <2>3, <2>6, <2>7
<1>6. ASSUME NEW r \in Runs, VacuumEnds(r) PROVE Staged'
  <2> DEFINE next == [rows |-> Copy(r).rows, whole |-> TRUE, private |-> Copy(r).private]
  <2>1. /\ pc[r] = "copying" /\ file[dir[r]] # Absent /\ dir[r] \in Names
        /\ pc' = [pc EXCEPT ![r] = "copied"]
        /\ file' = [file EXCEPT ![dir[r]] = next]
    BY <1>0, <1>6 DEF VacuumEnds, Rewrite, Step
  <2>2. file[dir[r]] \in Copies /\ next \in Copies
    BY <1>0, <2>1
  <2>3. file'[dir[r]] = next /\ next # Absent
    BY <1>0, <2>1, <2>2
  <2>4. UNCHANGED <<docket, dir, began>>
    BY <1>6 DEF VacuumEnds, Rewrite, Rest
  <2>5. ASSUME NEW q \in Runs, q # r, q \in Under PROVE file'[dir[q]] = file[dir[q]]
    BY <1>0, <2>1, <2>5
  <2> QED BY <1>0, <2>1, <2>3, <2>4, <2>5
<1>7. ASSUME NEW r \in Runs, Chmod(r) PROVE Staged'
  <2> DEFINE next == [rows |-> Copy(r).rows, whole |-> Copy(r).whole, private |-> TRUE]
  <2>1. /\ pc[r] = "copied" /\ file[dir[r]] # Absent /\ dir[r] \in Names
        /\ pc' = [pc EXCEPT ![r] = "secured"]
        /\ file' = [file EXCEPT ![dir[r]] = next]
    BY <1>0, <1>7 DEF Chmod, Rewrite, Step
  <2>2. file[dir[r]] \in Copies /\ next \in Copies
    BY <1>0, <2>1
  <2>3. file'[dir[r]] = next /\ next # Absent
    BY <1>0, <2>1, <2>2
  <2>4. UNCHANGED <<docket, dir, began>>
    BY <1>7 DEF Chmod, Rewrite, Rest
  <2>5. ASSUME NEW q \in Runs, q # r, q \in Under PROVE file'[dir[q]] = file[dir[q]]
    BY <1>0, <2>1, <2>5
  <2> QED BY <1>0, <2>1, <2>3, <2>4, <2>5
<1>8. ASSUME NEW r \in Runs, Rename(r) PROVE Staged'
  BY <1>0, <1>8 DEF Rename, Step, Rest
<1>9. ASSUME NEW r \in Runs, Clear(r) PROVE Staged'
  BY <1>0, <1>9 DEF Clear, Leave
<1>10. ASSUME NEW r \in Runs, ClearFails(r) PROVE Staged'
  BY <1>0, <1>10 DEF ClearFails
<1>11. ASSUME NEW r \in Runs, Fail(r) PROVE Staged'
  BY <1>0, <1>11 DEF Fail
<1>12. ASSUME NEW r \in Runs, Kill(r) PROVE Staged'
  BY <1>0, <1>12 DEF Kill
<1> QED BY <1>1, <1>2, <1>3, <1>4, <1>5, <1>6, <1>7, <1>8, <1>9, <1>10, <1>11, <1>12 DEF Next

\* A name in nobody's use has no file.
LEMMA VacancyKept ==
  ASSUME IInv, [Next]_vars
  PROVE  Vacant'
<1> USE DEF Goto, Under, Active, Staging, Ended, Copy, Copies, Vacant, Owned, TypeOK
<1>0. TypeOK /\ Vacant /\ Owned /\ Absent \notin Copies \cup Names \cup Nat
  BY AbsentAssumption DEF IInv
<1>1. CASE UNCHANGED vars
  BY <1>0, <1>1 DEF vars
<1>2. CASE Record
  BY <1>0, <1>2 DEF Record
<1>3. ASSUME NEW r \in Runs, MkdirTemp(r) PROVE Vacant'
  BY <1>0, <1>3 DEF MkdirTemp, Reserve
<1>4. ASSUME NEW r \in Runs, MkdirFails(r) PROVE Vacant'
  BY <1>0, <1>4 DEF MkdirFails
<1>5. ASSUME NEW r \in Runs, VacuumBegins(r) PROVE Vacant'
  BY <1>0, <1>5 DEF VacuumBegins, Step, Rest
<1>6. ASSUME NEW r \in Runs, VacuumEnds(r) PROVE Vacant'
  BY <1>0, <1>6 DEF VacuumEnds, Rewrite, Step, Rest
<1>7. ASSUME NEW r \in Runs, Chmod(r) PROVE Vacant'
  BY <1>0, <1>7 DEF Chmod, Rewrite, Step, Rest
<1>8. ASSUME NEW r \in Runs, Rename(r) PROVE Vacant'
  BY <1>0, <1>8 DEF Rename, Step, Rest
<1>9. ASSUME NEW r \in Runs, Clear(r) PROVE Vacant'
  BY <1>0, <1>9 DEF Clear, Leave
<1>10. ASSUME NEW r \in Runs, ClearFails(r) PROVE Vacant'
  BY <1>0, <1>10 DEF ClearFails
<1>11. ASSUME NEW r \in Runs, Fail(r) PROVE Vacant'
  BY <1>0, <1>11 DEF Fail
<1>12. ASSUME NEW r \in Runs, Kill(r) PROVE Vacant'
  BY <1>0, <1>12 DEF Kill
<1> QED BY <1>1, <1>2, <1>3, <1>4, <1>5, <1>6, <1>7, <1>8, <1>9, <1>10, <1>11, <1>12 DEF Next

\* Runs under way at once know of one another.
LEMMA OverlapKept ==
  ASSUME IInv, [Next]_vars
  PROVE  Overlap'
<1> USE DEF Goto, Under, Active, Staging, Ended, Copy, Copies, Overlap, TypeOK
<1>0. TypeOK /\ Overlap /\ Absent \notin Copies \cup Names \cup Nat
  BY AbsentAssumption DEF IInv
<1>1. CASE UNCHANGED vars
  BY <1>0, <1>1 DEF vars
<1>2. CASE Record
  BY <1>0, <1>2 DEF Record
<1>3. ASSUME NEW r \in Runs, MkdirTemp(r) PROVE Overlap'
  BY <1>0, <1>3 DEF MkdirTemp, Reserve
<1>4. ASSUME NEW r \in Runs, MkdirFails(r) PROVE Overlap'
  BY <1>0, <1>4 DEF MkdirFails
<1>5. ASSUME NEW r \in Runs, VacuumBegins(r) PROVE Overlap'
  BY <1>0, <1>5 DEF VacuumBegins, Step, Rest
<1>6. ASSUME NEW r \in Runs, VacuumEnds(r) PROVE Overlap'
  BY <1>0, <1>6 DEF VacuumEnds, Rewrite, Step, Rest
<1>7. ASSUME NEW r \in Runs, Chmod(r) PROVE Overlap'
  BY <1>0, <1>7 DEF Chmod, Rewrite, Step, Rest
<1>8. ASSUME NEW r \in Runs, Rename(r) PROVE Overlap'
  BY <1>0, <1>8 DEF Rename, Step, Rest
<1>9. ASSUME NEW r \in Runs, Clear(r) PROVE Overlap'
  BY <1>0, <1>9 DEF Clear, Leave
<1>10. ASSUME NEW r \in Runs, ClearFails(r) PROVE Overlap'
  BY <1>0, <1>10 DEF ClearFails
<1>11. ASSUME NEW r \in Runs, Fail(r) PROVE Overlap'
  BY <1>0, <1>11 DEF Fail
<1>12. ASSUME NEW r \in Runs, Kill(r) PROVE Overlap'
  BY <1>0, <1>12 DEF Kill
<1> QED BY <1>1, <1>2, <1>3, <1>4, <1>5, <1>6, <1>7, <1>8, <1>9, <1>10, <1>11, <1>12 DEF Next

\* A file others can reach is finished and private.
LEMMA VisibleKept ==
  ASSUME IInv, [Next]_vars
  PROVE  VisibleIsFinished'
<1> USE DEF Goto, Under, Active, Staging, Ended, Copy, Copies, VisibleIsFinished, Owned, Staged, TypeOK
<1>0. TypeOK /\ VisibleIsFinished /\ Owned /\ Staged /\ Absent \notin Copies \cup Names \cup Nat
  BY AbsentAssumption DEF IInv
<1>1. CASE UNCHANGED vars
  BY <1>0, <1>1 DEF vars
<1>2. CASE Record
  BY <1>0, <1>2 DEF Record
<1>3. ASSUME NEW r \in Runs, MkdirTemp(r) PROVE VisibleIsFinished'
  BY <1>0, <1>3 DEF MkdirTemp, Reserve
<1>4. ASSUME NEW r \in Runs, MkdirFails(r) PROVE VisibleIsFinished'
  BY <1>0, <1>4 DEF MkdirFails
<1>5. ASSUME NEW r \in Runs, VacuumBegins(r) PROVE VisibleIsFinished'
  BY <1>0, <1>5 DEF VacuumBegins, Step, Rest
<1>6. ASSUME NEW r \in Runs, VacuumEnds(r) PROVE VisibleIsFinished'
  BY <1>0, <1>6 DEF VacuumEnds, Rewrite, Step, Rest
<1>7. ASSUME NEW r \in Runs, Chmod(r) PROVE VisibleIsFinished'
  BY <1>0, <1>7 DEF Chmod, Rewrite, Step, Rest
<1>8. ASSUME NEW r \in Runs, Rename(r) PROVE VisibleIsFinished'
  BY <1>0, <1>8 DEF Rename, Step, Rest
<1>9. ASSUME NEW r \in Runs, Clear(r) PROVE VisibleIsFinished'
  BY <1>0, <1>9 DEF Clear, Leave
<1>10. ASSUME NEW r \in Runs, ClearFails(r) PROVE VisibleIsFinished'
  BY <1>0, <1>10 DEF ClearFails
<1>11. ASSUME NEW r \in Runs, Fail(r) PROVE VisibleIsFinished'
  BY <1>0, <1>11 DEF Fail
<1>12. ASSUME NEW r \in Runs, Kill(r) PROVE VisibleIsFinished'
  BY <1>0, <1>12 DEF Kill
<1> QED BY <1>1, <1>2, <1>3, <1>4, <1>5, <1>6, <1>7, <1>8, <1>9, <1>10, <1>11, <1>12 DEF Next

\* Every call finds what it needs.
LEMMA OwnErrorsOnly ==
  ASSUME IInv, [Next]_vars
  PROVE  FailsOnItsOwn'
<1> USE DEF Goto, Under, Active, Staging, Ended, Copy, Copies, FailsOnItsOwn, Staged, TypeOK
<1>0. TypeOK /\ FailsOnItsOwn /\ Staged /\ Absent \notin Copies \cup Names \cup Nat
  BY AbsentAssumption DEF IInv
<1>1. CASE UNCHANGED vars
  BY <1>0, <1>1 DEF vars
<1>2. CASE Record
  BY <1>0, <1>2 DEF Record
<1>3. ASSUME NEW r \in Runs, MkdirTemp(r) PROVE FailsOnItsOwn'
  BY <1>0, <1>3 DEF MkdirTemp, Reserve
<1>4. ASSUME NEW r \in Runs, MkdirFails(r) PROVE FailsOnItsOwn'
  BY <1>0, <1>4 DEF MkdirFails
<1>5. ASSUME NEW r \in Runs, VacuumBegins(r) PROVE FailsOnItsOwn'
  BY <1>0, <1>5 DEF VacuumBegins, Step, Rest
<1>6. ASSUME NEW r \in Runs, VacuumEnds(r) PROVE FailsOnItsOwn'
  BY <1>0, <1>6 DEF VacuumEnds, Rewrite, Step, Rest
<1>7. ASSUME NEW r \in Runs, Chmod(r) PROVE FailsOnItsOwn'
  BY <1>0, <1>7 DEF Chmod, Rewrite, Step, Rest
<1>8. ASSUME NEW r \in Runs, Rename(r) PROVE FailsOnItsOwn'
  BY <1>0, <1>8 DEF Rename, Step, Rest
<1>9. ASSUME NEW r \in Runs, Clear(r) PROVE FailsOnItsOwn'
  BY <1>0, <1>9 DEF Clear, Leave
<1>10. ASSUME NEW r \in Runs, ClearFails(r) PROVE FailsOnItsOwn'
  BY <1>0, <1>10 DEF ClearFails
<1>11. ASSUME NEW r \in Runs, Fail(r) PROVE FailsOnItsOwn'
  BY <1>0, <1>11 DEF Fail
<1>12. ASSUME NEW r \in Runs, Kill(r) PROVE FailsOnItsOwn'
  BY <1>0, <1>12 DEF Kill
<1> QED BY <1>1, <1>2, <1>3, <1>4, <1>5, <1>6, <1>7, <1>8, <1>9, <1>10, <1>11, <1>12 DEF Next

\* A directory in use belongs to a run that is under way, killed or unable to clear it.
LEMMA LitterKept ==
  ASSUME IInv, [Next]_vars
  PROVE  Litter'
<1> USE DEF Goto, Under, Active, Staging, Ended, Copy, Copies, Litter, Owned, TypeOK
<1>0. TypeOK /\ Litter /\ Owned /\ Absent \notin Copies \cup Names \cup Nat
  BY AbsentAssumption DEF IInv
<1>1. CASE UNCHANGED vars
  BY <1>0, <1>1 DEF vars
<1>2. CASE Record
  BY <1>0, <1>2 DEF Record
<1>3. ASSUME NEW r \in Runs, MkdirTemp(r) PROVE Litter'
  BY <1>0, <1>3 DEF MkdirTemp, Reserve
<1>4. ASSUME NEW r \in Runs, MkdirFails(r) PROVE Litter'
  BY <1>0, <1>4 DEF MkdirFails
<1>5. ASSUME NEW r \in Runs, VacuumBegins(r) PROVE Litter'
  BY <1>0, <1>5 DEF VacuumBegins, Step, Rest
<1>6. ASSUME NEW r \in Runs, VacuumEnds(r) PROVE Litter'
  BY <1>0, <1>6 DEF VacuumEnds, Rewrite, Step, Rest
<1>7. ASSUME NEW r \in Runs, Chmod(r) PROVE Litter'
  BY <1>0, <1>7 DEF Chmod, Rewrite, Step, Rest
<1>8. ASSUME NEW r \in Runs, Rename(r) PROVE Litter'
  BY <1>0, <1>8 DEF Rename, Step, Rest
<1>9. ASSUME NEW r \in Runs, Clear(r) PROVE Litter'
  BY <1>0, <1>9 DEF Clear, Leave
<1>10. ASSUME NEW r \in Runs, ClearFails(r) PROVE Litter'
  BY <1>0, <1>10 DEF ClearFails
<1>11. ASSUME NEW r \in Runs, Fail(r) PROVE Litter'
  BY <1>0, <1>11 DEF Fail
<1>12. ASSUME NEW r \in Runs, Kill(r) PROVE Litter'
  BY <1>0, <1>12 DEF Kill
<1> QED BY <1>1, <1>2, <1>3, <1>4, <1>5, <1>6, <1>7, <1>8, <1>9, <1>10, <1>11, <1>12 DEF Next

\* A run that has renamed its copy finds it, or a rival's, at the destination.
LEMMA InstalledKept ==
  ASSUME IInv, [Next]_vars
  PROVE  Installed'
<1> USE DEF Goto, Under, Active, Staging, Ended, Copy, Copies, Installed, Staged, Overlap, TypeOK
<1>0. TypeOK /\ Installed /\ Staged /\ Overlap /\ Absent \notin Copies \cup Names \cup Nat
  BY AbsentAssumption DEF IInv
<1>1. CASE UNCHANGED vars
  BY <1>0, <1>1 DEF vars
<1>2. CASE Record
  BY <1>0, <1>2 DEF Record
<1>3. ASSUME NEW r \in Runs, MkdirTemp(r) PROVE Installed'
  <2>1. /\ pc[r] = "idle" /\ pc'[r] = "reserved" /\ dest' = dest
        /\ \A q \in Runs \ {r} : /\ pc'[q] = pc[q] /\ began'[q] = began[q]
                                /\ rivals[q] \subseteq rivals'[q]
    BY <1>0, <1>3 DEF MkdirTemp, Reserve
  <2>2. ASSUME NEW q \in Runs \ {r} PROVE r \notin rivals[q]
    BY <1>0, <2>1 DEF Overlap
  <2> QED BY <1>0, <2>1, <2>2
<1>4. ASSUME NEW r \in Runs, MkdirFails(r) PROVE Installed'
  BY <1>0, <1>4 DEF MkdirFails
<1>5. ASSUME NEW r \in Runs, VacuumBegins(r) PROVE Installed'
  BY <1>0, <1>5 DEF VacuumBegins, Step, Rest
<1>6. ASSUME NEW r \in Runs, VacuumEnds(r) PROVE Installed'
  BY <1>0, <1>6 DEF VacuumEnds, Rewrite, Step, Rest
<1>7. ASSUME NEW r \in Runs, Chmod(r) PROVE Installed'
  BY <1>0, <1>7 DEF Chmod, Rewrite, Step, Rest
<1>8. ASSUME NEW r \in Runs, Rename(r) PROVE Installed'
  BY <1>0, <1>8 DEF Rename, Step, Rest
<1>9. ASSUME NEW r \in Runs, Clear(r) PROVE Installed'
  BY <1>0, <1>9 DEF Clear, Leave
<1>10. ASSUME NEW r \in Runs, ClearFails(r) PROVE Installed'
  BY <1>0, <1>10 DEF ClearFails
<1>11. ASSUME NEW r \in Runs, Fail(r) PROVE Installed'
  BY <1>0, <1>11 DEF Fail
<1>12. ASSUME NEW r \in Runs, Kill(r) PROVE Installed'
  BY <1>0, <1>12 DEF Kill
<1> QED BY <1>1, <1>2, <1>3, <1>4, <1>5, <1>6, <1>7, <1>8, <1>9, <1>10, <1>11, <1>12 DEF Next

LEMMA FreshKept ==
  ASSUME IInv, [Next]_vars
  PROVE  FreshAfterSuccess'
<1> USE DEF Goto, Under, Active, Staging, Ended, Copy, Copies, FreshAfterSuccess, Installed, Staged, Overlap, TypeOK
<1>0. TypeOK /\ FreshAfterSuccess /\ Installed /\ Staged /\ Overlap /\ Absent \notin Copies \cup Names \cup Nat
  BY AbsentAssumption DEF IInv
<1>1. CASE UNCHANGED vars
  BY <1>0, <1>1 DEF vars
<1>2. CASE Record
  BY <1>0, <1>2 DEF Record
<1>3. ASSUME NEW r \in Runs, MkdirTemp(r) PROVE FreshAfterSuccess'
  <2>1. /\ pc[r] = "idle" /\ pc'[r] = "reserved" /\ dest' = dest
        /\ \A q \in Runs \ {r} : /\ pc'[q] = pc[q] /\ began'[q] = began[q]
                                /\ rivals[q] \subseteq rivals'[q]
    BY <1>0, <1>3 DEF MkdirTemp, Reserve
  <2>2. ASSUME NEW q \in Runs \ {r} PROVE r \notin rivals[q]
    BY <1>0, <2>1 DEF Overlap
  <2> QED BY <1>0, <2>1, <2>2
<1>4. ASSUME NEW r \in Runs, MkdirFails(r) PROVE FreshAfterSuccess'
  BY <1>0, <1>4 DEF MkdirFails
<1>5. ASSUME NEW r \in Runs, VacuumBegins(r) PROVE FreshAfterSuccess'
  BY <1>0, <1>5 DEF VacuumBegins, Step, Rest
<1>6. ASSUME NEW r \in Runs, VacuumEnds(r) PROVE FreshAfterSuccess'
  BY <1>0, <1>6 DEF VacuumEnds, Rewrite, Step, Rest
<1>7. ASSUME NEW r \in Runs, Chmod(r) PROVE FreshAfterSuccess'
  BY <1>0, <1>7 DEF Chmod, Rewrite, Step, Rest
<1>8. ASSUME NEW r \in Runs, Rename(r) PROVE FreshAfterSuccess'
  BY <1>0, <1>8 DEF Rename, Step, Rest
<1>9. ASSUME NEW r \in Runs, Clear(r) PROVE FreshAfterSuccess'
  BY <1>0, <1>9 DEF Clear, Leave
<1>10. ASSUME NEW r \in Runs, ClearFails(r) PROVE FreshAfterSuccess'
  BY <1>0, <1>10 DEF ClearFails
<1>11. ASSUME NEW r \in Runs, Fail(r) PROVE FreshAfterSuccess'
  BY <1>0, <1>11 DEF Fail
<1>12. ASSUME NEW r \in Runs, Kill(r) PROVE FreshAfterSuccess'
  BY <1>0, <1>12 DEF Kill
<1> QED BY <1>1, <1>2, <1>3, <1>4, <1>5, <1>6, <1>7, <1>8, <1>9, <1>10, <1>11, <1>12 DEF Next

-----------------------------------------------------------------------------
\* The inductive invariant holds in every reachable state.
THEOREM Invariance == Spec => []IInv
<1>1. Init => IInv
  BY AbsentAssumption DEF Init, IInv, TypeOK, VisibleIsFinished, FailsOnItsOwn, Litter,
     FreshAfterSuccess, Owned, Staged, Vacant, Overlap, Installed, Under, Active, Staging,
     Ended
<1>2. IInv /\ [Next]_vars => IInv'
  BY TypesKept, OwnershipKept, StagedKept, VacancyKept, OverlapKept, VisibleKept,
     OwnErrorsOnly, LitterKept, InstalledKept, FreshKept DEF IInv
<1> QED BY <1>1, <1>2, PTL DEF Spec

\* Type correctness.
THEOREM TypeCorrect == Spec => []TypeOK
<1>1. IInv => TypeOK
  BY DEF IInv
<1> QED BY <1>1, Invariance, PTL

\* No instant of any interleaving shows others an unfinished copy, or one that
\* they may read.
THEOREM NothingUnfinishedShows == Spec => []VisibleIsFinished
<1>1. IInv => VisibleIsFinished
  BY DEF IInv
<1> QED BY <1>1, Invariance, PTL

\* Neither a rival nor what a killed run left behind makes a run fail.
THEOREM RunsKeepApart == Spec => []FailsOnItsOwn
<1>1. IInv => FailsOnItsOwn
  BY DEF IInv
<1> QED BY <1>1, Invariance, PTL

\* What is left behind is a killed run's, or was reported.
THEOREM LitterExplained == Spec => []Litter
<1>1. IInv => Litter
  BY DEF IInv
<1> QED BY <1>1, Invariance, PTL

\* A run that succeeded is a backup of the docket as it found it.
THEOREM SuccessIsFresh == Spec => []FreshAfterSuccess
<1>1. IInv => FreshAfterSuccess
  BY DEF IInv
<1> QED BY <1>1, Invariance, PTL

-----------------------------------------------------------------------------
(* Snapshot implements Backup. *)

\* A step that moves one run moves it in the abstract runs too, or leaves them.
LEMMA StandingMoves ==
  ASSUME TypeOK, NEW r \in Runs, NEW label, Goto(r, label)
  PROVE  /\ \A q \in Runs \ {r} : Standing(q)' = Standing(q)
         /\ [q \in Runs |-> Standing(q)]' =
              [[q \in Runs |-> Standing(q)] EXCEPT ![r] = Standing(r)']
<1>1. \A q \in Runs \ {r} : pc'[q] = pc[q]
  BY DEF TypeOK, Goto
<1>2. \A q \in Runs \ {r} : Standing(q)' = Standing(q)
  BY <1>1 DEF Standing
<1> QED BY <1>2

\* Every step is a step of the register, or changes nothing of it.
LEMMA StepRefines ==
  ASSUME IInv, [Next]_vars
  PROVE  [B!Next]_(B!vars)
<1> DEFINE run == [q \in Runs |-> Standing(q)]
<1> USE DEF Active, Staging, Ended
<1>0. TypeOK /\ Absent \notin Copies \cup Names \cup Nat
  BY AbsentAssumption DEF IInv
<1>1. CASE UNCHANGED vars
  <2>1. Backed' = Backed /\ run' = run /\ UNCHANGED <<docket, began>>
    BY <1>1 DEF vars, Backed, Standing
  <2> QED BY <2>1 DEF B!vars
<1>2. CASE Record
  <2>1. Backed' = Backed /\ run' = run /\ docket' = docket + 1 /\ began' = began
    BY <1>2 DEF Record, Backed, Standing
  <2> QED BY <2>1 DEF B!Next, B!Record
<1>3. ASSUME NEW r \in Runs, VacuumBegins(r) PROVE UNCHANGED B!vars
  <2>1. PICK label \in {"copying", "erring"} : Goto(r, label)
    BY <1>3 DEF VacuumBegins, Step
  <2>2. pc[r] \in Staging /\ pc'[r] \in Staging \cup {"erring"}
    BY <1>0, <1>3, <2>1 DEF VacuumBegins, Step, Goto, TypeOK
  <2>3. Standing(r)' = Standing(r)
    BY <2>2 DEF Standing
  <2>4. run' = run
    BY <1>0, <2>1, <2>3, StandingMoves
  <2>5. Backed' = Backed /\ UNCHANGED <<docket, began>>
    BY <1>3 DEF VacuumBegins, Step, Rest, Backed
  <2> QED BY <2>4, <2>5 DEF B!vars
<1>4. ASSUME NEW r \in Runs, VacuumEnds(r) PROVE UNCHANGED B!vars
  <2>1. PICK label \in {"copied", "erring"} : Goto(r, label)
    BY <1>4 DEF VacuumEnds, Rewrite, Step
  <2>2. pc[r] \in Staging /\ pc'[r] \in Staging \cup {"erring"}
    BY <1>0, <1>4, <2>1 DEF VacuumEnds, Rewrite, Step, Goto, TypeOK
  <2>3. Standing(r)' = Standing(r)
    BY <2>2 DEF Standing
  <2>4. run' = run
    BY <1>0, <2>1, <2>3, StandingMoves
  <2>5. Backed' = Backed /\ UNCHANGED <<docket, began>>
    BY <1>4 DEF VacuumEnds, Rewrite, Step, Rest, Backed
  <2> QED BY <2>4, <2>5 DEF B!vars
<1>5. ASSUME NEW r \in Runs, Chmod(r) PROVE UNCHANGED B!vars
  <2>1. PICK label \in {"secured", "erring"} : Goto(r, label)
    BY <1>5 DEF Chmod, Rewrite, Step
  <2>2. pc[r] \in Staging /\ pc'[r] \in Staging \cup {"erring"}
    BY <1>0, <1>5, <2>1 DEF Chmod, Rewrite, Step, Goto, TypeOK
  <2>3. Standing(r)' = Standing(r)
    BY <2>2 DEF Standing
  <2>4. run' = run
    BY <1>0, <2>1, <2>3, StandingMoves
  <2>5. Backed' = Backed /\ UNCHANGED <<docket, began>>
    BY <1>5 DEF Chmod, Rewrite, Step, Rest, Backed
  <2> QED BY <2>4, <2>5 DEF B!vars
<1>6. ASSUME NEW r \in Runs, Fail(r) PROVE UNCHANGED B!vars
  <2>1. PICK label \in {"erring"} : Goto(r, label)
    BY <1>6 DEF Fail
  <2>2. pc[r] \in Staging /\ pc'[r] \in Staging \cup {"erring"}
    BY <1>0, <1>6, <2>1 DEF Fail, Goto, TypeOK
  <2>3. Standing(r)' = Standing(r)
    BY <2>2 DEF Standing
  <2>4. run' = run
    BY <1>0, <2>1, <2>3, StandingMoves
  <2>5. Backed' = Backed /\ UNCHANGED <<docket, began>>
    BY <1>6 DEF Fail, Backed
  <2> QED BY <2>4, <2>5 DEF B!vars
<1>7. ASSUME NEW r \in Runs, MkdirTemp(r) PROVE B!Begin(r)
  <2>1. Goto(r, "reserved") /\ Standing(r) = "idle" /\ Standing(r)' = "running"
    BY <1>0, <1>7 DEF MkdirTemp, Reserve, Goto, Standing, TypeOK
  <2>2. run' = [run EXCEPT ![r] = "running"]
    BY <1>0, <2>1, StandingMoves
  <2>3. Backed' = Backed /\ docket' = docket /\ began' = [began EXCEPT ![r] = docket]
    BY <1>7 DEF MkdirTemp, Reserve, Backed
  <2> QED BY <2>1, <2>2, <2>3 DEF B!Begin, B!Moves
<1>8. ASSUME NEW r \in Runs, Rename(r) PROVE B!Install(r)
  <2>1. /\ pc[r] = "secured" /\ Copy(r) \in Copies /\ Copy(r).whole /\ Copy(r).private
        /\ Copy(r).rows \in began[r]..docket
    BY <1>0, <1>8 DEF IInv, TypeOK, Staged, Owned, Under, Rename, Step, Copy
  <2>2. Goto(r, "moved") /\ dest' = Copy(r) /\ UNCHANGED <<docket, began>>
    BY <1>0, <1>8, <2>1 DEF Rename, Step, Rest
  <2>3. Standing(r) = "running" /\ Standing(r)' = "installed"
    BY <1>0, <2>1, <2>2 DEF Goto, Standing, TypeOK
  <2>4. run' = [run EXCEPT ![r] = "installed"]
    BY <1>0, <2>2, <2>3, StandingMoves
  <2>5. Backed' = Copy(r).rows
    BY <1>0, <2>1, <2>2 DEF Backed
  <2> QED BY <2>1, <2>2, <2>3, <2>4, <2>5 DEF B!Install, B!Moves
<1>9. ASSUME NEW r \in Runs, Clear(r) PROVE B!Succeed(r) \/ B!Fail(r)
  <2>1. /\ UNCHANGED <<docket, began, dest>> /\ Backed' = Backed
    BY <1>9 DEF Clear, Backed
  <2>2. CASE pc[r] = "moved"
    <3>1. Goto(r, "done") /\ Standing(r) = "installed" /\ Standing(r)' = "done"
      BY <1>0, <1>9, <2>2 DEF Clear, Leave, Goto, Standing, TypeOK
    <3>2. run' = [run EXCEPT ![r] = "done"]
      BY <1>0, <3>1, StandingMoves
    <3> QED BY <2>1, <3>1, <3>2 DEF B!Succeed, B!Moves
  <2>3. CASE pc[r] = "erring"
    <3>1. Goto(r, "failed") /\ Standing(r) = "running" /\ Standing(r)' = "failed"
      BY <1>0, <1>9, <2>3 DEF Clear, Leave, Goto, Standing, TypeOK
    <3>2. run' = [run EXCEPT ![r] = "failed"]
      BY <1>0, <3>1, StandingMoves
    <3> QED BY <2>1, <3>1, <3>2 DEF B!Fail, B!Moves
  <2> QED BY <1>9, <2>2, <2>3 DEF Clear
<1>10. ASSUME NEW r \in Runs, MkdirFails(r) PROVE B!Fail(r)
  <2>1. /\ Goto(r, "failed") /\ Standing(r) \in {"idle", "running", "installed"}
        /\ Standing(r)' = "failed"
    BY <1>0, <1>10 DEF MkdirFails, Goto, Standing, TypeOK
  <2>2. run' = [run EXCEPT ![r] = "failed"]
    BY <1>0, <2>1, StandingMoves
  <2>3. Backed' = Backed /\ UNCHANGED <<docket, began>>
    BY <1>10 DEF MkdirFails, Backed
  <2> QED BY <2>1, <2>2, <2>3 DEF B!Fail, B!Moves
<1>11. ASSUME NEW r \in Runs, ClearFails(r) PROVE B!Fail(r)
  <2>1. /\ Goto(r, "uncleared") /\ Standing(r) \in {"idle", "running", "installed"}
        /\ Standing(r)' = "failed"
    BY <1>0, <1>11 DEF ClearFails, Goto, Standing, TypeOK
  <2>2. run' = [run EXCEPT ![r] = "failed"]
    BY <1>0, <2>1, StandingMoves
  <2>3. Backed' = Backed /\ UNCHANGED <<docket, began>>
    BY <1>11 DEF ClearFails, Backed
  <2> QED BY <2>1, <2>2, <2>3 DEF B!Fail, B!Moves
<1>12. ASSUME NEW r \in Runs, Kill(r) PROVE B!Fail(r)
  <2>1. /\ Goto(r, "killed") /\ Standing(r) \in {"idle", "running", "installed"}
        /\ Standing(r)' = "failed"
    BY <1>0, <1>12 DEF Kill, Goto, Standing, TypeOK
  <2>2. run' = [run EXCEPT ![r] = "failed"]
    BY <1>0, <2>1, StandingMoves
  <2>3. Backed' = Backed /\ UNCHANGED <<docket, began>>
    BY <1>12 DEF Kill, Backed
  <2> QED BY <2>1, <2>2, <2>3 DEF B!Fail, B!Moves
<1> QED BY <1>1, <1>2, <1>3, <1>4, <1>5, <1>6, <1>7, <1>8, <1>9, <1>10, <1>11, <1>12 DEF Next, B!Next

\* The runs implement the register: the initial states map to its initial
\* states, and every step to one of its steps or to none.
THEOREM Refinement == Spec => ImplementsBackup
<1>1. Init => B!Init
  BY DEF Init, B!Init, Backed, Standing, Staging
<1>2. IInv /\ [Next]_vars => [B!Next]_(B!vars)
  BY StepRefines
<1> QED BY <1>1, <1>2, Invariance, PTL DEF Spec, ImplementsBackup, B!Spec
=============================================================================
