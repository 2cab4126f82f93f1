----------------------------- MODULE OpenProofs -----------------------------
(***************************************************************************)
(* Proofs about Open, for any number of processes of any releases, any     *)
(* length of the ladder's steps and any retry budget.                      *)
(***************************************************************************)
EXTENDS Open, TLAPS, SequenceTheorems

\* The ladder is no shorter for a later version.
LEMMA LaterIsLonger ==
  ASSUME NEW v \in Nat, NEW w \in Nat, v <= w
  PROVE  v * Stmts \in Nat /\ w * Stmts \in Nat /\ v * Stmts <= w * Stmts
<1>1. PICK d \in Nat : w = v + d
  <2>1. w - v \in Nat /\ w = v + (w - v)
    OBVIOUS
  <2> QED BY <2>1
<1>2. Stmts \in Nat
  BY StmtsAssumption
<1>3. w * Stmts = v * Stmts + d * Stmts
  BY <1>1, <1>2
<1>4. v * Stmts \in Nat /\ d * Stmts \in Nat
  BY <1>2
<1> QED BY <1>3, <1>4

\* The newest committed schema is one of the committed ones, and has their type.
LEMMA SchemaTyped ==
  ASSUME TypeOK
  PROVE  /\ Len(schemas) \in Nat \ {0} /\ Len(schemas) \in DOMAIN schemas
         /\ DOMAIN schemas = 1..Len(schemas)
         /\ Schema \in SchemaType /\ Schema.version \in Nat
<1>1. schemas \in Seq(SchemaType) /\ synced \in 1..Len(schemas)
  BY DEF TypeOK
<1>2. Len(schemas) \in Nat /\ DOMAIN schemas = 1..Len(schemas)
      /\ schemas \in [1..Len(schemas) -> SchemaType]
  BY <1>1, LenProperties
<1>3. Len(schemas) \in DOMAIN schemas
  BY <1>1, <1>2
<1>4. Schema \in SchemaType
  BY <1>2, <1>3 DEF Schema
<1> QED BY <1>2, <1>3, <1>4 DEF SchemaType

\* Committing a schema puts it behind the others.
LEMMA CommitProperties ==
  ASSUME TypeOK, NEW s \in SchemaType
  PROVE  LET t == Append(schemas, s)
         IN /\ t \in Seq(SchemaType) /\ Len(t) = Len(schemas) + 1
            /\ DOMAIN t = 1..Len(schemas) + 1
            /\ \A i \in DOMAIN schemas : t[i] = schemas[i]
            /\ t[Len(t)] = s
<1>1. schemas \in Seq(SchemaType)
  BY DEF TypeOK
<1>2. Len(schemas) \in Nat /\ DOMAIN schemas = 1..Len(schemas)
  BY <1>1, LenProperties
<1> QED BY <1>1, <1>2, AppendProperties, LenProperties

\* A power cut leaves a prefix of the committed schemas.
LEMMA PrefixProperties ==
  ASSUME TypeOK, NEW n \in 1..Len(schemas)
  PROVE  LET t == SubSeq(schemas, 1, n)
         IN /\ t \in Seq(SchemaType) /\ Len(t) = n /\ DOMAIN t = 1..n
            /\ n \in DOMAIN schemas
            /\ \A i \in 1..n : i \in DOMAIN schemas /\ t[i] = schemas[i]
<1> DEFINE t == SubSeq(schemas, 1, n)
<1>1. /\ schemas \in Seq(SchemaType) /\ Len(schemas) \in Nat
      /\ DOMAIN schemas = 1..Len(schemas)
      /\ \A i \in 1..Len(schemas) : schemas[i] \in SchemaType
  BY LenProperties, ElementOfSeq DEF TypeOK
<1>2. n \in Nat /\ 1 <= n /\ n <= Len(schemas)
  BY <1>1
<1>3. \A i \in 1..n : i \in DOMAIN schemas /\ schemas[i] \in SchemaType
  BY <1>1, <1>2
<1>4. /\ t \in Seq(SchemaType) /\ Len(t) = IF 1 <= n THEN n - 1 + 1 ELSE 0
      /\ \A i \in 1..n - 1 + 1 : t[i] = schemas[1 + i - 1]
  BY <1>2, <1>3, SubSeqProperties
<1>5. Len(t) = n /\ \A i \in 1..n : t[i] = schemas[i]
  BY <1>2, <1>4
<1> QED BY <1>2, <1>3, <1>4, <1>5, LenProperties

-----------------------------------------------------------------------------
(* Each part of the invariant is kept by every step. *)

\* Running a statement and setting the version make a schema of a schema.
LEMMA StepsTyped ==
  ASSUME NEW f \in [Procs -> SchemaType], NEW p \in Procs, NEW i \in Nat
  PROVE  /\ [f EXCEPT ![p].applied = @ \cup {i}] \in [Procs -> SchemaType]
         /\ [f EXCEPT ![p].version = IF @ < Version[p] THEN Version[p] ELSE @]
              \in [Procs -> SchemaType]
<1>1. [f[p] EXCEPT !.applied = @ \cup {i}] \in SchemaType
  BY DEF SchemaType
<1>2. Version[p] \in Nat
  BY VersionAssumption
<1>3. [f[p] EXCEPT !.version = IF @ < Version[p] THEN Version[p] ELSE @] \in SchemaType
  BY <1>2 DEF SchemaType
<1> QED BY <1>1, <1>3

\* Type correctness, with the bound on the attempts that backoff relies on.
LEMMA TypesKept ==
  ASSUME IInv, [Next]_vars
  PROVE  TypeOK'
<1> USE DEF file, history, Goto, Release, TypeOK, Opening, Racing, Holding, Ended
<1>0. TypeOK /\ Patience /\ AttemptsAssumption /\ Attempts \in Nat
      /\ MaxMishaps \in Nat /\ Len(schemas) \in Nat
  BY AttemptsAssumption, MishapsAssumption, LenProperties DEF IInv
<1>1. CASE UNCHANGED vars
  BY <1>0, <1>1 DEF vars
<1>2. ASSUME NEW p \in Procs, Start(p) PROVE TypeOK'
  BY <1>0, <1>2 DEF Start, Try
<1>3. ASSUME NEW p \in Procs, Connect(p) PROVE TypeOK'
  BY <1>0, <1>3 DEF Connect
<1>4. ASSUME NEW p \in Procs, Flip(p) PROVE TypeOK'
  BY <1>0, <1>4 DEF Flip
<1>5. ASSUME NEW p \in Procs, Flipped(p) PROVE TypeOK'
  BY <1>0, <1>5 DEF Flipped
<1>6. ASSUME NEW p \in Procs, FlipRefused(p) PROVE TypeOK'
  BY <1>0, <1>6 DEF FlipRefused, Busy
<1>7. ASSUME NEW p \in Procs, Retry(p) PROVE TypeOK'
  <2>1. attempt[p] + 1 \in 0..Attempts
    BY <1>0, <1>7 DEF Retry, Patience
  <2>2. attempt' \in [Procs -> 0..Attempts]
    BY <1>0, <1>7, <2>1 DEF Retry, Try
  <2>3. cold' \in [Procs -> Nat]
    BY <1>0, <1>7 DEF Retry, Try
  <2> QED BY <1>0, <1>7, <2>2, <2>3 DEF Retry, Try
<1>8. ASSUME NEW p \in Procs, Begin(p) PROVE TypeOK'
  BY <1>0, <1>8 DEF Begin
<1>9. ASSUME NEW p \in Procs, BeginTimeout(p) PROVE TypeOK'
  BY <1>0, <1>9 DEF BeginTimeout, Busy
<1>10. ASSUME NEW p \in Procs, ReadVersion(p) PROVE TypeOK'
  <2>1. Schema \in SchemaType /\ Schema.version \in Nat /\ Stmts \in Nat
    BY <1>0, SchemaTyped, StmtsAssumption
  <2>2. Schema.version * Stmts + 1 \in Nat \ {0}
    BY <2>1
  <2> QED BY <1>0, <1>10, <2>1, <2>2 DEF ReadVersion
<1>11. ASSUME NEW p \in Procs, RefuseNewer(p) PROVE TypeOK'
  BY <1>0, <1>11 DEF RefuseNewer
<1>12. ASSUME NEW p \in Procs, Apply(p) PROVE TypeOK'
  <2> DEFINE g == [tx EXCEPT ![p].applied = @ \cup {next[p]}]
  <2>1. next[p] \in Nat \ {0} /\ g \in [Procs -> SchemaType]
    BY <1>0, StepsTyped
  <2>2. tx' \in {tx, g}
    BY <1>12 DEF Apply
  <2>3. tx' \in [Procs -> SchemaType]
    BY <1>0, <2>1, <2>2
  <2> HIDE DEF g
  <2>4. next' \in {next, [next EXCEPT ![p] = @ + 1]}
        /\ pc' \in {pc, [pc EXCEPT ![p] = "broken"]}
    BY <1>12 DEF Apply
  <2>5. [next EXCEPT ![p] = @ + 1] \in [Procs -> Nat \ {0}]
    BY <1>0
  <2>6. next' \in [Procs -> Nat \ {0}]
    BY <1>0, <2>4, <2>5
  <2>7. pc' \in [Procs -> {"off"} \cup Opening \cup Ended]
    BY <1>0, <2>4
  <2>8. UNCHANGED <<conn, attempt, file, mishaps, history>> /\ lock' \in {lock, None}
    BY <1>12 DEF Apply
  <2> QED BY <1>0, <2>3, <2>6, <2>7, <2>8
<1>13. ASSUME NEW p \in Procs, SetVersion(p) PROVE TypeOK'
  <2>1. [tx EXCEPT ![p].version = IF @ < Version[p] THEN Version[p] ELSE @]
          \in [Procs -> SchemaType]
    BY <1>0, StepsTyped
  <2> QED BY <1>0, <1>13, <2>1 DEF SetVersion
<1>14. ASSUME NEW p \in Procs, Commit(p) PROVE TypeOK'
  <2>1. tx[p] \in SchemaType
    BY <1>0
  <2>2. schemas' \in Seq(SchemaType) /\ Len(schemas') >= Len(schemas)
        /\ Len(schemas') \in Nat
    BY <1>0, <1>14, <2>1, CommitProperties DEF Commit
  <2>3. synced' \in 1..Len(schemas')
    BY <1>0, <1>14, <2>2 DEF Commit
  <2> QED BY <1>0, <1>14, <2>2, <2>3 DEF Commit
<1>15. ASSUME NEW p \in Procs, Fail(p) PROVE TypeOK'
  BY <1>0, <1>15 DEF Fail
<1>16. ASSUME NEW p \in Procs, Crash(p) PROVE TypeOK'
  BY <1>0, <1>16 DEF Crash
<1>17. ASSUME NEW p \in Procs, Close(p) PROVE TypeOK'
  BY <1>0, <1>17 DEF Close
<1>18. ASSUME NEW n \in synced..Len(schemas), PowerLoss(n) PROVE TypeOK'
  <2>1. n \in 1..Len(schemas)
    BY <1>0
  <2>2. SubSeq(schemas, 1, n) \in Seq(SchemaType) /\ Len(SubSeq(schemas, 1, n)) = n
    BY <1>0, <2>1, PrefixProperties
  <2> QED BY <1>0, <1>18, <2>1, <2>2 DEF PowerLoss
<1>19. ASSUME NEW p \in Procs, Share(p) PROVE TypeOK'
  BY <1>0, <1>19 DEF Share
<1>20. ASSUME NEW p \in Procs, Collide(p) PROVE TypeOK'
  BY <1>0, <1>20 DEF Collide
<1> QED
  BY <1>1, <1>2, <1>3, <1>4, <1>5, <1>6, <1>7, <1>8, <1>9, <1>10, <1>11, <1>12,
     <1>13, <1>14, <1>15, <1>16, <1>17, <1>18, <1>19, <1>20
  DEF Next, Initialize, Migrate

\* The lock is held by exactly the process that is at a step that holds it.
LEMMA LockKept ==
  ASSUME IInv, [Next]_vars
  PROVE  LockHeld'
<1> USE DEF file, history, Goto, Release, TypeOK, Opening, Holding, LockHeld
<1>0. TypeOK /\ LockHeld /\ None \notin Procs
  BY NoneAssumption DEF IInv
<1>1. CASE UNCHANGED vars
  BY <1>0, <1>1 DEF vars
<1>2. ASSUME NEW p \in Procs, Start(p) PROVE LockHeld'
  BY <1>0, <1>2 DEF Start, Try
<1>3. ASSUME NEW p \in Procs, Connect(p) PROVE LockHeld'
  BY <1>0, <1>3 DEF Connect
<1>4. ASSUME NEW p \in Procs, Flip(p) PROVE LockHeld'
  BY <1>0, <1>4 DEF Flip
<1>5. ASSUME NEW p \in Procs, Flipped(p) PROVE LockHeld'
  BY <1>0, <1>5 DEF Flipped
<1>6. ASSUME NEW p \in Procs, FlipRefused(p) PROVE LockHeld'
  BY <1>0, <1>6 DEF FlipRefused, Busy
<1>7. ASSUME NEW p \in Procs, Retry(p) PROVE LockHeld'
  BY <1>0, <1>7 DEF Retry, Try
<1>8. ASSUME NEW p \in Procs, Begin(p) PROVE LockHeld'
  BY <1>0, <1>8 DEF Begin
<1>9. ASSUME NEW p \in Procs, BeginTimeout(p) PROVE LockHeld'
  BY <1>0, <1>9 DEF BeginTimeout, Busy
<1>10. ASSUME NEW p \in Procs, ReadVersion(p) PROVE LockHeld'
  BY <1>0, <1>10 DEF ReadVersion
<1>11. ASSUME NEW p \in Procs, RefuseNewer(p) PROVE LockHeld'
  BY <1>0, <1>11 DEF RefuseNewer
<1>12. ASSUME NEW p \in Procs, Apply(p) PROVE LockHeld'
  BY <1>0, <1>12 DEF Apply
<1>13. ASSUME NEW p \in Procs, SetVersion(p) PROVE LockHeld'
  BY <1>0, <1>13 DEF SetVersion
<1>14. ASSUME NEW p \in Procs, Commit(p) PROVE LockHeld'
  BY <1>0, <1>14 DEF Commit
<1>15. ASSUME NEW p \in Procs, Fail(p) PROVE LockHeld'
  BY <1>0, <1>15 DEF Fail
<1>16. ASSUME NEW p \in Procs, Crash(p) PROVE LockHeld'
  BY <1>0, <1>16 DEF Crash
<1>17. ASSUME NEW p \in Procs, Close(p) PROVE LockHeld'
  BY <1>0, <1>17 DEF Close
<1>18. ASSUME NEW n \in synced..Len(schemas), PowerLoss(n) PROVE LockHeld'
  BY <1>0, <1>18 DEF PowerLoss
<1>19. ASSUME NEW p \in Procs, Share(p) PROVE LockHeld'
  BY <1>0, <1>19 DEF Share
<1>20. ASSUME NEW p \in Procs, Collide(p) PROVE LockHeld'
  BY <1>0, <1>20 DEF Collide
<1> QED
  BY <1>1, <1>2, <1>3, <1>4, <1>5, <1>6, <1>7, <1>8, <1>9, <1>10, <1>11, <1>12,
     <1>13, <1>14, <1>15, <1>16, <1>17, <1>18, <1>19, <1>20
  DEF Next, Initialize, Migrate

\* A connection that is set up means a file in WAL mode.
LEMMA ConnectedKept ==
  ASSUME IInv, [Next]_vars
  PROVE  Connected'
<1> USE DEF file, history, Goto, Release, TypeOK, Connected
<1>0. TypeOK /\ Connected
  BY DEF IInv
<1>1. CASE UNCHANGED vars
  BY <1>0, <1>1 DEF vars
<1>2. ASSUME NEW p \in Procs, Start(p) PROVE Connected'
  BY <1>0, <1>2 DEF Start, Try
<1>3. ASSUME NEW p \in Procs, Connect(p) PROVE Connected'
  BY <1>0, <1>3 DEF Connect
<1>4. ASSUME NEW p \in Procs, Flip(p) PROVE Connected'
  BY <1>0, <1>4 DEF Flip
<1>5. ASSUME NEW p \in Procs, Flipped(p) PROVE Connected'
  BY <1>0, <1>5 DEF Flipped
<1>6. ASSUME NEW p \in Procs, FlipRefused(p) PROVE Connected'
  BY <1>0, <1>6 DEF FlipRefused, Busy
<1>7. ASSUME NEW p \in Procs, Retry(p) PROVE Connected'
  BY <1>0, <1>7 DEF Retry, Try
<1>8. ASSUME NEW p \in Procs, Begin(p) PROVE Connected'
  BY <1>0, <1>8 DEF Begin
<1>9. ASSUME NEW p \in Procs, BeginTimeout(p) PROVE Connected'
  BY <1>0, <1>9 DEF BeginTimeout, Busy
<1>10. ASSUME NEW p \in Procs, ReadVersion(p) PROVE Connected'
  BY <1>0, <1>10 DEF ReadVersion
<1>11. ASSUME NEW p \in Procs, RefuseNewer(p) PROVE Connected'
  BY <1>0, <1>11 DEF RefuseNewer
<1>12. ASSUME NEW p \in Procs, Apply(p) PROVE Connected'
  BY <1>0, <1>12 DEF Apply
<1>13. ASSUME NEW p \in Procs, SetVersion(p) PROVE Connected'
  BY <1>0, <1>13 DEF SetVersion
<1>14. ASSUME NEW p \in Procs, Commit(p) PROVE Connected'
  BY <1>0, <1>14 DEF Commit
<1>15. ASSUME NEW p \in Procs, Fail(p) PROVE Connected'
  BY <1>0, <1>15 DEF Fail
<1>16. ASSUME NEW p \in Procs, Crash(p) PROVE Connected'
  BY <1>0, <1>16 DEF Crash
<1>17. ASSUME NEW p \in Procs, Close(p) PROVE Connected'
  BY <1>0, <1>17 DEF Close
<1>18. ASSUME NEW n \in synced..Len(schemas), PowerLoss(n) PROVE Connected'
  BY <1>0, <1>18 DEF PowerLoss, Opening
<1>19. ASSUME NEW p \in Procs, Share(p) PROVE Connected'
  BY <1>0, <1>19 DEF Share
<1>20. ASSUME NEW p \in Procs, Collide(p) PROVE Connected'
  BY <1>0, <1>20 DEF Collide
<1> QED
  BY <1>1, <1>2, <1>3, <1>4, <1>5, <1>6, <1>7, <1>8, <1>9, <1>10, <1>11, <1>12,
     <1>13, <1>14, <1>15, <1>16, <1>17, <1>18, <1>19, <1>20
  DEF Next, Initialize, Migrate

\* While processes race for the exclusive lock nobody has a lock.
LEMMA RaceKept ==
  ASSUME IInv, [Next]_vars
  PROVE  Race'
<1> USE DEF file, history, Goto, Release, TypeOK, Racing, Holding, Race
<1>0. TypeOK /\ Race /\ LockHeld /\ Connected /\ None \notin Procs
  BY NoneAssumption DEF IInv
<1>1. CASE UNCHANGED vars
  BY <1>0, <1>1 DEF vars
<1>2. ASSUME NEW p \in Procs, Start(p) PROVE Race'
  BY <1>0, <1>2 DEF Start, Try
<1>3. ASSUME NEW p \in Procs, Connect(p) PROVE Race'
  BY <1>0, <1>3 DEF Connect
<1>4. ASSUME NEW p \in Procs, Flip(p) PROVE Race'
  BY <1>0, <1>4 DEF Flip, Rivals
<1>5. ASSUME NEW p \in Procs, Flipped(p) PROVE Race'
  BY <1>0, <1>5 DEF Flipped, LockHeld
<1>6. ASSUME NEW p \in Procs, FlipRefused(p) PROVE Race'
  BY <1>0, <1>6 DEF FlipRefused, Busy
<1>7. ASSUME NEW p \in Procs, Retry(p) PROVE Race'
  BY <1>0, <1>7 DEF Retry, Try
<1>8. ASSUME NEW p \in Procs, Begin(p) PROVE Race'
  BY <1>0, <1>8 DEF Begin, Connected
<1>9. ASSUME NEW p \in Procs, BeginTimeout(p) PROVE Race'
  BY <1>0, <1>9 DEF BeginTimeout, Busy
<1>10. ASSUME NEW p \in Procs, ReadVersion(p) PROVE Race'
  BY <1>0, <1>10 DEF ReadVersion
<1>11. ASSUME NEW p \in Procs, RefuseNewer(p) PROVE Race'
  BY <1>0, <1>11 DEF RefuseNewer
<1>12. ASSUME NEW p \in Procs, Apply(p) PROVE Race'
  BY <1>0, <1>12 DEF Apply
<1>13. ASSUME NEW p \in Procs, SetVersion(p) PROVE Race'
  BY <1>0, <1>13 DEF SetVersion
<1>14. ASSUME NEW p \in Procs, Commit(p) PROVE Race'
  BY <1>0, <1>14 DEF Commit
<1>15. ASSUME NEW p \in Procs, Fail(p) PROVE Race'
  BY <1>0, <1>15 DEF Fail
<1>16. ASSUME NEW p \in Procs, Crash(p) PROVE Race'
  BY <1>0, <1>16 DEF Crash
<1>17. ASSUME NEW p \in Procs, Close(p) PROVE Race'
  BY <1>0, <1>17 DEF Close
<1>18. ASSUME NEW n \in synced..Len(schemas), PowerLoss(n) PROVE Race'
  BY <1>0, <1>18 DEF PowerLoss
<1>19. ASSUME NEW p \in Procs, Share(p) PROVE Race'
  BY <1>0, <1>19 DEF Share
<1>20. ASSUME NEW p \in Procs, Collide(p) PROVE Race'
  BY <1>0, <1>20 DEF Collide
<1> QED
  BY <1>1, <1>2, <1>3, <1>4, <1>5, <1>6, <1>7, <1>8, <1>9, <1>10, <1>11, <1>12,
     <1>13, <1>14, <1>15, <1>16, <1>17, <1>18, <1>19, <1>20
  DEF Next, Initialize, Migrate

\* Every attempt that ended with SQLITE_BUSY was a cold one or cost a busy timeout.
LEMMA PatienceKept ==
  ASSUME IInv, [Next]_vars
  PROVE  Patience'
<1> USE DEF file, history, Goto, Release, TypeOK, Opening, Racing, Holding, Patience
<1>0. /\ TypeOK /\ Patience /\ Race /\ LockHeld /\ Connected /\ Attempts \in Nat \ {0}
      /\ mishaps \in Nat
  BY AttemptsAssumption, MishapsAssumption DEF IInv
<1>1. CASE UNCHANGED vars
  BY <1>0, <1>1 DEF vars
<1>2. ASSUME NEW p \in Procs, Start(p) PROVE Patience'
  BY <1>0, <1>2 DEF Start, Try
<1>3. ASSUME NEW p \in Procs, Connect(p) PROVE Patience'
  BY <1>0, <1>3 DEF Connect
<1>4. ASSUME NEW p \in Procs, Flip(p) PROVE Patience'
  BY <1>0, <1>4 DEF Flip
<1>5. ASSUME NEW p \in Procs, Flipped(p) PROVE Patience'
  BY <1>0, <1>5 DEF Flipped
<1>6. ASSUME NEW p \in Procs, FlipRefused(p) PROVE Patience'
  BY <1>0, <1>6 DEF FlipRefused, Busy, Race
<1>7. ASSUME NEW p \in Procs, Retry(p) PROVE Patience'
  <2>1. /\ pc' = [pc EXCEPT ![p] = "connecting"]
        /\ attempt' = [attempt EXCEPT ![p] = attempt[p] + 1]
        /\ cold' = [cold EXCEPT ![p] = IF journal = "delete" THEN @ + 1 ELSE @]
        /\ UNCHANGED <<journal, timeouts>>
        /\ pc[p] = "backoff"
    BY <1>7 DEF Retry, Try
  <2>2. /\ attempt[p] \in Nat /\ cold[p] \in Nat /\ timeouts[p] \in Nat
        /\ attempt[p] <= cold[p] + timeouts[p]
        /\ journal = "delete" => attempt[p] = cold[p]
    BY <1>0, <2>1
  <2>3. /\ attempt'[p] = attempt[p] + 1 /\ timeouts'[p] = timeouts[p]
        /\ cold'[p] = IF journal = "delete" THEN cold[p] + 1 ELSE cold[p]
        /\ pc'[p] = "connecting"
    BY <1>0, <2>1
  <2>4. ASSUME NEW q \in Procs, q # p
        PROVE  /\ pc'[q] = pc[q] /\ attempt'[q] = attempt[q]
               /\ cold'[q] = cold[q] /\ timeouts'[q] = timeouts[q]
    BY <1>0, <2>1, <2>4
  <2>5. /\ attempt'[p] - 1 <= cold'[p] + timeouts'[p]
        /\ journal' = "delete" => attempt'[p] = cold'[p]
    BY <2>1, <2>2, <2>3
  <2> QED BY <1>0, <2>1, <2>3, <2>4, <2>5
<1>8. ASSUME NEW p \in Procs, Begin(p) PROVE Patience'
  BY <1>0, <1>8 DEF Begin
<1>9. ASSUME NEW p \in Procs, BeginTimeout(p) PROVE Patience'
  BY <1>0, <1>9 DEF BeginTimeout, Busy, Connected
<1>10. ASSUME NEW p \in Procs, ReadVersion(p) PROVE Patience'
  BY <1>0, <1>10 DEF ReadVersion
<1>11. ASSUME NEW p \in Procs, RefuseNewer(p) PROVE Patience'
  BY <1>0, <1>11 DEF RefuseNewer
<1>12. ASSUME NEW p \in Procs, Apply(p) PROVE Patience'
  BY <1>0, <1>12 DEF Apply
<1>13. ASSUME NEW p \in Procs, SetVersion(p) PROVE Patience'
  BY <1>0, <1>13 DEF SetVersion
<1>14. ASSUME NEW p \in Procs, Commit(p) PROVE Patience'
  BY <1>0, <1>14 DEF Commit
<1>15. ASSUME NEW p \in Procs, Fail(p) PROVE Patience'
  BY <1>0, <1>15 DEF Fail
<1>16. ASSUME NEW p \in Procs, Crash(p) PROVE Patience'
  BY <1>0, <1>16 DEF Crash
<1>17. ASSUME NEW p \in Procs, Close(p) PROVE Patience'
  BY <1>0, <1>17 DEF Close
<1>18. ASSUME NEW n \in synced..Len(schemas), PowerLoss(n) PROVE Patience'
  BY <1>0, <1>18 DEF PowerLoss
<1>19. ASSUME NEW p \in Procs, Share(p) PROVE Patience'
  BY <1>0, <1>19 DEF Share
<1>20. ASSUME NEW p \in Procs, Collide(p) PROVE Patience'
  BY <1>0, <1>20 DEF Collide
<1> QED
  BY <1>1, <1>2, <1>3, <1>4, <1>5, <1>6, <1>7, <1>8, <1>9, <1>10, <1>11, <1>12,
     <1>13, <1>14, <1>15, <1>16, <1>17, <1>18, <1>19, <1>20
  DEF Next, Initialize, Migrate

\* Only the whole ladder up to its version is ever committed.
LEMMA WholeKept ==
  ASSUME IInv, [Next]_vars
  PROVE  SchemaWhole'
<1> USE DEF file, history, Goto, Release, SchemaWhole
<1>0. TypeOK /\ SchemaWhole /\ Transaction
  BY DEF IInv
<1>1. CASE UNCHANGED vars
  BY <1>0, <1>1 DEF vars
<1>2. ASSUME NEW p \in Procs, Start(p) PROVE SchemaWhole'
  BY <1>0, <1>2 DEF Start, Try
<1>3. ASSUME NEW p \in Procs, Connect(p) PROVE SchemaWhole'
  BY <1>0, <1>3 DEF Connect
<1>4. ASSUME NEW p \in Procs, Flip(p) PROVE SchemaWhole'
  BY <1>0, <1>4 DEF Flip
<1>5. ASSUME NEW p \in Procs, Flipped(p) PROVE SchemaWhole'
  BY <1>0, <1>5 DEF Flipped
<1>6. ASSUME NEW p \in Procs, FlipRefused(p) PROVE SchemaWhole'
  BY <1>0, <1>6 DEF FlipRefused, Busy
<1>7. ASSUME NEW p \in Procs, Retry(p) PROVE SchemaWhole'
  BY <1>0, <1>7 DEF Retry, Try
<1>8. ASSUME NEW p \in Procs, Begin(p) PROVE SchemaWhole'
  BY <1>0, <1>8 DEF Begin
<1>9. ASSUME NEW p \in Procs, BeginTimeout(p) PROVE SchemaWhole'
  BY <1>0, <1>9 DEF BeginTimeout, Busy
<1>10. ASSUME NEW p \in Procs, ReadVersion(p) PROVE SchemaWhole'
  BY <1>0, <1>10 DEF ReadVersion
<1>11. ASSUME NEW p \in Procs, RefuseNewer(p) PROVE SchemaWhole'
  BY <1>0, <1>11 DEF RefuseNewer
<1>12. ASSUME NEW p \in Procs, Apply(p) PROVE SchemaWhole'
  BY <1>0, <1>12 DEF Apply
<1>13. ASSUME NEW p \in Procs, SetVersion(p) PROVE SchemaWhole'
  BY <1>0, <1>13 DEF SetVersion
<1>14. ASSUME NEW p \in Procs, Commit(p) PROVE SchemaWhole'
  <2>1. tx[p] \in SchemaType /\ tx[p].applied = 1..tx[p].version * Stmts
    <3>1. tx[p] = [version |-> Version[p], applied |-> 1..Top(p)]
      BY <1>0, <1>14 DEF Commit, Transaction
    <3> QED BY <1>0, <3>1 DEF TypeOK, Top
  <2>2. CASE tx[p] = Schema
    BY <1>0, <1>14, <2>2 DEF Commit
  <2>3. CASE tx[p] # Schema
    <3> DEFINE t == Append(schemas, tx[p])
    <3>1. schemas' = t
      BY <1>14, <2>3 DEF Commit
    <3>2. /\ DOMAIN t = 1..Len(schemas) + 1 /\ Len(t) = Len(schemas) + 1
          /\ \A i \in DOMAIN schemas : t[i] = schemas[i]
          /\ t[Len(t)] = tx[p]
          /\ Len(schemas) \in Nat /\ DOMAIN schemas = 1..Len(schemas)
      BY <1>0, <2>1, CommitProperties, SchemaTyped
    <3> HIDE DEF t
    <3>3. ASSUME NEW i \in DOMAIN t PROVE t[i].applied = 1..t[i].version * Stmts
      <4>1. CASE i = Len(t)
        BY <2>1, <3>2, <4>1
      <4>2. CASE i # Len(t)
        BY <1>0, <3>2, <4>2
      <4> QED BY <4>1, <4>2
    <3> QED BY <3>1, <3>3
  <2> QED BY <2>2, <2>3
<1>15. ASSUME NEW p \in Procs, Fail(p) PROVE SchemaWhole'
  BY <1>0, <1>15 DEF Fail
<1>16. ASSUME NEW p \in Procs, Crash(p) PROVE SchemaWhole'
  BY <1>0, <1>16 DEF Crash
<1>17. ASSUME NEW p \in Procs, Close(p) PROVE SchemaWhole'
  BY <1>0, <1>17 DEF Close
<1>18. ASSUME NEW n \in synced..Len(schemas), PowerLoss(n) PROVE SchemaWhole'
  <2> DEFINE t == SubSeq(schemas, 1, n)
  <2>1. n \in 1..Len(schemas)
    BY <1>0 DEF TypeOK
  <2>2. /\ DOMAIN t = 1..n
        /\ \A i \in 1..n : i \in DOMAIN schemas /\ t[i] = schemas[i]
    BY <1>0, <2>1, PrefixProperties
  <2>3. schemas' = t
    BY <1>18 DEF PowerLoss
  <2> HIDE DEF t
  <2> QED BY <1>0, <2>2, <2>3
<1>19. ASSUME NEW p \in Procs, Share(p) PROVE SchemaWhole'
  BY <1>0, <1>19 DEF Share
<1>20. ASSUME NEW p \in Procs, Collide(p) PROVE SchemaWhole'
  BY <1>0, <1>20 DEF Collide
<1> QED
  BY <1>1, <1>2, <1>3, <1>4, <1>5, <1>6, <1>7, <1>8, <1>9, <1>10, <1>11, <1>12,
     <1>13, <1>14, <1>15, <1>16, <1>17, <1>18, <1>19, <1>20
  DEF Next, Initialize, Migrate

\* A commit leaves the transaction's schema, at the binary's version, the newest.
LEMMA CommitsOwnVersion ==
  ASSUME IInv, NEW p \in Procs, Commit(p)
  PROVE  /\ tx[p] = [version |-> Version[p], applied |-> 1..Top(p)]
         /\ tx[p] \in SchemaType /\ Schema.version <= Version[p]
         /\ Schema' = tx[p]
         /\ \/ schemas' = schemas
            \/ schemas' = Append(schemas, tx[p])
<1>1. TypeOK /\ Transaction
  BY DEF IInv
<1>2. /\ tx[p] = [version |-> Version[p], applied |-> 1..Top(p)]
      /\ Schema.version <= Version[p] /\ tx[p] \in SchemaType
  BY <1>1 DEF Commit, Transaction, TypeOK
<1>3. CASE tx[p] = Schema
  BY <1>2, <1>3 DEF Commit, Schema
<1>4. CASE tx[p] # Schema
  <2>1. schemas' = Append(schemas, tx[p])
    BY <1>4 DEF Commit
  <2> QED BY <1>1, <1>2, <2>1, CommitProperties DEF Schema
<1> QED BY <1>3, <1>4

\* No statement of the ladder runs on a schema that has it already.
LEMMA NeverBrokenKept ==
  ASSUME IInv, [Next]_vars
  PROVE  NeverBroken'
<1> USE DEF file, history, Goto, Release, TypeOK, NeverBroken
<1>0. TypeOK /\ NeverBroken /\ Transaction
  BY DEF IInv
<1>1. CASE UNCHANGED vars
  BY <1>0, <1>1 DEF vars
<1>2. ASSUME NEW p \in Procs, Start(p) PROVE NeverBroken'
  BY <1>0, <1>2 DEF Start, Try
<1>3. ASSUME NEW p \in Procs, Connect(p) PROVE NeverBroken'
  BY <1>0, <1>3 DEF Connect
<1>4. ASSUME NEW p \in Procs, Flip(p) PROVE NeverBroken'
  BY <1>0, <1>4 DEF Flip
<1>5. ASSUME NEW p \in Procs, Flipped(p) PROVE NeverBroken'
  BY <1>0, <1>5 DEF Flipped
<1>6. ASSUME NEW p \in Procs, FlipRefused(p) PROVE NeverBroken'
  BY <1>0, <1>6 DEF FlipRefused, Busy
<1>7. ASSUME NEW p \in Procs, Retry(p) PROVE NeverBroken'
  BY <1>0, <1>7 DEF Retry, Try
<1>8. ASSUME NEW p \in Procs, Begin(p) PROVE NeverBroken'
  BY <1>0, <1>8 DEF Begin
<1>9. ASSUME NEW p \in Procs, BeginTimeout(p) PROVE NeverBroken'
  BY <1>0, <1>9 DEF BeginTimeout, Busy
<1>10. ASSUME NEW p \in Procs, ReadVersion(p) PROVE NeverBroken'
  BY <1>0, <1>10 DEF ReadVersion
<1>11. ASSUME NEW p \in Procs, RefuseNewer(p) PROVE NeverBroken'
  BY <1>0, <1>11 DEF RefuseNewer
<1>12. ASSUME NEW p \in Procs, Apply(p) PROVE NeverBroken'
  <2>1. tx[p].applied = 1..next[p] - 1 /\ next[p] \in Nat
    BY <1>0, <1>12 DEF Apply, Transaction
  <2>2. next[p] \notin tx[p].applied
    BY <2>1
  <2> QED BY <1>0, <1>12, <2>2 DEF Apply
<1>13. ASSUME NEW p \in Procs, SetVersion(p) PROVE NeverBroken'
  BY <1>0, <1>13 DEF SetVersion
<1>14. ASSUME NEW p \in Procs, Commit(p) PROVE NeverBroken'
  BY <1>0, <1>14 DEF Commit
<1>15. ASSUME NEW p \in Procs, Fail(p) PROVE NeverBroken'
  BY <1>0, <1>15 DEF Fail
<1>16. ASSUME NEW p \in Procs, Crash(p) PROVE NeverBroken'
  BY <1>0, <1>16 DEF Crash
<1>17. ASSUME NEW p \in Procs, Close(p) PROVE NeverBroken'
  BY <1>0, <1>17 DEF Close
<1>18. ASSUME NEW n \in synced..Len(schemas), PowerLoss(n) PROVE NeverBroken'
  BY <1>0, <1>18 DEF PowerLoss
<1>19. ASSUME NEW p \in Procs, Share(p) PROVE NeverBroken'
  BY <1>0, <1>19 DEF Share
<1>20. ASSUME NEW p \in Procs, Collide(p) PROVE NeverBroken'
  BY <1>0, <1>20 DEF Collide
<1> QED
  BY <1>1, <1>2, <1>3, <1>4, <1>5, <1>6, <1>7, <1>8, <1>9, <1>10, <1>11, <1>12,
     <1>13, <1>14, <1>15, <1>16, <1>17, <1>18, <1>19, <1>20
  DEF Next, Initialize, Migrate

\* The schema does not change under the process that holds the write lock.
LEMMA TransactionKept ==
  ASSUME IInv, [Next]_vars
  PROVE  Transaction'
<1> USE DEF file, history, Goto, Release, TypeOK, Opening, Holding, Schema, Top
<1>0. TypeOK /\ Transaction /\ LockHeld /\ SchemaWhole
  BY DEF IInv
<1>1. CASE UNCHANGED vars
  BY <1>0, <1>1 DEF vars, Transaction
<1>2. ASSUME NEW p \in Procs, Start(p) PROVE Transaction'
  BY <1>0, <1>2 DEF Start, Try, Transaction
<1>3. ASSUME NEW p \in Procs, Connect(p) PROVE Transaction'
  BY <1>0, <1>3 DEF Connect, Transaction
<1>4. ASSUME NEW p \in Procs, Flip(p) PROVE Transaction'
  BY <1>0, <1>4 DEF Flip, Transaction
<1>5. ASSUME NEW p \in Procs, Flipped(p) PROVE Transaction'
  BY <1>0, <1>5 DEF Flipped, Transaction
<1>6. ASSUME NEW p \in Procs, FlipRefused(p) PROVE Transaction'
  BY <1>0, <1>6 DEF FlipRefused, Busy, Transaction
<1>7. ASSUME NEW p \in Procs, Retry(p) PROVE Transaction'
  BY <1>0, <1>7 DEF Retry, Try, Transaction
<1>8. ASSUME NEW p \in Procs, Begin(p) PROVE Transaction'
  BY <1>0, <1>8 DEF Begin, Transaction
<1>9. ASSUME NEW p \in Procs, BeginTimeout(p) PROVE Transaction'
  BY <1>0, <1>9 DEF BeginTimeout, Busy, Transaction
<1>10. ASSUME NEW p \in Procs, ReadVersion(p) PROVE Transaction'
  <2>1. Schema \in SchemaType /\ Version[p] \in Nat /\ Stmts \in Nat
        /\ Schema.version <= Version[p] /\ Len(schemas) \in DOMAIN schemas
    BY <1>0, <1>10, SchemaTyped, VersionAssumption, StmtsAssumption DEF ReadVersion
  <2> DEFINE m == Schema.version * Stmts
  <2>2. m \in Nat /\ Top(p) \in Nat /\ m <= Top(p)
    BY <2>1, LaterIsLonger DEF SchemaType
  <2>3. Schema = [version |-> Schema.version, applied |-> 1..m]
    BY <1>0, <2>1 DEF SchemaType, SchemaWhole
  <2>4. /\ pc' = [pc EXCEPT ![p] = "applying"]
        /\ tx' = [tx EXCEPT ![p] = Schema] /\ next' = [next EXCEPT ![p] = m + 1]
        /\ Schema' = Schema /\ m' = m
    BY <1>10 DEF ReadVersion
  <2> HIDE DEF m, Schema
  <2>5. m + 1 - 1 = m /\ m + 1 \in m + 1..Top(p) + 1
    BY <2>2
  <2>6. ASSUME NEW q \in Procs, q # p PROVE pc'[q] \notin {"applying", "bumped"}
    BY <1>0, <1>10, <2>6 DEF ReadVersion, LockHeld
  <2>7. pc'[p] = "applying" /\ tx'[p] = Schema /\ next'[p] = m + 1
    BY <1>0, <2>4
  <2>8. /\ Schema'.version <= Version[p]
        /\ tx'[p] = [version |-> Schema'.version, applied |-> 1..next'[p] - 1]
        /\ next'[p] \in m' + 1..Top(p) + 1
    <3>1. Schema' = Schema /\ m' = m
      BY <2>4
    <3>2. next'[p] - 1 = m
      BY <2>2, <2>7
    <3>3. tx'[p] = [version |-> Schema'.version, applied |-> 1..next'[p] - 1]
      BY <2>3, <2>7, <3>1, <3>2
    <3> QED BY <2>1, <2>5, <2>7, <3>1, <3>3
  <2> QED BY <2>6, <2>7, <2>8 DEF Transaction, m
<1>11. ASSUME NEW p \in Procs, RefuseNewer(p) PROVE Transaction'
  BY <1>0, <1>11 DEF RefuseNewer, Transaction
<1>12. ASSUME NEW p \in Procs, Apply(p) PROVE Transaction'
  <2>1. /\ tx[p] = [version |-> Schema.version, applied |-> 1..next[p] - 1]
        /\ next[p] \in Schema.version * Stmts + 1..Top(p) + 1
        /\ next[p] \in Nat \ {0} /\ next[p] <= Top(p)
        /\ Schema.version <= Version[p]
    BY <1>0, <1>12 DEF Apply, Transaction
  <2>2. Schema.version * Stmts \in Nat /\ Top(p) \in Nat
    BY <1>0, SchemaTyped, VersionAssumption, StmtsAssumption, LaterIsLonger, <2>1
  <2>3. next[p] \notin tx[p].applied
    BY <2>1
  <2>4. /\ tx' = [tx EXCEPT ![p].applied = @ \cup {next[p]}]
        /\ next' = [next EXCEPT ![p] = @ + 1]
        /\ UNCHANGED <<pc, schemas>>
    BY <1>12, <2>3 DEF Apply
  <2>5. (1..next[p] - 1) \cup {next[p]} = 1..next[p] + 1 - 1
    BY <2>1
  <2>6. tx'[p] = [version |-> Schema.version, applied |-> 1..next[p] + 1 - 1]
    <3>1. tx' = [tx EXCEPT ![p] = [tx[p] EXCEPT !.applied = 1..next[p] + 1 - 1]]
      <4>1. tx[p].applied \cup {next[p]} = 1..next[p] + 1 - 1
        BY <2>1, <2>5
      <4> QED BY <2>4, <4>1
    <3>2. tx'[p] = [tx[p] EXCEPT !.applied = 1..next[p] + 1 - 1]
      BY <1>0, <3>1
    <3> QED BY <2>1, <3>2
  <2>7. next'[p] = next[p] + 1
        /\ next[p] + 1 \in Schema.version * Stmts + 1..Top(p) + 1
    BY <1>0, <2>1, <2>2, <2>4
  <2>8. pc[p] = "applying"
    BY <1>12 DEF Apply
  <2>9. ASSUME NEW q \in Procs, q # p PROVE pc'[q] \notin {"applying", "bumped"}
    BY <1>0, <2>4, <2>8, <2>9 DEF LockHeld
  <2> QED BY <2>1, <2>4, <2>6, <2>7, <2>8, <2>9 DEF Transaction
<1>13. ASSUME NEW p \in Procs, SetVersion(p) PROVE Transaction'
  <2>1. /\ tx[p] = [version |-> Schema.version, applied |-> 1..next[p] - 1]
        /\ next[p] \in Schema.version * Stmts + 1..Top(p) + 1
        /\ next[p] \in Nat \ {0} /\ next[p] > Top(p)
        /\ Schema.version <= Version[p]
    BY <1>0, <1>13 DEF SetVersion, Transaction
  <2>2. Schema.version \in Nat /\ Version[p] \in Nat /\ Top(p) \in Nat
        /\ Schema.version * Stmts \in Nat
    BY <1>0, SchemaTyped, VersionAssumption, StmtsAssumption, LaterIsLonger, <2>1
  <2>3. next[p] - 1 = Top(p)
    BY <2>1, <2>2
  <2>4. (IF tx[p].version < Version[p] THEN Version[p] ELSE tx[p].version) = Version[p]
    BY <2>1, <2>2
  <2>5. tx' = [tx EXCEPT ![p] = [tx[p] EXCEPT !.version = Version[p]]]
    BY <2>4, <1>13 DEF SetVersion
  <2>6. tx'[p] = [version |-> Version[p], applied |-> 1..Top(p)]
    BY <1>0, <2>1, <2>3, <2>5
  <2>7. pc' = [pc EXCEPT ![p] = "bumped"] /\ UNCHANGED schemas /\ pc[p] = "applying"
    BY <1>13 DEF SetVersion
  <2>8. ASSUME NEW q \in Procs, q # p PROVE pc'[q] \notin {"applying", "bumped"}
    BY <1>0, <2>7, <2>8 DEF LockHeld
  <2> QED BY <1>0, <2>1, <2>6, <2>7, <2>8 DEF Transaction
<1>14. ASSUME NEW p \in Procs, Commit(p) PROVE Transaction'
  <2>1. ASSUME NEW q \in Procs PROVE pc'[q] \notin {"applying", "bumped"}
    BY <1>0, <1>14 DEF Commit, LockHeld
  <2> QED BY <2>1 DEF Transaction
<1>15. ASSUME NEW p \in Procs, Fail(p) PROVE Transaction'
  BY <1>0, <1>15 DEF Fail, Transaction
<1>16. ASSUME NEW p \in Procs, Crash(p) PROVE Transaction'
  BY <1>0, <1>16 DEF Crash, Transaction
<1>17. ASSUME NEW p \in Procs, Close(p) PROVE Transaction'
  BY <1>0, <1>17 DEF Close, Transaction
<1>18. ASSUME NEW n \in synced..Len(schemas), PowerLoss(n) PROVE Transaction'
  BY <1>0, <1>18 DEF PowerLoss, Transaction
<1>19. ASSUME NEW p \in Procs, Share(p) PROVE Transaction'
  BY <1>0, <1>19 DEF Share, Transaction
<1>20. ASSUME NEW p \in Procs, Collide(p) PROVE Transaction'
  BY <1>0, <1>20 DEF Collide, Transaction
<1> QED
  BY <1>1, <1>2, <1>3, <1>4, <1>5, <1>6, <1>7, <1>8, <1>9, <1>10, <1>11, <1>12,
     <1>13, <1>14, <1>15, <1>16, <1>17, <1>18, <1>19, <1>20
  DEF Next, Initialize, Migrate

\* A newer schema has all that an older binary knows of.
LEMMA ServedKept ==
  ASSUME IInv, [Next]_vars
  PROVE  ServedSchema'
<1> USE DEF file, history, Goto, Release, TypeOK, Opening, Holding, ServedSchema
<1>0. TypeOK /\ ServedSchema /\ Transaction
  BY DEF IInv
<1>1. CASE UNCHANGED vars
  BY <1>0, <1>1 DEF vars, Schema
<1>2. ASSUME NEW p \in Procs, Start(p) PROVE ServedSchema'
  BY <1>0, <1>2 DEF Start, Try, Schema
<1>3. ASSUME NEW p \in Procs, Connect(p) PROVE ServedSchema'
  BY <1>0, <1>3 DEF Connect, Schema
<1>4. ASSUME NEW p \in Procs, Flip(p) PROVE ServedSchema'
  BY <1>0, <1>4 DEF Flip, Schema
<1>5. ASSUME NEW p \in Procs, Flipped(p) PROVE ServedSchema'
  BY <1>0, <1>5 DEF Flipped, Schema
<1>6. ASSUME NEW p \in Procs, FlipRefused(p) PROVE ServedSchema'
  BY <1>0, <1>6 DEF FlipRefused, Busy, Schema
<1>7. ASSUME NEW p \in Procs, Retry(p) PROVE ServedSchema'
  BY <1>0, <1>7 DEF Retry, Try, Schema
<1>8. ASSUME NEW p \in Procs, Begin(p) PROVE ServedSchema'
  BY <1>0, <1>8 DEF Begin, Schema
<1>9. ASSUME NEW p \in Procs, BeginTimeout(p) PROVE ServedSchema'
  BY <1>0, <1>9 DEF BeginTimeout, Busy, Schema
<1>10. ASSUME NEW p \in Procs, ReadVersion(p) PROVE ServedSchema'
  BY <1>0, <1>10 DEF ReadVersion, Schema
<1>11. ASSUME NEW p \in Procs, RefuseNewer(p) PROVE ServedSchema'
  BY <1>0, <1>11 DEF RefuseNewer, Schema
<1>12. ASSUME NEW p \in Procs, Apply(p) PROVE ServedSchema'
  BY <1>0, <1>12 DEF Apply, Schema
<1>13. ASSUME NEW p \in Procs, SetVersion(p) PROVE ServedSchema'
  BY <1>0, <1>13 DEF SetVersion, Schema
<1>14. ASSUME NEW p \in Procs, Commit(p) PROVE ServedSchema'
  <2>1. /\ tx[p] = [version |-> Version[p], applied |-> 1..Top(p)]
        /\ Schema.version <= Version[p] /\ tx[p] \in SchemaType
        /\ Schema' = tx[p]
    BY <1>14, CommitsOwnVersion
  <2>3. ASSUME NEW q \in Procs, pc'[q] = "open"
        PROVE  Version[q] \in Nat /\ Version[p] \in Nat /\ Version[q] <= Version[p]
    <3>1. Version[q] \in Nat /\ Version[p] \in Nat /\ Schema.version \in Nat
      BY <1>0, VersionAssumption, SchemaTyped
    <3>2. q = p \/ pc[q] = "open"
      BY <1>0, <1>14, <2>3 DEF Commit
    <3>3. q = p \/ Schema.version >= Version[q]
      BY <1>0, <3>2
    <3> QED BY <2>1, <3>1, <3>3
  <2>4. ASSUME NEW q \in Procs, pc'[q] = "open" PROVE 1..Top(q) \subseteq 1..Top(p)
    <3>1. Top(q) \in Nat /\ Top(p) \in Nat /\ Top(q) <= Top(p)
      BY <2>3, <2>4, LaterIsLonger DEF Top
    <3> QED BY <3>1
  <2>5. Schema'.version = Version[p] /\ Schema'.applied = 1..Top(p)
    BY <2>1
  <2> QED BY <2>3, <2>4, <2>5
<1>15. ASSUME NEW p \in Procs, Fail(p) PROVE ServedSchema'
  BY <1>0, <1>15 DEF Fail, Schema
<1>16. ASSUME NEW p \in Procs, Crash(p) PROVE ServedSchema'
  BY <1>0, <1>16 DEF Crash, Schema
<1>17. ASSUME NEW p \in Procs, Close(p) PROVE ServedSchema'
  BY <1>0, <1>17 DEF Close, Schema
<1>18. ASSUME NEW n \in synced..Len(schemas), PowerLoss(n) PROVE ServedSchema'
  BY <1>0, <1>18 DEF PowerLoss, Schema
<1>19. ASSUME NEW p \in Procs, Share(p) PROVE ServedSchema'
  BY <1>0, <1>19 DEF Share, Schema
<1>20. ASSUME NEW p \in Procs, Collide(p) PROVE ServedSchema'
  BY <1>0, <1>20 DEF Collide, Schema
<1> QED
  BY <1>1, <1>2, <1>3, <1>4, <1>5, <1>6, <1>7, <1>8, <1>9, <1>10, <1>11, <1>12,
     <1>13, <1>14, <1>15, <1>16, <1>17, <1>18, <1>19, <1>20
  DEF Next, Initialize, Migrate

-----------------------------------------------------------------------------
(* The theorems. *)

\* The invariant holds of a file that does not exist yet.
LEMMA InitInv == Init => IInv
<1> SUFFICES ASSUME Init PROVE IInv
  OBVIOUS
<1> USE VersionAssumption, StmtsAssumption, AttemptsAssumption, MishapsAssumption,
        NoneAssumption DEF Init
<1>1. Blank \in SchemaType
  BY DEF Blank, SchemaType
<1>2. /\ schemas = <<Blank>> /\ schemas \in Seq(SchemaType) /\ Len(schemas) = 1
      /\ DOMAIN schemas = 1..1 /\ schemas[1] = Blank
  BY <1>1
<1>3. TypeOK
  BY <1>1, <1>2 DEF TypeOK
<1>4. \A p \in Procs : pc[p] = "off"
  OBVIOUS
<1>5. SchemaWhole
  <2>1. Stmts \in Nat /\ 0 * Stmts = 0 /\ 1..0 = {}
    OBVIOUS
  <2>2. Blank.version = 0 /\ Blank.applied = {}
    BY DEF Blank
  <2>3. Blank.version * Stmts = 0
    BY <2>1, <2>2
  <2>4. Blank.applied = 1..Blank.version * Stmts
    BY <2>1, <2>2, <2>3
  <2>5. ASSUME NEW i \in DOMAIN schemas PROVE schemas[i] = Blank
    BY <1>2
  <2> QED BY <2>4, <2>5 DEF SchemaWhole
<1>6. LockHeld /\ Connected /\ Race /\ NeverBroken
  BY <1>4 DEF LockHeld, Connected, Race, NeverBroken, Racing, Holding
<1>7. Patience /\ Transaction /\ ServedSchema
  BY <1>4 DEF Patience, Transaction, ServedSchema, Opening, Racing, Holding
<1> QED BY <1>3, <1>5, <1>6, <1>7 DEF IInv

LEMMA StepInv == IInv /\ [Next]_vars => IInv'
BY TypesKept, LockKept, ConnectedKept, RaceKept, PatienceKept, WholeKept,
   TransactionKept, NeverBrokenKept, ServedKept DEF IInv

\* Every reachable state satisfies the inductive invariant.
THEOREM Invariance == Spec => []IInv
BY InitInv, StepInv, PTL DEF Spec

\* The variables keep their types; the attempts never exceed initAttempts.
THEOREM TypeCorrect == Spec => []TypeOK
<1>1. IInv => TypeOK
  BY DEF IInv
<1> QED BY <1>1, Invariance, PTL

\* A partially applied migration is never observed: whichever releases open the
\* store at once, whatever fails and whatever a power cut takes back, what is
\* committed is the whole ladder up to its user_version (migrate's one
\* transaction).
THEOREM SchemaAlwaysWhole == Spec => []SchemaWhole
<1>1. IInv => SchemaWhole
  BY DEF IInv
<1> QED BY <1>1, Invariance, PTL

\* Concurrent first runs of migrate never fail on each other's tables.
THEOREM LadderNeverTripped == Spec => []NeverBroken
<1>1. IInv => NeverBroken
  BY DEF IInv
<1> QED BY <1>1, Invariance, PTL

\* A store that Open returned stays usable by the binary that opened it, also
\* after a newer one migrated it.
THEOREM AlwaysServed == Spec => []ServedSchema
<1>1. IInv => ServedSchema
  BY DEF IInv
<1> QED BY <1>1, Invariance, PTL

\* initialize gives up on a locked file only after all its attempts, and every one
\* that it began on a file in WAL mode cost a busy timeout: SQLITE_BUSY is
\* returned at once only to those who race on a new file.
THEOREM TurnedAwayWithCause == Spec => []LockedOutWithCause
<1>1. IInv => LockedOutWithCause
  <2> SUFFICES ASSUME IInv, NEW p \in Procs, pc[p] = "locked"
               PROVE  cold[p] + timeouts[p] >= Attempts
    BY DEF LockedOutWithCause
  <2>1. cold[p] \in Nat /\ timeouts[p] \in Nat /\ Attempts \in Nat
    BY AttemptsAssumption DEF IInv, TypeOK
  <2>2. Attempts <= cold[p] + timeouts[p]
    BY DEF IInv, Patience
  <2> QED BY <2>1, <2>2
<1> QED BY <1>1, Invariance, PTL

\* A store is opened at exactly the binary's schema version: migrate refuses a
\* newer one and climbs from an older one.
THEOREM OpensOwnVersion == Spec => OpensAtOwnVersion
<1> DEFINE A == \A p \in Procs : pc[p] # "open" /\ pc'[p] = "open" =>
                  schemas'[Len(schemas')].version = Version[p]
<1>1. ASSUME IInv, [Next]_vars, NEW p \in Procs, pc[p] # "open", pc'[p] = "open"
      PROVE  schemas'[Len(schemas')].version = Version[p]
  <2>1. pc \in [Procs -> {"off"} \cup Opening \cup Ended]
    BY <1>1 DEF IInv, TypeOK
  <2>2. Commit(p)
    BY <1>1, <2>1 DEF Next, Initialize, Migrate, vars, Goto, Start, Connect, Flip, Flipped,
       FlipRefused, Busy, Retry, Try, Share, Collide, Begin, BeginTimeout, ReadVersion, RefuseNewer, Apply,
       SetVersion, Commit, Fail, Crash, Close, PowerLoss
  <2>3. Schema' = tx[p] /\ tx[p] = [version |-> Version[p], applied |-> 1..Top(p)]
    BY <1>1, <2>2, CommitsOwnVersion
  <2>4. tx[p].version = Version[p]
    BY <2>3
  <2> QED BY <2>3, <2>4 DEF Schema
<1>2. IInv /\ [Next]_vars => [A]_vars
  BY <1>1
<1> QED BY <1>2, Invariance, PTL DEF Spec, OpensAtOwnVersion

\* Only a power cut takes a committed schema back; every other step keeps the
\* committed schemas and never lowers the version.
THEOREM VersionOnlyClimbs == Spec => VersionClimbs
<1> DEFINE A == Len(schemas') >= Len(schemas) =>
                  /\ schemas'[Len(schemas')].version >= Schema.version
                  /\ \A i \in DOMAIN schemas : schemas'[i] = schemas[i]
<1>1. ASSUME IInv, [Next]_vars, Len(schemas') >= Len(schemas)
      PROVE  /\ schemas'[Len(schemas')].version >= Schema.version
             /\ \A i \in DOMAIN schemas : schemas'[i] = schemas[i]
  <2>1. TypeOK /\ Schema.version \in Nat
        /\ Len(schemas) \in Nat \ {0} /\ DOMAIN schemas = 1..Len(schemas)
    BY <1>1, SchemaTyped DEF IInv
  <2>2. CASE schemas' = schemas
    BY <2>1, <2>2 DEF Schema
  <2>3. ASSUME NEW p \in Procs, Commit(p)
        PROVE  /\ schemas'[Len(schemas')].version >= Schema.version
               /\ \A i \in DOMAIN schemas : schemas'[i] = schemas[i]
    <3>1. /\ Schema' = tx[p] /\ tx[p] \in SchemaType
          /\ tx[p] = [version |-> Version[p], applied |-> 1..Top(p)]
          /\ Schema.version <= Version[p]
          /\ schemas' = schemas \/ schemas' = Append(schemas, tx[p])
      BY <1>1, <2>3, CommitsOwnVersion
    <3>2. \A i \in DOMAIN schemas : schemas'[i] = schemas[i]
      BY <2>1, <3>1, CommitProperties
    <3>3. Version[p] \in Nat /\ tx[p].version = Version[p]
      BY <3>1, VersionAssumption
    <3>4. tx[p].version >= Schema.version
      BY <2>1, <3>1, <3>3
    <3>5. schemas'[Len(schemas')] = tx[p]
      BY <3>1 DEF Schema
    <3> QED BY <3>2, <3>4, <3>5
  <2>4. ASSUME NEW n \in synced..Len(schemas), PowerLoss(n)
        PROVE  schemas' = SubSeq(schemas, 1, n) /\ n = Len(schemas)
    <3>1. n \in 1..Len(schemas)
      BY <2>1 DEF TypeOK
    <3>2. schemas' = SubSeq(schemas, 1, n) /\ Len(schemas') = n
      BY <2>1, <2>4, <3>1, PrefixProperties DEF PowerLoss
    <3>3. n >= Len(schemas)
      BY <1>1, <3>2
    <3>4. n = Len(schemas)
      <4>1. PICK l \in Nat : l = Len(schemas)
        BY <2>1
      <4>2. n \in 1..l /\ n >= l
        BY <3>1, <3>3, <4>1
      <4> QED BY <4>1, <4>2
    <3> QED BY <3>2, <3>4
  <2>5. ASSUME NEW n \in synced..Len(schemas), PowerLoss(n)
        PROVE  \A i \in DOMAIN schemas : schemas'[i] = schemas[i]
    <3>1. n = Len(schemas)
      BY <2>4, <2>5
    <3>2. n \in 1..Len(schemas)
      BY <2>1, <3>1
    <3> QED BY <2>1, <2>4, <2>5, <3>1, <3>2, PrefixProperties
  <2>6. ASSUME NEW n \in synced..Len(schemas), PowerLoss(n)
        PROVE  schemas'[Len(schemas')].version >= Schema.version
    <3>1. n = Len(schemas) /\ schemas' = SubSeq(schemas, 1, n)
      BY <2>4, <2>6
    <3>2. n \in 1..Len(schemas)
      BY <2>1, <3>1
    <3>3. Len(schemas') = Len(schemas)
      BY <2>1, <3>1, <3>2, PrefixProperties
    <3>4. schemas'[Len(schemas')] = Schema
      BY <2>1, <2>5, <2>6, <3>3 DEF Schema
    <3> QED BY <2>1, <3>4
  <2>7. \/ schemas' = schemas
        \/ \E p \in Procs : Commit(p)
        \/ \E n \in synced..Len(schemas) : PowerLoss(n)
    BY <1>1 DEF Next, Initialize, Migrate, vars, file, Start, Connect, Flip, Flipped,
       FlipRefused, Retry, Try, Share, Collide, Begin, BeginTimeout, ReadVersion, RefuseNewer, Apply,
       SetVersion, Fail, Crash, Close
  <2> QED BY <2>2, <2>3, <2>5, <2>6, <2>7
<1>2. IInv /\ [Next]_vars => [A]_vars
  BY <1>1
<1> QED BY <1>2, Invariance, PTL DEF Spec, VersionClimbs
-----------------------------------------------------------------------------
(* Opening implements what Store takes it for. *)

States == [p \in Procs |-> StateOf(pc[p])]

\* A process migrates in Store's terms exactly when it holds the write lock here.
LEMMA StatesOf ==
  /\ \A l : StateOf(l) = "migrating" <=> l \in Migrating
  /\ \A l : StateOf(l) \in {"down", "opening", "migrating", "up"}
BY DEF StateOf, Migrating

LEMMA LockShown ==
  ASSUME TypeOK, LockHeld
  PROVE  /\ \A p \in Procs : WriteLock = p <=> pc[p] \in Migrating
         /\ WriteLock \in Procs \cup {None}
         /\ lock = None => WriteLock = None
BY NoneAssumption DEF TypeOK, LockHeld, WriteLock, Migrating, Holding

\* What Store has and this module has not stays as it is.
LEMMA Framed ==
  /\ UNCHANGED <<S!file, S!calls>>
  /\ [p \in Procs |-> None]' = [p \in Procs |-> None]
BY DEF S!file, S!calls, S!got, NoCalls

\* One process moves: its state and the write lock move with it.
LEMMA Moved ==
  ASSUME TypeOK, LockHeld, TypeOK', LockHeld', NEW p \in Procs, NEW l, Goto(p, l)
  PROVE  /\ States' = [States EXCEPT ![p] = StateOf(l)]
         /\ WriteLock' = IF l \in Migrating THEN p
                         ELSE IF pc[p] \in Migrating THEN None ELSE WriteLock
<1>1. pc' = [pc EXCEPT ![p] = l] /\ DOMAIN pc = Procs
  BY DEF Goto, TypeOK
<1>2. States' = [States EXCEPT ![p] = StateOf(l)]
  BY <1>1 DEF States
<1>3. /\ \A q \in Procs : WriteLock = q <=> pc[q] \in Migrating
      /\ WriteLock \in Procs \cup {None}
  BY LockShown
<1>4. /\ \A q \in Procs : WriteLock' = q <=> pc'[q] \in Migrating
      /\ WriteLock' \in Procs \cup {None}
  <2> USE NoneAssumption DEF TypeOK, LockHeld, WriteLock, Migrating, Holding
  <2> QED OBVIOUS
<1>5. pc'[p] = l /\ \A q \in Procs \ {p} : pc'[q] = pc[q]
  BY <1>1
<1> QED BY <1>2, <1>3, <1>4, <1>5

\* The moves of a process in Store, and what the ones that take and give the
\* write lock need.
Moves == {<<"down", "opening">>, <<"opening", "migrating">>, <<"migrating", "up">>,
          <<"opening", "down">>, <<"migrating", "down">>, <<"up", "down">>}

LEMMA MoveRefines ==
  ASSUME TypeOK, LockHeld, TypeOK', LockHeld', NEW p \in Procs, NEW l, Goto(p, l),
         \/ StateOf(pc[p]) = StateOf(l)
         \/ <<StateOf(pc[p]), StateOf(l)>> \in Moves,
         pc[p] \notin Migrating /\ l \in Migrating => lock = None
  PROVE  [S!Next]_S!vars
<1>1. /\ States' = [States EXCEPT ![p] = StateOf(l)]
      /\ WriteLock' = IF l \in Migrating THEN p
                      ELSE IF pc[p] \in Migrating THEN None ELSE WriteLock
  BY Moved
<1>2. /\ StateOf(pc[p]) = "migrating" <=> pc[p] \in Migrating
      /\ StateOf(l) = "migrating" <=> l \in Migrating
  BY StatesOf
<1>3. /\ WriteLock = p <=> pc[p] \in Migrating
      /\ lock = None => WriteLock = None
  BY LockShown
<1>4. States[p] = StateOf(pc[p]) /\ DOMAIN States = Procs
  BY DEF States
<1>5. CASE StateOf(pc[p]) = StateOf(l)
  <2>1. States' = States /\ WriteLock' = WriteLock
    <3>1. States' = States
      BY <1>1, <1>4, <1>5 DEF States
    <3> QED BY <3>1, <1>1, <1>2, <1>3, <1>5
  <2> QED BY <2>1, Framed DEF S!vars, States
<1>6. CASE StateOf(pc[p]) = "down" /\ StateOf(l) = "opening"
  <2>1. S!Launch(p)
    BY <1>1, <1>2, <1>4, <1>6, Framed DEF S!Launch, States
  <2> QED BY <2>1 DEF S!Next, S!Process
<1>7. CASE StateOf(pc[p]) = "opening" /\ StateOf(l) = "migrating"
  <2>1. S!Migrate(p)
    BY <1>1, <1>2, <1>3, <1>4, <1>7, Framed DEF S!Migrate, States
  <2> QED BY <2>1 DEF S!Next, S!Process
<1>8. CASE StateOf(pc[p]) = "migrating" /\ StateOf(l) = "up"
  <2>1. S!Opened(p)
    BY <1>1, <1>2, <1>4, <1>8, Framed DEF S!Opened, States
  <2> QED BY <2>1 DEF S!Next, S!Process
<1>9. CASE StateOf(pc[p]) \in {"opening", "migrating"} /\ StateOf(l) = "down"
  <2>1. S!OpenFails(p)
    BY <1>1, <1>2, <1>3, <1>4, <1>9, Framed DEF S!OpenFails, States
  <2> QED BY <2>1 DEF S!Next, S!Process
<1>10. CASE StateOf(pc[p]) = "up" /\ StateOf(l) = "down"
  <2>1. S!Busy(p) = {}
    BY DEF S!Busy
  <2>2. S!Close(p)
    BY <1>1, <1>2, <1>4, <1>10, <2>1, Framed DEF S!Close, S!calls, S!got, NoCalls, States
  <2> QED BY <2>2 DEF S!Next, S!Process
<1>11. \/ StateOf(pc[p]) = StateOf(l)
       \/ StateOf(pc[p]) = "down" /\ StateOf(l) = "opening"
       \/ StateOf(pc[p]) = "opening" /\ StateOf(l) = "migrating"
       \/ StateOf(pc[p]) = "migrating" /\ StateOf(l) = "up"
       \/ StateOf(pc[p]) \in {"opening", "migrating"} /\ StateOf(l) = "down"
       \/ StateOf(pc[p]) = "up" /\ StateOf(l) = "down"
  BY DEF Moves
<1> QED BY <1>5, <1>6, <1>7, <1>8, <1>9, <1>10, <1>11

\* The power goes: every process is down in Store's terms.
LEMMA OutageRefines ==
  ASSUME TypeOK, LockHeld, TypeOK', LockHeld', NEW n, PowerLoss(n)
  PROVE  S!Next
<1>1. \A p \in Procs : pc'[p] \notin Opening \cup {"open"}
  BY DEF PowerLoss, Opening, Racing, Holding
<1>2. \A p \in Procs : StateOf(pc'[p]) = "down"
  BY <1>1 DEF StateOf, Opening, Racing, Holding, Migrating
<1>3. States' = [p \in Procs |-> "down"]
  BY <1>2 DEF States
<1>4. lock' = None
  BY DEF PowerLoss
<1>5. WriteLock' = None
  BY <1>4, NoneAssumption DEF WriteLock
<1>6. S!PowerLoss(0)
  <2>1. SubSeq(<<>>, 1, 0) = <<>> /\ Len(<<>>) = 0
    OBVIOUS
  <2>2. S!Rows(SubSeq(<<>>, 1, Len(<<>>))) = {}
    BY <2>1 DEF S!Rows
  <2> QED BY <1>3, <1>5, <2>1, <2>2, Framed DEF S!PowerLoss, NoCalls, S!got, S!Rows, States
<1>7. 0 \in 0..Len(<<>>)
  OBVIOUS
<1> QED BY <1>6, <1>7 DEF S!Next

LEMMA InitOpening == Init => S!Init
BY NoneAssumption DEF Init, S!Init, StateOf, Migrating, Opening, Racing, Holding, WriteLock, NoCalls,
   S!NoClasses

LEMMA StepOpening == IInv /\ IInv' /\ [Next]_vars => [S!Next]_S!vars
<1> SUFFICES ASSUME IInv, IInv', [Next]_vars PROVE [S!Next]_S!vars
  OBVIOUS
<1>0. TypeOK /\ LockHeld /\ TypeOK' /\ LockHeld'
  BY DEF IInv
<1> USE DEF StateOf, Migrating, Opening, Racing, Holding, Moves
<1>1. ASSUME NEW p \in Procs, Start(p) PROVE [S!Next]_S!vars
  BY <1>0, <1>1, MoveRefines DEF Start, Try
<1>2. ASSUME NEW p \in Procs,
             Connect(p) \/ Share(p) \/ Flip(p) \/ Collide(p) \/ Flipped(p) \/ Retry(p)
      PROVE  [S!Next]_S!vars
  BY <1>0, <1>2, MoveRefines DEF Connect, Share, Flip, Collide, Flipped, Retry, Try
<1>3. ASSUME NEW p \in Procs, FlipRefused(p) \/ BeginTimeout(p) PROVE [S!Next]_S!vars
  <2>1. CASE attempt[p] < Attempts
    BY <1>0, <1>3, <2>1, MoveRefines DEF FlipRefused, BeginTimeout, Busy
  <2>2. CASE ~(attempt[p] < Attempts)
    BY <1>0, <1>3, <2>2, MoveRefines DEF FlipRefused, BeginTimeout, Busy
  <2> QED BY <2>1, <2>2
<1>4. ASSUME NEW p \in Procs, Begin(p) PROVE [S!Next]_S!vars
  BY <1>0, <1>4, MoveRefines DEF Begin
<1>5. ASSUME NEW p \in Procs, ReadVersion(p) \/ RefuseNewer(p) \/ SetVersion(p) \/ Commit(p)
      PROVE  [S!Next]_S!vars
  BY <1>0, <1>5, MoveRefines DEF ReadVersion, RefuseNewer, SetVersion, Commit
<1>6. ASSUME UNCHANGED <<pc, lock>> PROVE [S!Next]_S!vars
  BY <1>6, Framed DEF S!vars, WriteLock
<1>7. ASSUME NEW p \in Procs, Apply(p) PROVE [S!Next]_S!vars
  <2>1. CASE next[p] \in tx[p].applied
    BY <1>0, <1>7, <2>1, MoveRefines DEF Apply
  <2>2. CASE next[p] \notin tx[p].applied
    BY <1>6, <1>7, <2>2 DEF Apply
  <2> QED BY <2>1, <2>2
<1>8. ASSUME NEW p \in Procs, Fail(p) \/ Crash(p) PROVE [S!Next]_S!vars
  BY <1>0, <1>8, MoveRefines DEF Fail, Crash
<1>9. ASSUME NEW p \in Procs, Close(p) PROVE [S!Next]_S!vars
  BY <1>0, <1>9, MoveRefines DEF Close
<1>10. ASSUME NEW n \in synced..Len(schemas), PowerLoss(n) PROVE [S!Next]_S!vars
  BY <1>0, <1>10, OutageRefines
<1>11. CASE UNCHANGED vars
  BY <1>6, <1>11 DEF vars
<1> QED BY <1>1, <1>2, <1>3, <1>4, <1>5, <1>7, <1>8, <1>9, <1>10, <1>11
    DEF Next, Initialize, Migrate

\* Opening, with its retries, releases, failures and power cuts, implements the
\* processes of Store: between the migration's BEGIN IMMEDIATE and its end nobody
\* else has the write lock, and no end leaves the lock taken.
THEOREM Refinement == Spec => ImplementsOpening
BY Invariance, InitOpening, StepOpening, PTL DEF Spec, ImplementsOpening, S!Spec
=============================================================================
