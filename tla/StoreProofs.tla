---------------------------- MODULE StoreProofs ----------------------------
(***************************************************************************)
(* Proofs about Store, for any calls, processes, observations and filters. *)
(***************************************************************************)
EXTENDS Store, QueryProofs, SequenceTheorems

-----------------------------------------------------------------------------
(* Rows, pages and tallies. *)

\* Appending a row adds it to the rows of the log and nothing else.
LEMMA RowsAppend ==
  ASSUME NEW S, NEW s \in Seq(S), NEW x \in S
  PROVE  Rows(Append(s, x)) = Rows(s) \cup {x}
<1> DEFINE t == Append(s, x)
<1>1. /\ t \in Seq(S) /\ Len(t) = Len(s) + 1 /\ Len(s) \in Nat
      /\ DOMAIN t = 1..Len(t) /\ DOMAIN s = 1..Len(s)
      /\ \A i \in 1..Len(s) : t[i] = s[i]
      /\ t[Len(s) + 1] = x
  BY AppendProperties, LenProperties
<1>2. ASSUME NEW r \in Rows(t) PROVE r \in Rows(s) \cup {x}
  <2>1. PICK i \in 1..Len(s) + 1 : r = t[i]
    BY <1>1 DEF Rows
  <2>2. CASE i \in 1..Len(s)
    BY <1>1, <2>1, <2>2 DEF Rows
  <2>3. CASE i = Len(s) + 1
    BY <1>1, <2>1, <2>3
  <2> QED BY <1>1, <2>1, <2>2, <2>3
<1>3. ASSUME NEW r \in Rows(s) PROVE r \in Rows(t)
  <2>1. PICK i \in 1..Len(s) : r = s[i]
    BY <1>1 DEF Rows
  <2>2. i \in DOMAIN t /\ r = t[i]
    BY <1>1, <2>1
  <2> QED BY <2>2 DEF Rows
<1>4. x \in Rows(t)
  BY <1>1 DEF Rows
<1> QED BY <1>2, <1>3, <1>4

\* A prefix and the rest of a log together hold the rows of the log.
LEMMA RowsSplit ==
  ASSUME NEW S, NEW s \in Seq(S), NEW n \in 0..Len(s)
  PROVE  /\ SubSeq(s, 1, n) \in Seq(S)
         /\ Len(SubSeq(s, 1, n)) = n
         /\ \A i \in 1..n : SubSeq(s, 1, n)[i] = s[i]
         /\ SubSeq(s, n + 1, Len(s)) \in Seq(S)
         /\ Rows(s) \subseteq Rows(SubSeq(s, 1, n)) \cup Rows(SubSeq(s, n + 1, Len(s)))
<1> DEFINE a == SubSeq(s, 1, n)
           b == SubSeq(s, n + 1, Len(s))
<1>1. Len(s) \in Nat /\ DOMAIN s = 1..Len(s) /\ n \in Nat /\ n <= Len(s)
  BY LenProperties
<1>2. \A i \in 1..Len(s) : s[i] \in S
  BY ElementOfSeq
<1>3. /\ a \in Seq(S) /\ Len(a) = n
      /\ \A i \in 1..n : a[i] = s[i]
  <2>1. \A i \in 1..n : s[i] \in S
    BY <1>1, <1>2
  <2>2. /\ a \in Seq(S) /\ Len(a) = IF 1 <= n THEN n - 1 + 1 ELSE 0
        /\ \A i \in 1..n - 1 + 1 : a[i] = s[1 + i - 1]
    BY <1>1, <2>1, SubSeqProperties
  <2> QED BY <1>1, <2>2
<1>4. /\ b \in Seq(S) /\ Len(b) = Len(s) - n
      /\ \A i \in 1..Len(s) - n : b[i] = s[n + i]
  <2>1. \A i \in n + 1..Len(s) : s[i] \in S
    BY <1>1, <1>2
  <2>2. \A l \in Nat : n <= l =>
          /\ l - (n + 1) + 1 = l - n
          /\ ~(n + 1 <= l) => l - n = 0
          /\ \A i \in 1..l - n : (n + 1) + i - 1 = n + i
    BY <1>1
  <2>3. n + 1 \in Int /\ Len(s) \in Int
    BY <1>1
  <2>4. /\ b \in Seq(S)
        /\ Len(b) = IF n + 1 <= Len(s) THEN Len(s) - (n + 1) + 1 ELSE 0
        /\ \A i \in 1..Len(s) - (n + 1) + 1 : b[i] = s[(n + 1) + i - 1]
    BY <2>1, <2>3, SubSeqProperties
  <2> HIDE DEF b
  <2>5. PICK l \in Nat : l = Len(s) /\ n <= l
    BY <1>1
  <2>6. /\ Len(b) = IF n + 1 <= l THEN l - (n + 1) + 1 ELSE 0
        /\ \A i \in 1..l - (n + 1) + 1 : b[i] = s[(n + 1) + i - 1]
    BY <2>4, <2>5
  <2>7. Len(b) = l - n /\ \A i \in 1..l - n : b[i] = s[n + i]
    BY <2>2, <2>5, <2>6
  <2> QED BY <2>4, <2>5, <2>7
<1>5. DOMAIN a = 1..n /\ DOMAIN b = 1..Len(s) - n
  BY <1>3, <1>4, LenProperties
<1>6. ASSUME NEW r \in Rows(s) PROVE r \in Rows(a) \cup Rows(b)
  <2>1. PICK i \in 1..Len(s) : r = s[i]
    BY <1>1 DEF Rows
  <2>2. CASE i <= n
    <3>1. i \in DOMAIN a /\ r = a[i]
      BY <1>1, <1>3, <1>5, <2>1, <2>2
    <3> QED BY <3>1 DEF Rows
  <2>3. CASE n < i
    <3> HIDE DEF b
    <3>1. i - n \in 1..Len(s) - n /\ n + (i - n) = i
      BY <1>1, <2>1, <2>3
    <3>2. i - n \in DOMAIN b /\ r = b[i - n]
      BY <1>4, <1>5, <2>1, <3>1
    <3> QED BY <3>2 DEF Rows
  <2> QED BY <1>1, <2>1, <2>2, <2>3
<1> QED BY <1>3, <1>4, <1>6

\* The rows of a log are finitely many and of the type of its elements.
LEMMA RowsType ==
  ASSUME NEW S, NEW s \in Seq(S)
  PROVE  Rows(s) \subseteq S /\ IsFiniteSet(Rows(s))
<1>1. Len(s) \in Nat /\ s \in [1..Len(s) -> S] /\ DOMAIN s = 1..Len(s)
  BY LenProperties
<1>2. Rows(s) \subseteq S
  BY <1>1 DEF Rows
<1>3. s \in Surjection(1..Len(s), Rows(s))
  BY <1>1 DEF Surjection, Rows
<1>4. IsFiniteSet(1..Len(s))
  BY <1>1, FS_Interval
<1> QED BY <1>2, <1>3, <1>4, FS_Surjection

\* What a review computes from finitely many rows has the type of an answer.
LEMMA AnswerType ==
  ASSUME NEW f, NEW rows, IsFiniteSet(rows)
  PROVE  /\ Page(f, rows) \subseteq rows
         /\ Total(f, rows) \in Nat
         /\ Tally(f, rows) \in [DOMAIN Tally(f, rows) -> Nat]
<1>1. Where(f, rows) \subseteq rows /\ IsFiniteSet(Where(f, rows))
  BY FS_Subset DEF Where
<1>2. \A k : Cardinality({r \in Where(f, rows) : r.obs.class = k}) \in Nat
  BY <1>1, FS_Subset, FS_CardinalityType
<1> QED BY <1>1, <1>2, FS_CardinalityType DEF Page, Total, Tally

-----------------------------------------------------------------------------
(* The inductive invariant, one conjunct at a time. *)

\* A timed-out or refused write is one of the ways to give up.
LEMMA ErrorsGiveUp ==
  ASSUME NEW c \in Calls
  PROVE  BusyTimeout(c) \/ Conflict(c) => GiveUp(c)
BY DEF BusyTimeout, Conflict, GiveUp, InFlight, Writing

LEMMA InitInv == Init => IInv
<1> SUFFICES ASSUME Init PROVE IInv
  OBVIOUS
<1>1. \A c \in Calls : ask[c] = None /\ pc[c] = "idle"
  BY DEF Init
<1>2. Rows(log) = {} /\ Len(log) = 0 /\ log \in Seq(Row)
  BY DEF Init, Rows
<1>3. TypeOK
  BY <1>2, FS_EmptySet DEF Init, TypeOK, NoClasses
<1>4. Held
  BY ActorsAssumption DEF Init, Held, InFlight, Writing, Reading
<1>5. UniqueIds /\ AcknowledgedKept /\ Flushed
  BY <1>1, <1>2 DEF Init, UniqueIds, AcknowledgedKept, Recorded, Flushed
<1>6. Stamped /\ Entered /\ Pinned
  BY <1>1 DEF Stamped, Entered, Pinned, Writing, Reading
<1>7. Snapshots
  BY <1>1 DEF Init, Snapshots, Sortable
<1> QED BY <1>3, <1>4, <1>5, <1>6, <1>7 DEF IInv

LEMMA TypeStep ==
  ASSUME IInv, [Next]_vars
  PROVE  TypeOK'
<1> USE DEF TypeOK, file, got, calls, Goto
<1>0. TypeOK /\ Stamped /\ Flushed
  BY DEF IInv
<1>1. CASE UNCHANGED vars
  BY <1>0, <1>1 DEF vars
<1>2. ASSUME NEW p \in Procs, Launch(p) \/ Migrate(p) \/ Opened(p) \/ OpenFails(p)
      PROVE  TypeOK'
  BY <1>0, <1>2 DEF Launch, Migrate, Opened, OpenFails
<1>3. ASSUME NEW p \in Procs, Close(p) PROVE TypeOK'
  <2>1. Len(log) \in Nat
    BY <1>0, LenProperties
  <2> QED BY <1>0, <1>3, <2>1 DEF Close
<1>4. ASSUME NEW p \in Procs, Crash(p) PROVE TypeOK'
  BY <1>0, <1>4 DEF Crash, Done
<1>5. ASSUME NEW n \in synced..Len(log), PowerLoss(n) PROVE TypeOK'
  <2>1. n \in 0..Len(log)
    BY <1>0, LenProperties
  <2>2. /\ SubSeq(log, 1, n) \in Seq(Row)
        /\ SubSeq(log, n + 1, Len(log)) \in Seq(Row)
    BY <1>0, <2>1, RowsSplit
  <2>3. Rows(SubSeq(log, n + 1, Len(log))) \subseteq Row
    BY <2>2, RowsType
  <2> QED BY <1>0, <1>5, <2>1, <2>2, <2>3 DEF PowerLoss, Done
<1>6. ASSUME Checkpoint PROVE TypeOK'
  BY <1>0, <1>6, LenProperties DEF Checkpoint
<1>7. ASSUME NEW c \in Calls, NEW p \in Procs, NEW o \in Observations,
             NEW t \in Times, NEW n \in Suffixes, CallRecord(c, p, o, t, n)
      PROVE  TypeOK'
  BY <1>0, <1>7 DEF CallRecord, Records, Row, InFlight, Writing
<1>8. ASSUME NEW c \in Calls, NEW p \in Procs, NEW f \in Filters, CallReview(c, p, f)
      PROVE  TypeOK'
  <2>1. Rows(log) \subseteq Row
    BY <1>0, RowsType
  <2> QED BY <1>0, <1>8, <2>1 DEF CallReview, Reviews, InFlight, Reading
<1>9. ASSUME NEW c \in Calls, GetConn(c) \/ GetLock(c) \/ Acknowledge(c) \/ CloseRows(c)
      PROVE  TypeOK'
  <2>1. CASE GetConn(c)
    BY <1>0, <2>1 DEF GetConn, InFlight, Writing
  <2>2. CASE GetLock(c)
    BY <1>0, <2>2 DEF GetLock, InFlight, Writing
  <2>3. CASE Acknowledge(c)
    BY <1>0, <2>3 DEF Acknowledge, Done
  <2>4. CASE CloseRows(c)
    BY <1>0, <2>4 DEF CloseRows, InFlight, Reading
  <2> QED BY <1>9, <2>1, <2>2, <2>3, <2>4
<1>10. ASSUME NEW c \in Calls, Commit(c) PROVE TypeOK'
  <2>1. rec[c] \in Row
    BY <1>0, <1>10 DEF Commit, Stamped, Writing
  <2>2. Append(log, rec[c]) \in Seq(Row)
    BY <1>0, <2>1, AppendProperties
  <2> QED BY <1>0, <1>10, <2>2 DEF Commit, InFlight, Writing
<1>11. ASSUME NEW c \in Calls, BusyTimeout(c) \/ Conflict(c) \/ GiveUp(c)
       PROVE  TypeOK'
  BY <1>0, <1>11, ErrorsGiveUp DEF GiveUp, Abandon, Done
<1>12. ASSUME NEW c \in Calls, QueryPage(c) PROVE TypeOK'
  <2>1. Rows(log) \subseteq Row /\ IsFiniteSet(Rows(log))
    BY <1>0, RowsType
  <2>2. Page(Filter(c), Rows(log)) \subseteq Row
    BY <2>1, AnswerType
  <2> QED BY <1>0, <1>12, <2>1, <2>2 DEF QueryPage, InFlight, Reading
<1>13. ASSUME NEW c \in Calls, QueryCount(c) PROVE TypeOK'
  <2>1. Total(Filter(c), view[c]) \in Nat
    BY <1>0, AnswerType
  <2> QED BY <1>0, <1>13, <2>1 DEF QueryCount, InFlight, Reading
<1>14. ASSUME NEW c \in Calls, QueryClasses(c) PROVE TypeOK'
  <2>1. Tally(Filter(c), view[c]) \in [DOMAIN Tally(Filter(c), view[c]) -> Nat]
    BY <1>0, AnswerType
  <2> QED BY <1>0, <1>14, <2>1 DEF QueryClasses, Done
<1> QED
  BY <1>1, <1>2, <1>3, <1>4, <1>5, <1>6, <1>7, <1>8, <1>9, <1>10, <1>11, <1>12,
     <1>13, <1>14
  DEF Next, Process, Ask, Write, Read

LEMMA HeldStep ==
  ASSUME IInv, [Next]_vars
  PROVE  Held'
<1> USE DEF Held, file, got, calls, Goto, InFlight, Writing, Reading
<1>0. TypeOK /\ Held
  BY DEF IInv
<1> USE ActorsAssumption DEF TypeOK
<1>1. CASE UNCHANGED vars
  BY <1>0, <1>1 DEF vars
<1>2. ASSUME NEW p \in Procs, Launch(p) PROVE Held'
  BY <1>0, <1>2 DEF Launch
<1>3. ASSUME NEW p \in Procs, Migrate(p) PROVE Held'
  BY <1>0, <1>3 DEF Migrate
<1>4. ASSUME NEW p \in Procs, Opened(p) PROVE Held'
  BY <1>0, <1>4 DEF Opened
<1>5. ASSUME NEW p \in Procs, OpenFails(p) PROVE Held'
  BY <1>0, <1>5 DEF OpenFails
<1>6. ASSUME NEW p \in Procs, Close(p) PROVE Held'
  BY <1>0, <1>6 DEF Close, Busy
<1>7. ASSUME NEW p \in Procs, Crash(p) PROVE Held'
  BY <1>0, <1>7 DEF Crash, Busy
<1>8. ASSUME NEW n \in synced..Len(log), PowerLoss(n) PROVE Held'
  BY <1>0, <1>8 DEF PowerLoss
<1>9. CASE Checkpoint
  BY <1>0, <1>9 DEF Checkpoint
<1>10. ASSUME NEW c \in Calls, NEW p \in Procs, NEW o \in Observations,
              NEW t \in Times, NEW n \in Suffixes, CallRecord(c, p, o, t, n)
       PROVE  Held'
  BY <1>0, <1>10 DEF CallRecord
<1>11. ASSUME NEW c \in Calls, NEW p \in Procs, NEW f \in Filters, CallReview(c, p, f)
       PROVE  Held'
  BY <1>0, <1>11 DEF CallReview
<1>12. ASSUME NEW c \in Calls, GetConn(c) PROVE Held'
  BY <1>0, <1>12 DEF GetConn
<1>13. ASSUME NEW c \in Calls, GetLock(c) PROVE Held'
  BY <1>0, <1>13 DEF GetLock
<1>14. ASSUME NEW c \in Calls, Commit(c) PROVE Held'
  BY <1>0, <1>14 DEF Commit
<1>15. ASSUME NEW c \in Calls, Acknowledge(c) PROVE Held'
  BY <1>0, <1>15 DEF Acknowledge
<1>16. ASSUME NEW c \in Calls, BusyTimeout(c) \/ Conflict(c) \/ GiveUp(c)
       PROVE  Held'
  <2>1. pc[c] \in InFlight /\ Abandon(c)
    BY <1>16, ErrorsGiveUp DEF GiveUp
  <2> USE <1>0, <2>1 DEF Abandon
  <2>2. \A d \in Calls : lock' = d <=> pc'[d] = "writing"
    OBVIOUS
  <2>3. \A p \in Procs : lock' = p <=> state'[p] = "migrating"
    OBVIOUS
  <2>4. \A p \in Procs, d \in Calls :
          wconn'[p] = d <=> /\ pc'[d] \in {"connected", "writing", "committed"}
                            /\ proc'[d] = p
    OBVIOUS
  <2>5. \A d \in Calls : pc'[d] \in InFlight => /\ proc'[d] \in Procs
                                               /\ state'[proc'[d]] = "up"
    OBVIOUS
  <2> QED BY <2>2, <2>3, <2>4, <2>5
<1>17. ASSUME NEW c \in Calls, QueryPage(c) PROVE Held'
  BY <1>0, <1>17 DEF QueryPage
<1>18. ASSUME NEW c \in Calls, CloseRows(c) PROVE Held'
  BY <1>0, <1>18 DEF CloseRows
<1>19. ASSUME NEW c \in Calls, QueryCount(c) PROVE Held'
  BY <1>0, <1>19 DEF QueryCount
<1>20. ASSUME NEW c \in Calls, QueryClasses(c) PROVE Held'
  BY <1>0, <1>20 DEF QueryClasses
<1> QED
  BY <1>1, <1>2, <1>3, <1>4, <1>5, <1>6, <1>7, <1>8, <1>9, <1>10, <1>11, <1>12,
     <1>13, <1>14, <1>15, <1>16, <1>17, <1>18, <1>19, <1>20
  DEF Next, Process, Ask, Write, Read

LEMMA StampedStep ==
  ASSUME IInv, [Next]_vars
  PROVE  Stamped'
<1> USE DEF Stamped, TypeOK, file, got, calls, Goto, InFlight, Writing, Reading
<1>0. TypeOK /\ Stamped
  BY DEF IInv
<1>1. CASE UNCHANGED vars
  BY <1>0, <1>1 DEF vars
<1>2. ASSUME NEW p \in Procs, Launch(p) PROVE Stamped'
  BY <1>0, <1>2 DEF Launch
<1>3. ASSUME NEW p \in Procs, Migrate(p) PROVE Stamped'
  BY <1>0, <1>3 DEF Migrate
<1>4. ASSUME NEW p \in Procs, Opened(p) PROVE Stamped'
  BY <1>0, <1>4 DEF Opened
<1>5. ASSUME NEW p \in Procs, OpenFails(p) PROVE Stamped'
  BY <1>0, <1>5 DEF OpenFails
<1>6. ASSUME NEW p \in Procs, Close(p) PROVE Stamped'
  BY <1>0, <1>6 DEF Close
<1>7. ASSUME NEW p \in Procs, Crash(p) PROVE Stamped'
  BY <1>0, <1>7 DEF Crash, Busy, Done
<1>8. ASSUME NEW n \in synced..Len(log), PowerLoss(n) PROVE Stamped'
  BY <1>0, <1>8 DEF PowerLoss
<1>9. CASE Checkpoint
  BY <1>0, <1>9 DEF Checkpoint
<1>10. ASSUME NEW c \in Calls, NEW p \in Procs, NEW o \in Observations,
              NEW t \in Times, NEW n \in Suffixes, CallRecord(c, p, o, t, n)
       PROVE  Stamped'
  <2>1. /\ ask'[c] = [op |-> "record", obs |-> o] /\ rec'[c] = Stamp(t, n, o)
        /\ \A d \in Calls \ {c} : /\ pc'[d] = pc[d] /\ ask'[d] = ask[d]
                                 /\ rec'[d] = rec[d]
    BY <1>0, <1>10 DEF CallRecord
  <2>2. ask'[c] \in Records /\ Stamp(t, n, o) \in Row /\ Stamp(t, n, o).obs = o
    BY <2>1 DEF Records, Stamp, Row
  <2>3. rec'[c] \in Row /\ ask'[c] \in Records /\ rec'[c].obs = ask'[c].obs
    BY <2>1, <2>2
  <2>4. ASSUME NEW d \in Calls \ {c}, pc'[d] \in Writing \cup {"recorded"}
        PROVE  rec'[d] \in Row /\ ask'[d] \in Records /\ rec'[d].obs = ask'[d].obs
    BY <1>0, <2>1, <2>4
  <2> QED BY <2>3, <2>4
<1>11. ASSUME NEW c \in Calls, NEW p \in Procs, NEW f \in Filters, CallReview(c, p, f)
       PROVE  Stamped'
  BY <1>0, <1>11 DEF CallReview
<1>12. ASSUME NEW c \in Calls, GetConn(c) PROVE Stamped'
  BY <1>0, <1>12 DEF GetConn
<1>13. ASSUME NEW c \in Calls, GetLock(c) PROVE Stamped'
  BY <1>0, <1>13 DEF GetLock
<1>14. ASSUME NEW c \in Calls, Commit(c) PROVE Stamped'
  BY <1>0, <1>14 DEF Commit
<1>15. ASSUME NEW c \in Calls, Acknowledge(c) PROVE Stamped'
  BY <1>0, <1>15 DEF Acknowledge
<1>16. ASSUME NEW c \in Calls, BusyTimeout(c) \/ Conflict(c) \/ GiveUp(c)
       PROVE  Stamped'
  <2>1. pc[c] \in InFlight /\ Abandon(c)
    BY <1>16, ErrorsGiveUp DEF GiveUp
  <2> QED BY <1>0, <2>1 DEF Abandon
<1>17. ASSUME NEW c \in Calls, QueryPage(c) PROVE Stamped'
  BY <1>0, <1>17 DEF QueryPage
<1>18. ASSUME NEW c \in Calls, CloseRows(c) PROVE Stamped'
  BY <1>0, <1>18 DEF CloseRows
<1>19. ASSUME NEW c \in Calls, QueryCount(c) PROVE Stamped'
  BY <1>0, <1>19 DEF QueryCount
<1>20. ASSUME NEW c \in Calls, QueryClasses(c) PROVE Stamped'
  BY <1>0, <1>20 DEF QueryClasses
<1> QED
  BY <1>1, <1>2, <1>3, <1>4, <1>5, <1>6, <1>7, <1>8, <1>9, <1>10, <1>11, <1>12,
     <1>13, <1>14, <1>15, <1>16, <1>17, <1>18, <1>19, <1>20
  DEF Next, Process, Ask, Write, Read

LEMMA PinnedStep ==
  ASSUME IInv, [Next]_vars
  PROVE  Pinned'
<1> USE DEF Pinned, Filter, TypeOK, file, got, calls, Goto, InFlight, Writing, Reading
<1>0. TypeOK /\ Pinned /\ Stamped
  BY DEF IInv
<1>1. CASE UNCHANGED vars
  BY <1>0, <1>1 DEF vars
<1>2. ASSUME NEW p \in Procs, Launch(p) PROVE Pinned'
  BY <1>0, <1>2 DEF Launch
<1>3. ASSUME NEW p \in Procs, Migrate(p) PROVE Pinned'
  BY <1>0, <1>3 DEF Migrate
<1>4. ASSUME NEW p \in Procs, Opened(p) PROVE Pinned'
  BY <1>0, <1>4 DEF Opened
<1>5. ASSUME NEW p \in Procs, OpenFails(p) PROVE Pinned'
  BY <1>0, <1>5 DEF OpenFails
<1>6. ASSUME NEW p \in Procs, Close(p) PROVE Pinned'
  BY <1>0, <1>6 DEF Close
<1>7. ASSUME NEW p \in Procs, Crash(p) PROVE Pinned'
  BY <1>0, <1>7 DEF Crash, Busy, Done
<1>8. ASSUME NEW n \in synced..Len(log), PowerLoss(n) PROVE Pinned'
  BY <1>0, <1>8 DEF PowerLoss
<1>9. CASE Checkpoint
  BY <1>0, <1>9 DEF Checkpoint
<1>10. ASSUME NEW c \in Calls, NEW p \in Procs, NEW o \in Observations,
              NEW t \in Times, NEW n \in Suffixes, CallRecord(c, p, o, t, n)
       PROVE  Pinned'
  BY <1>0, <1>10 DEF CallRecord
<1>11. ASSUME NEW c \in Calls, NEW p \in Procs, NEW f \in Filters, CallReview(c, p, f)
       PROVE  Pinned'
  BY <1>0, <1>11 DEF CallReview, Reviews
<1>12. ASSUME NEW c \in Calls, GetConn(c) PROVE Pinned'
  BY <1>0, <1>12 DEF GetConn
<1>13. ASSUME NEW c \in Calls, GetLock(c) PROVE Pinned'
  BY <1>0, <1>13 DEF GetLock
<1>14. ASSUME NEW c \in Calls, Commit(c) PROVE Pinned'
  BY <1>0, <1>14 DEF Commit
<1>15. ASSUME NEW c \in Calls, Acknowledge(c) PROVE Pinned'
  BY <1>0, <1>15 DEF Acknowledge
<1>16. ASSUME NEW c \in Calls, BusyTimeout(c) \/ Conflict(c) \/ GiveUp(c)
       PROVE  Pinned'
  <2>1. pc[c] \in InFlight /\ Abandon(c)
    BY <1>16, ErrorsGiveUp DEF GiveUp
  <2> QED BY <1>0, <2>1 DEF Abandon
<1>17. ASSUME NEW c \in Calls, QueryPage(c) PROVE Pinned'
  BY <1>0, <1>17 DEF QueryPage
<1>18. ASSUME NEW c \in Calls, CloseRows(c) PROVE Pinned'
  BY <1>0, <1>18 DEF CloseRows
<1>19. ASSUME NEW c \in Calls, QueryCount(c) PROVE Pinned'
  BY <1>0, <1>19 DEF QueryCount
<1>20. ASSUME NEW c \in Calls, QueryClasses(c) PROVE Pinned'
  BY <1>0, <1>20 DEF QueryClasses
<1> QED
  BY <1>1, <1>2, <1>3, <1>4, <1>5, <1>6, <1>7, <1>8, <1>9, <1>10, <1>11, <1>12,
     <1>13, <1>14, <1>15, <1>16, <1>17, <1>18, <1>19, <1>20
  DEF Next, Process, Ask, Write, Read

\* How a step treats records that have reached the log: which calls can be in
\* "committed" and "recorded" after it, and the two steps that change the rows.
RecordFrame ==
  /\ \A c \in Calls : pc'[c] = "recorded" =>
       rec'[c] = rec[c] /\ pc[c] \in {"committed", "recorded"}
  /\ \A c \in Calls : pc'[c] = "committed" =>
       rec'[c] = rec[c] /\ (pc[c] = "committed" \/ Commit(c))
  /\ \/ UNCHANGED <<log, lost>>
     \/ \E c \in Calls : Commit(c)
     \/ \E n \in synced..Len(log) : PowerLoss(n)

LEMMA RecordFrameStep ==
  ASSUME IInv, [Next]_vars
  PROVE  RecordFrame
<1> USE DEF RecordFrame, TypeOK, file, got, calls, Goto, InFlight, Writing, Reading
<1>0. TypeOK
  BY DEF IInv
<1>1. CASE UNCHANGED vars
  BY <1>0, <1>1 DEF vars
<1>2. ASSUME NEW p \in Procs, Launch(p) PROVE RecordFrame
  BY <1>0, <1>2 DEF Launch
<1>3. ASSUME NEW p \in Procs, Migrate(p) PROVE RecordFrame
  BY <1>0, <1>3 DEF Migrate
<1>4. ASSUME NEW p \in Procs, Opened(p) PROVE RecordFrame
  BY <1>0, <1>4 DEF Opened
<1>5. ASSUME NEW p \in Procs, OpenFails(p) PROVE RecordFrame
  BY <1>0, <1>5 DEF OpenFails
<1>6. ASSUME NEW p \in Procs, Close(p) PROVE RecordFrame
  BY <1>0, <1>6 DEF Close
<1>7. ASSUME NEW p \in Procs, Crash(p) PROVE RecordFrame
  BY <1>0, <1>7 DEF Crash
<1>8. ASSUME NEW n \in synced..Len(log), PowerLoss(n) PROVE RecordFrame
  BY <1>0, <1>8 DEF PowerLoss
<1>9. CASE Checkpoint
  BY <1>0, <1>9 DEF Checkpoint
<1>10. ASSUME NEW c \in Calls, NEW p \in Procs, NEW o \in Observations,
              NEW t \in Times, NEW n \in Suffixes, CallRecord(c, p, o, t, n)
       PROVE  RecordFrame
  BY <1>0, <1>10 DEF CallRecord
<1>11. ASSUME NEW c \in Calls, NEW p \in Procs, NEW f \in Filters, CallReview(c, p, f)
       PROVE  RecordFrame
  BY <1>0, <1>11 DEF CallReview
<1>12. ASSUME NEW c \in Calls, GetConn(c) PROVE RecordFrame
  BY <1>0, <1>12 DEF GetConn
<1>13. ASSUME NEW c \in Calls, GetLock(c) PROVE RecordFrame
  BY <1>0, <1>13 DEF GetLock
<1>14. ASSUME NEW c \in Calls, Commit(c) PROVE RecordFrame
  BY <1>0, <1>14 DEF Commit
<1>15. ASSUME NEW c \in Calls, Acknowledge(c) PROVE RecordFrame
  BY <1>0, <1>15 DEF Acknowledge
<1>16. ASSUME NEW c \in Calls, BusyTimeout(c) \/ Conflict(c) \/ GiveUp(c)
       PROVE  RecordFrame
  <2>1. pc[c] \in InFlight /\ Abandon(c)
    BY <1>16, ErrorsGiveUp DEF GiveUp
  <2> QED BY <1>0, <2>1 DEF Abandon
<1>17. ASSUME NEW c \in Calls, QueryPage(c) PROVE RecordFrame
  BY <1>0, <1>17 DEF QueryPage
<1>18. ASSUME NEW c \in Calls, CloseRows(c) PROVE RecordFrame
  BY <1>0, <1>18 DEF CloseRows
<1>19. ASSUME NEW c \in Calls, QueryCount(c) PROVE RecordFrame
  BY <1>0, <1>19 DEF QueryCount
<1>20. ASSUME NEW c \in Calls, QueryClasses(c) PROVE RecordFrame
  BY <1>0, <1>20 DEF QueryClasses
<1> QED
  BY <1>1, <1>2, <1>3, <1>4, <1>5, <1>6, <1>7, <1>8, <1>9, <1>10, <1>11, <1>12,
     <1>13, <1>14, <1>15, <1>16, <1>17, <1>18, <1>19, <1>20
  DEF Next, Process, Ask, Write, Read

LEMMA FlushedStep ==
  ASSUME IInv, [Next]_vars
  PROVE  Flushed'
<1> USE DEF Flushed, file, got, calls
<1>0. log \in Seq(Row) /\ Len(log) \in Nat /\ synced \in Nat /\ Flushed
  BY LenProperties DEF IInv, TypeOK
<1>1. ASSUME NEW n \in synced..Len(log), PowerLoss(n) PROVE Flushed'
  <2>1. n \in 0..Len(log)
    BY <1>0
  <2>2. Len(SubSeq(log, 1, n)) = n
    BY <1>0, <2>1, RowsSplit
  <2> QED BY <1>1, <2>1, <2>2 DEF PowerLoss
<1>2. ASSUME NEW c \in Calls, Commit(c) PROVE Flushed'
  <2>1. rec[c] \in Row
    BY <1>2 DEF IInv, Commit, Stamped, Writing
  <2>2. Len(Append(log, rec[c])) = Len(log) + 1
    BY <1>0, <2>1, AppendProperties
  <2> QED BY <1>0, <1>2, <2>2 DEF Commit
<1>3. CASE UNCHANGED log /\ (UNCHANGED synced \/ synced' = Len(log))
  BY <1>0, <1>3
<1>4. ASSUME NEW p \in Procs, Process(p) PROVE Flushed'
  BY <1>0, <1>4
  DEF Process, Launch, Migrate, Opened, OpenFails, Close, Crash
<1>5. ASSUME NEW c \in Calls, Ask(c) \/ Read(c) \/ GiveUp(c) PROVE Flushed'
  BY <1>0, <1>5
  DEF Ask, Read, GiveUp, CallRecord, CallReview, QueryPage, CloseRows, QueryCount,
      QueryClasses, Abandon
<1>6. ASSUME NEW c \in Calls, Write(c), ~Commit(c) PROVE Flushed'
  BY <1>0, <1>6
  DEF Write, GetConn, GetLock, BusyTimeout, Conflict, Acknowledge, Abandon
<1> QED
  BY <1>0, <1>1, <1>2, <1>3, <1>4, <1>5, <1>6 DEF Next, Checkpoint, vars

\* Rows of the log after a commit and after a power cut.
LEMMA CommitRows ==
  ASSUME IInv, NEW c \in Calls, Commit(c)
  PROVE  /\ rec[c] \in Row
         /\ Rows(log') = Rows(log) \cup {rec[c]}
         /\ lost' = lost
<1>1. rec[c] \in Row
  BY DEF IInv, Commit, Stamped, Writing
<1>2. Rows(Append(log, rec[c])) = Rows(log) \cup {rec[c]}
  BY <1>1, RowsAppend DEF IInv, TypeOK
<1> QED BY <1>1, <1>2 DEF Commit

LEMMA PowerLossRows ==
  ASSUME IInv, NEW n \in synced..Len(log), PowerLoss(n)
  PROVE  /\ n \in 0..Len(log) /\ Len(log') = n
         /\ \A i \in 1..n : log'[i] = log[i]
         /\ Rows(log) \cup lost \subseteq Rows(log') \cup lost'
<1>1. log \in Seq(Row) /\ n \in 0..Len(log)
  BY LenProperties DEF IInv, TypeOK
<1>2. /\ Len(SubSeq(log, 1, n)) = n
      /\ \A i \in 1..n : SubSeq(log, 1, n)[i] = log[i]
      /\ Rows(log) \subseteq Rows(SubSeq(log, 1, n)) \cup Rows(SubSeq(log, n + 1, Len(log)))
  BY <1>1, RowsSplit
<1> QED BY <1>1, <1>2 DEF PowerLoss

LEMMA UniqueIdsStep ==
  ASSUME IInv, [Next]_vars
  PROVE  UniqueIds'
<1>0. /\ log \in Seq(Row) /\ Len(log) \in Nat /\ DOMAIN log = 1..Len(log)
      /\ UniqueIds /\ log' \in Seq(Row) /\ DOMAIN log' = 1..Len(log')
  BY TypeStep, LenProperties DEF IInv, TypeOK
<1>1. CASE UNCHANGED log
  BY <1>0, <1>1 DEF UniqueIds
<1>2. ASSUME NEW c \in Calls, Commit(c) PROVE UniqueIds'
  <2>1. rec[c] \in Row
    BY <1>2, CommitRows
  <2>2. /\ Len(log') = Len(log) + 1 /\ log'[Len(log) + 1] = rec[c]
        /\ \A i \in 1..Len(log) : log'[i] = log[i]
    BY <1>0, <1>2, <2>1, AppendProperties DEF Commit
  <2>3. \A i \in 1..Len(log) : log[i].id # rec[c].id
    BY <1>0, <1>2 DEF Commit, IdTaken, Rows
  <2>4. ASSUME NEW i \in 1..Len(log) + 1, NEW j \in 1..Len(log) + 1,
               log'[i].id = log'[j].id
        PROVE  i = j
    <3>1. i \in 1..Len(log) \/ i = Len(log) + 1
      BY <1>0
    <3>2. j \in 1..Len(log) \/ j = Len(log) + 1
      BY <1>0
    <3> QED BY <1>0, <2>2, <2>3, <2>4, <3>1, <3>2 DEF UniqueIds
  <2> QED BY <1>0, <2>2, <2>4 DEF UniqueIds
<1>3. ASSUME NEW n \in synced..Len(log), PowerLoss(n) PROVE UniqueIds'
  <2>1. /\ n \in 0..Len(log) /\ Len(log') = n
        /\ \A i \in 1..n : log'[i] = log[i]
    BY <1>3, PowerLossRows
  <2>2. \A i \in 1..n : i \in DOMAIN log
    BY <1>0, <2>1
  <2> QED BY <1>0, <2>1, <2>2 DEF UniqueIds
<1> QED BY <1>1, <1>2, <1>3, RecordFrameStep DEF RecordFrame

LEMMA EnteredStep ==
  ASSUME IInv, [Next]_vars
  PROVE  Entered' /\ AcknowledgedKept'
<1>0. RecordFrame /\ Entered /\ AcknowledgedKept
  BY RecordFrameStep DEF IInv
<1>1. \A c \in Calls : pc'[c] = "recorded" => rec'[c] \in Rows(log) \cup lost
  BY <1>0 DEF RecordFrame, Entered, AcknowledgedKept, Recorded
<1>2. \A c \in Calls : Commit(c) => rec[c] \in Rows(log')
  BY CommitRows
<1>3. CASE UNCHANGED <<log, lost>> \/ \E c \in Calls : Commit(c)
  <2>1. Rows(log) \subseteq Rows(log') /\ lost' = lost
    BY <1>3, CommitRows DEF Rows
  <2>2. \A c \in Calls : pc'[c] = "committed" => rec'[c] \in Rows(log')
    BY <1>0, <1>2, <2>1 DEF RecordFrame, Entered
  <2> QED BY <1>1, <2>1, <2>2 DEF Entered, AcknowledgedKept, Recorded, Rows
<1>4. ASSUME NEW n \in synced..Len(log), PowerLoss(n)
      PROVE  Entered' /\ AcknowledgedKept'
  <2>1. Rows(log) \cup lost \subseteq Rows(log') \cup lost'
    BY <1>4, PowerLossRows
  <2>2. \A c \in Calls : pc'[c] # "committed"
    BY <1>4 DEF PowerLoss, InFlight, Writing, IInv, TypeOK
  <2> QED BY <1>1, <2>1, <2>2 DEF Entered, AcknowledgedKept, Recorded, Rows
<1> QED BY <1>0, <1>3, <1>4 DEF RecordFrame

\* The rows of the docket answer to different ids.
LEMMA LogSortable ==
  ASSUME IInv
  PROVE  Sortable(Rows(log)) /\ IsFiniteSet(Rows(log))
<1>1. log \in Seq(Row) /\ UniqueIds
  BY DEF IInv, TypeOK
<1>2. Rows(log) \subseteq Row /\ IsFiniteSet(Rows(log))
  BY <1>1, RowsType
<1>3. \A r \in Row : r.at \in Nat /\ r.id \in Ids
  BY TimesAssumption, SuffixesAssumption DEF Row, Stamp, Ids
<1>4. ASSUME NEW r \in Rows(log), NEW s \in Rows(log), r.id = s.id PROVE r = s
  BY <1>1, <1>4 DEF Rows, UniqueIds
<1> QED BY <1>2, <1>3, <1>4 DEF Sortable

LEMMA SnapshotsStep ==
  ASSUME IInv, [Next]_vars
  PROVE  Snapshots'
<1> USE DEF Snapshots, TypeOK, file, got, calls, Goto, InFlight, Writing, Reading
<1>0. TypeOK /\ Snapshots
  BY DEF IInv
<1>1. CASE UNCHANGED vars
  BY <1>0, <1>1 DEF vars
<1>2. ASSUME NEW p \in Procs,
             \/ Launch(p) \/ Migrate(p) \/ Opened(p) \/ OpenFails(p) \/ Close(p)
      PROVE  Snapshots'
  BY <1>0, <1>2 DEF Launch, Migrate, Opened, OpenFails, Close
<1>3. ASSUME NEW p \in Procs, Crash(p) PROVE Snapshots'
  BY <1>0, <1>3 DEF Crash
<1>4. ASSUME NEW n \in synced..Len(log), PowerLoss(n) PROVE Snapshots'
  BY <1>0, <1>4 DEF PowerLoss
<1>5. CASE Checkpoint
  BY <1>0, <1>5 DEF Checkpoint
<1>6. ASSUME NEW c \in Calls, NEW p \in Procs, NEW o \in Observations,
             NEW t \in Times, NEW n \in Suffixes, CallRecord(c, p, o, t, n)
      PROVE  Snapshots'
  BY <1>0, <1>6 DEF CallRecord
<1>7. ASSUME NEW c \in Calls, NEW p \in Procs, NEW f \in Filters, CallReview(c, p, f)
      PROVE  Snapshots'
  BY <1>0, <1>7 DEF CallReview
<1>8. ASSUME NEW c \in Calls, GetConn(c) \/ GetLock(c) \/ Acknowledge(c)
      PROVE  Snapshots'
  BY <1>0, <1>8 DEF GetConn, GetLock, Acknowledge
<1>9. ASSUME NEW c \in Calls, Commit(c) PROVE Snapshots'
  <2>1. Rows(log) \subseteq Rows(log')
    BY <1>9, CommitRows
  <2> QED BY <1>0, <1>9, <2>1 DEF Commit
<1>10. ASSUME NEW c \in Calls, BusyTimeout(c) \/ Conflict(c) \/ GiveUp(c)
       PROVE  Snapshots'
  <2>1. pc[c] \in InFlight /\ Abandon(c)
    BY <1>10, ErrorsGiveUp DEF GiveUp
  <2> QED BY <1>0, <2>1 DEF Abandon
<1>11. ASSUME NEW c \in Calls, QueryPage(c) PROVE Snapshots'
  BY <1>0, <1>11, LogSortable DEF QueryPage
<1>12. ASSUME NEW c \in Calls, CloseRows(c) \/ QueryCount(c) \/ QueryClasses(c)
       PROVE  Snapshots'
  BY <1>0, <1>12 DEF CloseRows, QueryCount, QueryClasses
<1> QED
  BY <1>1, <1>2, <1>3, <1>4, <1>5, <1>6, <1>7, <1>8, <1>9, <1>10, <1>11, <1>12
  DEF Next, Process, Ask, Write, Read

\* What the reply of a review was computed from: one snapshot, of which the
\* lemmas about pages hold.
LEMMA Reviewed ==
  ASSUME IInv, NEW c \in Calls, pc[c] = "reviewed"
  PROVE  /\ IsFiniteSet(view[c]) /\ Sortable(view[c]) /\ Filter(c).limit \in Int
         /\ known[c] \subseteq view[c]
         /\ Review(c).observations = Page(Filter(c), view[c])
         /\ Review(c).total = Total(Filter(c), view[c])
         /\ Review(c).class_counts = Tally(Filter(c), view[c])
         /\ Review(c).truncated <=> Total(Filter(c), view[c]) >
                                      Cardinality(Page(Filter(c), view[c]))
<1>1. Filter(c).limit \in Int
  <2>1. ask[c] \in Reviews
    BY DEF IInv, Pinned
  <2> QED BY <2>1, FiltersAssumption DEF Reviews, Filter
<1>2. IsFiniteSet(view[c]) /\ Sortable(view[c]) /\ known[c] \subseteq view[c]
  BY DEF IInv, TypeOK, Snapshots
<1>3. /\ page[c] = Page(Filter(c), view[c])
      /\ total[c] = Total(Filter(c), view[c])
      /\ classes[c] = Tally(Filter(c), view[c])
  BY DEF IInv, Pinned
<1> QED BY <1>1, <1>2, <1>3 DEF Review, Output

-----------------------------------------------------------------------------
(* Theorems. *)

\* The inductive invariant holds in every reachable state.
THEOREM Invariance == Spec => []IInv
<1>1. IInv /\ [Next]_vars => IInv'
  BY TypeStep, HeldStep, UniqueIdsStep, EnteredStep, StampedStep, PinnedStep,
     SnapshotsStep, FlushedStep
  DEF IInv
<1> QED BY InitInv, <1>1, PTL DEF Spec

\* Every variable keeps its type (store.go, Append and List).
THEOREM TypeCorrect == Spec => []TypeOK
BY Invariance, PTL DEF IInv

\* Locks and connections are held by exactly the calls entitled to them, and no
\* error path or crash leaves one behind.
THEOREM NothingLeaks == Spec => []Held
BY Invariance, PTL DEF IInv

\* What a client was told is recorded stays in the docket, unless it was still
\* unflushed when the power failed.
THEOREM NothingAcknowledgedIsLost == Spec => []AcknowledgedKept
BY Invariance, PTL DEF IInv

\* An id names one row.
THEOREM IdsNameRows == Spec => []UniqueIds
BY Invariance, PTL DEF IInv

\* Rows are appended and never change; only a power cut removes any, and then
\* no more than the unflushed tail.
THEOREM DocketAppendOnly == Spec => AppendOnly
<1> DEFINE A == /\ \A i \in DOMAIN log \cap DOMAIN log' : log'[i] = log[i]
                /\ Len(log') < Len(log) => /\ Len(log') >= synced
                                           /\ \A p \in Procs : state'[p] = "down"
<1>1. IInv /\ [Next]_vars => [A]_vars
  <2> SUFFICES ASSUME IInv, [Next]_vars PROVE A
    OBVIOUS
  <2>0. /\ log \in Seq(Row) /\ Len(log) \in Nat /\ DOMAIN log = 1..Len(log)
        /\ log' \in Seq(Row) /\ DOMAIN log' = 1..Len(log')
        /\ synced \in Nat
    BY TypeStep, LenProperties DEF IInv, TypeOK
  <2>1. CASE UNCHANGED log
    BY <2>0, <2>1
  <2>2. ASSUME NEW c \in Calls, Commit(c) PROVE A
    <3>1. rec[c] \in Row
      BY <2>2, CommitRows
    <3>2. /\ Len(log') = Len(log) + 1
          /\ \A i \in 1..Len(log) : log'[i] = log[i]
      BY <2>0, <2>2, <3>1, AppendProperties DEF Commit
    <3> QED BY <2>0, <3>2
  <2>3. ASSUME NEW n \in synced..Len(log), PowerLoss(n) PROVE A
    <3>1. /\ n \in 0..Len(log) /\ Len(log') = n
          /\ \A i \in 1..n : log'[i] = log[i]
      BY <2>3, PowerLossRows
    <3>2. \A p \in Procs : state'[p] = "down"
      BY <2>3 DEF PowerLoss
    <3> QED BY <2>0, <3>1, <3>2
  <2> QED BY <2>1, <2>2, <2>3, RecordFrameStep DEF RecordFrame
<1> QED BY Invariance, <1>1, PTL DEF Spec, AppendOnly

\* A call writes at most one row, while it holds the write lock and its process's
\* one write connection, and no other call moves in that step (Append).
THEOREM RecordsWriteOneRow == Spec => OneRowPerRecord
<1> DEFINE A == Len(log') > Len(log) =>
                  \E c \in Calls : /\ lock = c /\ wconn[proc[c]] = c
                                   /\ log' = Append(log, rec[c])
                                   /\ pc'[c] = "committed"
                                   /\ \A d \in Calls \ {c} : pc'[d] = pc[d]
<1>1. IInv /\ [Next]_vars => [A]_vars
  <2> SUFFICES ASSUME IInv, [Next]_vars, Len(log') > Len(log) PROVE A
    OBVIOUS
  <2>0. Len(log) \in Nat
    BY LenProperties DEF IInv, TypeOK
  <2>1. CASE UNCHANGED log
    BY <2>0, <2>1
  <2>2. ASSUME NEW c \in Calls, Commit(c) PROVE A
    <3>1. pc[c] = "writing" /\ pc[c] \in InFlight
      BY <2>2 DEF Commit, InFlight, Writing
    <3>2. lock = c /\ wconn[proc[c]] = c
      BY <3>1 DEF IInv, Held
    <3> QED BY <2>2, <3>2 DEF Commit, Goto, IInv, TypeOK
  <2>3. ASSUME NEW n \in synced..Len(log), PowerLoss(n) PROVE FALSE
    BY <2>0, <2>3, PowerLossRows
  <2> QED BY <2>1, <2>2, <2>3, RecordFrameStep DEF RecordFrame
<1> QED BY Invariance, <1>1, PTL DEF Spec, OneRowPerRecord

\* A review adds up: page, total, tally and truncated flag are those of one state
\* of the docket, although three queries computed them while others wrote.
THEOREM ReviewsAddUp == Spec => []OneSnapshot
<1>1. IInv => OneSnapshot
  <2> SUFFICES ASSUME IInv PROVE OneSnapshot
    OBVIOUS
  <2>1. ASSUME NEW c \in Calls, pc[c] = "reviewed"
        PROVE  LET out == Review(c)
                   size == Cardinality(out.observations)
               IN /\ out.total = Cardinality(Where(Filter(c), view[c]))
                  /\ \A k \in DOMAIN out.class_counts : out.class_counts[k] <= out.total
                  /\ out.class_counts = Tally(Filter(c), view[c])
                  /\ size = IF out.total < Limit(Filter(c))
                            THEN out.total ELSE Limit(Filter(c))
                  /\ out.truncated <=>
                       \E r \in Where(Filter(c), view[c]) : r \notin out.observations
    <3> DEFINE f == Filter(c)
               rows == view[c]
    <3>1. /\ IsFiniteSet(rows) /\ Sortable(rows) /\ f.limit \in Int
          /\ Review(c).observations = Page(f, rows) /\ Review(c).total = Total(f, rows)
          /\ Review(c).class_counts = Tally(f, rows)
          /\ Review(c).truncated <=> Total(f, rows) > Cardinality(Page(f, rows))
      BY <2>1, Reviewed
    <3>2. \A k \in DOMAIN Tally(f, rows) : Tally(f, rows)[k] <= Total(f, rows)
      BY <3>1, TallyBounded
    <3> HIDE DEF f, rows
    <3>3. Cardinality(Page(f, rows)) =
            IF Total(f, rows) < Limit(f) THEN Total(f, rows) ELSE Limit(f)
      BY <3>1, PageSize
    <3>4. Total(f, rows) > Cardinality(Page(f, rows))
            <=> \E r \in Where(f, rows) : r \notin Page(f, rows)
      BY <3>1, TruncatedMeansMore
    <3> QED BY <3>1, <3>2, <3>3, <3>4 DEF f, rows, Total
  <2> QED BY <2>1 DEF OneSnapshot
<1> QED BY Invariance, <1>1, PTL

\* Read your writes, monotonic reads: what some client had been told of when a
\* review began, in whatever process and by either call, is in its answer, or
\* below a full page that says so.
THEOREM ReviewsSeeAcknowledged == Spec => []SeesAcknowledged
<1>1. IInv => SeesAcknowledged
  <2> SUFFICES ASSUME IInv, NEW c \in Calls, pc[c] = "reviewed",
                      NEW r \in known[c], Selected(Filter(c), r),
                      r \notin Review(c).observations
               PROVE  /\ Review(c).truncated
                      /\ \A s \in Review(c).observations : Older(r, s)
    BY DEF SeesAcknowledged
  <2> DEFINE f == Filter(c)
             rows == view[c]
  <2>1. /\ IsFiniteSet(rows) /\ Sortable(rows) /\ f.limit \in Int
        /\ known[c] \subseteq rows
        /\ Review(c).observations = Page(f, rows)
        /\ Review(c).truncated <=> Total(f, rows) > Cardinality(Page(f, rows))
    BY Reviewed
  <2>2. r \in Where(f, rows) /\ r \notin Page(f, rows)
    BY <2>1 DEF Where
  <2> HIDE DEF f, rows
  <2>3. Total(f, rows) > Cardinality(Page(f, rows))
    BY <2>1, <2>2, TruncatedMeansMore
  <2>4. \A s \in Page(f, rows) : Older(r, s)
    BY <2>1, <2>2, BelowThePage
  <2> QED BY <2>1, <2>3, <2>4
<1> QED BY Invariance, <1>1, PTL

-----------------------------------------------------------------------------
(* The store implements the docket. *)

\* A step that moves no call from one phase to another, and changes neither the
\* rows nor any result, is invisible to the callers.
LEMMA Invisible ==
  ASSUME UNCHANGED <<log, ask>>,
         \A c \in Calls : PhaseOf(pc'[c]) = PhaseOf(pc[c]),
         \A c \in Calls : Result(c)' = Result(c)
  PROVE  UNCHANGED D!vars
BY DEF D!vars

\* The phases of the labels.
LEMMA Phases ==
  /\ PhaseOf("idle") = "idle"
  /\ \A l \in {"stamped", "connected", "writing", "begun"} : PhaseOf(l) = "asked"
  /\ \A l \in {"committed", "scanning", "paged", "counted"} : PhaseOf(l) = "held"
  /\ \A l \in {"recorded", "reviewed"} : PhaseOf(l) = "replied"
  /\ PhaseOf("failed") = "failed"
BY DEF PhaseOf

\* When one call moves, one entry of the phases changes, and at most one of the
\* results.
LEMMA OneCallMoves ==
  ASSUME TypeOK, NEW c \in Calls, NEW label, Goto(c, label)
  PROVE  /\ [d \in Calls |-> PhaseOf(pc[d])][c] = PhaseOf(pc[c])
         /\ [d \in Calls |-> PhaseOf(pc[d])]' =
              [[d \in Calls |-> PhaseOf(pc[d])] EXCEPT ![c] = PhaseOf(label)]
<1>1. pc'[c] = label /\ \A d \in Calls \ {c} : pc'[d] = pc[d]
  BY DEF TypeOK, Goto
<1> QED BY <1>1

LEMMA OneResultSet ==
  ASSUME NEW c \in Calls, NEW x, Result(c)' = x,
         \A d \in Calls \ {c} : Result(d)' = Result(d)
  PROVE  [d \in Calls |-> Result(d)]' = [[d \in Calls |-> Result(d)] EXCEPT ![c] = x]
OBVIOUS

LEMMA NoResultSet ==
  ASSUME \A d \in Calls : Result(d)' = Result(d)
  PROVE  UNCHANGED [d \in Calls |-> Result(d)]
OBVIOUS

LEMMA InitRefines == Init => D!Init
BY DEF Init, D!Init, PhaseOf, Result

LEMMA StepRefines ==
  ASSUME IInv, [Next]_vars
  PROVE  [D!Next]_D!vars
<1> USE DEF file, got, calls
<1>0. TypeOK /\ Stamped /\ Pinned /\ Held
  BY DEF IInv
<1>1. CASE UNCHANGED vars
  BY <1>1, Invisible DEF vars, Result, Filter, Review
<1>2. ASSUME NEW p \in Procs,
             \/ Launch(p) \/ Migrate(p) \/ Opened(p) \/ OpenFails(p) \/ Close(p)
      PROVE  UNCHANGED D!vars
  BY <1>2, Invisible
  DEF Launch, Migrate, Opened, OpenFails, Close, Result, Filter, Review
<1>3. ASSUME NEW p \in Procs, Crash(p) PROVE [D!Next]_D!vars
  <2>1. CASE Busy(p) = {}
    BY <1>0, <1>3, <2>1, Invisible DEF Crash, Result, Filter, Review, Goto, TypeOK
  <2>2. CASE Busy(p) # {}
    <3>1. D!Fail(Busy(p))
      <4>1. \A c \in Calls \ Busy(p) : Result(c)' = Result(c) /\ pc'[c] = pc[c]
        BY <1>0, <1>3 DEF Crash, Result, Filter, Review, Goto, TypeOK
      <4>2. \A c \in Busy(p) : c \in Calls /\ Result(c)' = None /\ pc'[c] = "failed"
        BY <1>0, <1>3 DEF Crash, Result, Busy, TypeOK
      <4>3. \A c \in Busy(p) : PhaseOf(pc[c]) \in {"asked", "held"}
        BY Phases DEF Busy, InFlight, Writing, Reading
      <4>4. UNCHANGED <<log, ask>>
        BY <1>3 DEF Crash
      <4> QED BY <2>2, <4>1, <4>2, <4>3, <4>4, Phases DEF D!Fail
    <3>2. Busy(p) \in SUBSET Calls
      BY DEF Busy
    <3> QED BY <3>1, <3>2 DEF D!Next
  <2> QED BY <2>1, <2>2
<1>4. ASSUME NEW n \in synced..Len(log), PowerLoss(n) PROVE D!Next
  <2>1. n \in 0..Len(log)
    BY <1>4, PowerLossRows DEF IInv
  <2>2. D!Outage(n)
    <3>1. ASSUME NEW c \in Calls, pc[c] \in InFlight
          PROVE  Result(c)' = None /\ pc'[c] = "failed" /\ PhaseOf(pc[c]) \in {"asked", "held"}
      BY <1>0, <1>4, <3>1, Phases DEF PowerLoss, Result, InFlight, Writing, Reading
    <3>2. ASSUME NEW c \in Calls, pc[c] \notin InFlight
          PROVE  /\ Result(c)' = Result(c) /\ pc'[c] = pc[c]
                 /\ PhaseOf(pc[c]) \notin {"asked", "held"}
      BY <1>0, <1>4, <3>2, Phases
      DEF PowerLoss, Result, Filter, Review, InFlight, Writing, Reading, Done, TypeOK
    <3>3. log' = SubSeq(log, 1, n) /\ UNCHANGED ask
      BY <1>4 DEF PowerLoss
    <3> QED BY <3>1, <3>2, <3>3, Phases DEF D!Outage
  <2> QED BY <2>1, <2>2 DEF D!Next
<1>5. ASSUME Checkpoint PROVE UNCHANGED D!vars
  BY <1>5, Invisible DEF Checkpoint, Result, Filter, Review
<1>6. ASSUME NEW c \in Calls, NEW p \in Procs, NEW o \in Observations,
             NEW t \in Times, NEW n \in Suffixes, CallRecord(c, p, o, t, n)
      PROVE  D!Next
  <2> DEFINE q == [op |-> "record", obs |-> o]
  <2>1. \A d \in Calls \ {c} : Result(d)' = Result(d)
    BY <1>0, <1>6 DEF CallRecord, Result, Filter, Review, Goto, TypeOK
  <2>2. Result(c) = None /\ Result(c)' = None
    BY <1>0, <1>6 DEF CallRecord, Result, Goto, TypeOK
  <2>3. D!Ask(c, q)
    <3>1. Goto(c, "stamped")
      BY <1>6 DEF CallRecord
    <3>2. \A d \in Calls : Result(d)' = Result(d)
      BY <2>1, <2>2
    <3>3. UNCHANGED [d \in Calls |-> Result(d)]
      BY <3>2, NoResultSet
    <3>4. /\ [d \in Calls |-> PhaseOf(pc[d])][c] = PhaseOf(pc[c])
          /\ [d \in Calls |-> PhaseOf(pc[d])]' =
               [[d \in Calls |-> PhaseOf(pc[d])] EXCEPT ![c] = PhaseOf("stamped")]
      BY <1>0, <3>1, OneCallMoves
    <3> QED BY <1>6, <3>3, <3>4, Phases DEF D!Ask, CallRecord
  <2>4. q \in D!Records
    BY DEF D!Records
  <2> QED BY <2>3, <2>4 DEF D!Next
<1>7. ASSUME NEW c \in Calls, NEW p \in Procs, NEW f \in Filters, CallReview(c, p, f)
      PROVE  D!Next
  <2> DEFINE q == [op |-> "review", filter |-> f]
  <2>1. \A d \in Calls \ {c} : Result(d)' = Result(d)
    BY <1>0, <1>7 DEF CallReview, Result, Filter, Review, Goto, TypeOK
  <2>2. Result(c) = None /\ Result(c)' = None
    BY <1>0, <1>7 DEF CallReview, Result, Goto, TypeOK
  <2>3. D!Ask(c, q)
    <3>1. Goto(c, "begun")
      BY <1>7 DEF CallReview
    <3>2. \A d \in Calls : Result(d)' = Result(d)
      BY <2>1, <2>2
    <3>3. UNCHANGED [d \in Calls |-> Result(d)]
      BY <3>2, NoResultSet
    <3>4. /\ [d \in Calls |-> PhaseOf(pc[d])][c] = PhaseOf(pc[c])
          /\ [d \in Calls |-> PhaseOf(pc[d])]' =
               [[d \in Calls |-> PhaseOf(pc[d])] EXCEPT ![c] = PhaseOf("begun")]
      BY <1>0, <3>1, OneCallMoves
    <3> QED BY <1>7, <3>3, <3>4, Phases DEF D!Ask, CallReview
  <2>4. q \in D!Reviews
    BY DEF D!Reviews
  <2> QED BY <2>3, <2>4 DEF D!Next
<1>8. ASSUME NEW c \in Calls, GetConn(c) \/ GetLock(c) PROVE UNCHANGED D!vars
  <2>1. UNCHANGED <<log, ask>> /\ \A d \in Calls : Result(d)' = Result(d)
    BY <1>0, <1>8 DEF GetConn, GetLock, Result, Filter, Review, Goto, TypeOK
  <2>2. \A d \in Calls : PhaseOf(pc'[d]) = PhaseOf(pc[d])
    BY <1>0, <1>8, Phases DEF GetConn, GetLock, Goto, TypeOK
  <2> QED BY <2>1, <2>2, Invisible
<1>9. ASSUME NEW c \in Calls, CloseRows(c) \/ QueryCount(c) PROVE UNCHANGED D!vars
  <2>1. UNCHANGED <<log, ask>> /\ \A d \in Calls : Result(d)' = Result(d)
    BY <1>0, <1>9 DEF CloseRows, QueryCount, Result, Filter, Review, Goto, TypeOK
  <2>2. \A d \in Calls : PhaseOf(pc'[d]) = PhaseOf(pc[d])
    <3>1. PhaseOf("scanning") = "held" /\ PhaseOf("paged") = "held" /\ PhaseOf("counted") = "held"
      BY Phases
    <3> QED BY <1>0, <1>9, <3>1 DEF CloseRows, QueryCount, Goto, TypeOK
  <2> QED BY <2>1, <2>2, Invisible
<1>10. ASSUME NEW c \in Calls, Commit(c) PROVE D!Next
  <2>1. \A d \in Calls \ {c} : Result(d)' = Result(d)
    BY <1>0, <1>10 DEF Commit, Result, Filter, Review, Goto, TypeOK
  <2>2. Result(c)' = rec[c]
    BY <1>0, <1>10 DEF Commit, Result, Goto, TypeOK
  <2>3. /\ rec[c] \in D!Row /\ rec[c].obs = ask[c].obs /\ ask[c] \in D!Records
    BY <1>0, <1>10
    DEF Commit, Stamped, Writing, Records, Row, Stamp, D!Row, D!Stamp, D!Records
  <2>4. \A r \in D!Rows(log) : r.id # rec[c].id
    BY <1>10 DEF Commit, IdTaken, Rows, D!Rows
  <2>5. D!Held(c, rec[c])
    <3>1. Goto(c, "committed")
      BY <1>10 DEF Commit
    <3>2. [d \in Calls |-> Result(d)]' =
            [[d \in Calls |-> Result(d)] EXCEPT ![c] = rec[c]]
      BY <2>1, <2>2, OneResultSet
    <3>4. /\ [d \in Calls |-> PhaseOf(pc[d])][c] = PhaseOf(pc[c])
          /\ [d \in Calls |-> PhaseOf(pc[d])]' =
               [[d \in Calls |-> PhaseOf(pc[d])] EXCEPT ![c] = PhaseOf("committed")]
      BY <1>0, <3>1, OneCallMoves
    <3> QED BY <1>10, <3>2, <3>4, Phases DEF D!Held, Commit
  <2>6. D!Enter(c, rec[c])
    BY <1>10, <2>3, <2>4, <2>5 DEF D!Enter, Commit
  <2> QED BY <2>3, <2>6 DEF D!Next
<1>11. ASSUME NEW c \in Calls, Acknowledge(c) PROVE D!Next
  <2>1. \A d \in Calls \ {c} : Result(d)' = Result(d)
    BY <1>0, <1>11 DEF Acknowledge, Result, Filter, Review, Goto, TypeOK
  <2>2. Result(c)' = Result(c)
    BY <1>0, <1>11 DEF Acknowledge, Result, Goto, TypeOK
  <2>3. D!Reply(c)
    <3>1. Goto(c, "recorded")
      BY <1>11 DEF Acknowledge
    <3>2. \A d \in Calls : Result(d)' = Result(d)
      BY <2>1, <2>2
    <3>3. UNCHANGED [d \in Calls |-> Result(d)]
      BY <3>2, NoResultSet
    <3>4. /\ [d \in Calls |-> PhaseOf(pc[d])][c] = PhaseOf(pc[c])
          /\ [d \in Calls |-> PhaseOf(pc[d])]' =
               [[d \in Calls |-> PhaseOf(pc[d])] EXCEPT ![c] = PhaseOf("recorded")]
      BY <1>0, <3>1, OneCallMoves
    <3> QED BY <1>11, <3>3, <3>4, Phases DEF D!Reply, Acknowledge
  <2> QED BY <2>3 DEF D!Next
<1>12. ASSUME NEW c \in Calls, BusyTimeout(c) \/ Conflict(c) \/ GiveUp(c) PROVE D!Next
  <2>1. pc[c] \in InFlight /\ Abandon(c)
    BY <1>12, ErrorsGiveUp DEF GiveUp
  <2>2. /\ \A d \in Calls \ {c} : Result(d)' = Result(d) /\ pc'[d] = pc[d]
        /\ Result(c)' = None /\ pc'[c] = "failed"
        /\ UNCHANGED <<log, ask>>
    BY <1>0, <2>1 DEF Abandon, Result, Filter, Review, Goto, TypeOK
  <2>3. PhaseOf(pc[c]) \in {"asked", "held"}
    BY <2>1, Phases DEF InFlight, Writing, Reading
  <2>4. D!Fail({c})
    BY <2>2, <2>3, Phases DEF D!Fail
  <2> QED BY <2>4 DEF D!Next
<1>13. ASSUME NEW c \in Calls, QueryPage(c) PROVE D!Next
  <2>1. \A d \in Calls \ {c} : Result(d)' = Result(d)
    BY <1>0, <1>13 DEF QueryPage, Result, Filter, Review, Goto, TypeOK
  <2>2. Result(c)' = Answer(ask[c].filter, D!Rows(log))
    BY <1>0, <1>13 DEF QueryPage, Result, Filter, Goto, TypeOK, Rows, D!Rows
  <2>3. ask[c] \in D!Reviews
    BY <1>0, <1>13 DEF QueryPage, Pinned, Reading, Reviews, D!Reviews
  <2>4. D!Held(c, Answer(ask[c].filter, D!Rows(log)))
    <3>1. Goto(c, "scanning")
      BY <1>13 DEF QueryPage
    <3>2. [d \in Calls |-> Result(d)]' =
            [[d \in Calls |-> Result(d)] EXCEPT ![c] = Answer(ask[c].filter, D!Rows(log))]
      BY <2>1, <2>2, OneResultSet
    <3>4. /\ [d \in Calls |-> PhaseOf(pc[d])][c] = PhaseOf(pc[c])
          /\ [d \in Calls |-> PhaseOf(pc[d])]' =
               [[d \in Calls |-> PhaseOf(pc[d])] EXCEPT ![c] = PhaseOf("scanning")]
      BY <1>0, <3>1, OneCallMoves
    <3> QED BY <1>13, <3>2, <3>4, Phases DEF D!Held, QueryPage
  <2>5. D!Look(c)
    BY <1>13, <2>3, <2>4 DEF D!Look, QueryPage
  <2> QED BY <2>5 DEF D!Next
<1>14. ASSUME NEW c \in Calls, QueryClasses(c) PROVE D!Next
  <2>1. \A d \in Calls \ {c} : Result(d)' = Result(d)
    BY <1>0, <1>14 DEF QueryClasses, Result, Filter, Review, Goto, TypeOK
  <2>2. Review(c)' = Answer(Filter(c), view[c])
    BY <1>0, <1>14 DEF QueryClasses, Review, Answer, Filter, Pinned, TypeOK
  <2>3. Result(c)' = Result(c)
    BY <1>0, <1>14, <2>2 DEF QueryClasses, Result, Goto, TypeOK
  <2>4. D!Reply(c)
    <3>1. Goto(c, "reviewed")
      BY <1>14 DEF QueryClasses
    <3>2. \A d \in Calls : Result(d)' = Result(d)
      BY <2>1, <2>3
    <3>3. UNCHANGED [d \in Calls |-> Result(d)]
      BY <3>2, NoResultSet
    <3>4. /\ [d \in Calls |-> PhaseOf(pc[d])][c] = PhaseOf(pc[c])
          /\ [d \in Calls |-> PhaseOf(pc[d])]' =
               [[d \in Calls |-> PhaseOf(pc[d])] EXCEPT ![c] = PhaseOf("reviewed")]
      BY <1>0, <3>1, OneCallMoves
    <3> QED BY <1>14, <3>3, <3>4, Phases DEF D!Reply, QueryClasses
  <2> QED BY <2>4 DEF D!Next
<1> QED
  BY <1>1, <1>2, <1>3, <1>4, <1>5, <1>6, <1>7, <1>8, <1>9, <1>10, <1>11, <1>12,
     <1>13, <1>14
  DEF Next, Process, Ask, Write, Read

\* Whatever the sessions, locks, snapshots and failures do, a caller sees the
\* docket: each record entered at one instant and at most once, each review
\* answered from one state between its call and its reply.
THEOREM Refinement == Spec => ImplementsDocket
BY Invariance, InitRefines, StepRefines, PTL DEF Spec, ImplementsDocket, D!Spec
=============================================================================
