------------------------------- MODULE Store -------------------------------
(***************************************************************************)
(* The running docket: several server processes, one per agent session,    *)
(* share one SQLite file in WAL mode.  Each process serves its calls       *)
(* concurrently.  Records go through a write handle limited to one         *)
(* connection and take the file's single write lock; reviews run three     *)
(* queries in one read-only transaction on a connection of their own.      *)
(* Processes crash, the machine loses power, contexts are cancelled.       *)
(*                                                                         *)
(* "log" is the committed content of the file, in commit order.  The WAL   *)
(* is flushed at checkpoints only (synchronous=NORMAL): "synced" is the    *)
(* length of the prefix a power cut cannot take.                           *)
(***************************************************************************)
EXTENDS Query, Sequences

CONSTANTS Calls,           \* the tool calls of all sessions, each made once
          Procs,           \* the server processes
          Observations,    \* what a record may carry
          Filters,         \* what a review may ask for
          Times,           \* the millisecond clock readings
          Suffixes,        \* the random parts of ids
          None

ASSUME TimesAssumption == Times \subseteq Nat \ {0}
ASSUME SuffixesAssumption == Suffixes \subseteq Nat
ASSUME FiltersAssumption == \A f \in Filters : f.limit \in Int
ASSUME ActorsAssumption == /\ Calls \cap Procs = {}
                           /\ None \notin Calls \cup Procs

VARIABLES state,           \* per process: down, opening, migrating or up
          wconn,           \* per process: the call holding the write connection
          lock,            \* the call or process holding the file's write lock
          log,             \* the committed rows, in commit order
          synced,          \* how many of them are on stable storage
          lost,            \* the rows power cuts took (history)
          pc,              \* per call: where it is
          proc,            \* per call: the process serving it
          ask,             \* per call: its arguments
          rec,             \* per record: the stamped row
          view,            \* per review: the rows of its transaction's snapshot
          page,            \* per review: what its three queries have returned
          total,
          classes,
          known            \* per review: the stored rows some call had been told of
                           \* when it began (history)

file  == <<log, synced, lost>>
got   == <<page, total, classes>>
calls == <<pc, proc, ask, rec, view, got, known>>
vars  == <<state, wconn, lock, file, calls>>

Records == [op : {"record"}, obs : Observations]
Reviews == [op : {"review"}, filter : Filters]
Stamp(t, n, o) == [at |-> t, id |-> <<t, n>>, obs |-> o]
Row  == {Stamp(t, n, o) : t \in Times, n \in Suffixes, o \in Observations}

Writing   == {"stamped", "connected", "writing", "committed"}
Reading   == {"begun", "scanning", "paged", "counted"}
InFlight  == Writing \cup Reading
Done      == {"recorded", "reviewed", "failed"}

Rows(s)      == {s[i] : i \in DOMAIN s}
Filter(c)    == ask[c].filter
Recorded     == {rec[c] : c \in {d \in Calls : pc[d] = "recorded"}}
Busy(p)      == {c \in Calls : proc[c] = p /\ pc[c] \in InFlight}
NoClasses    == [k \in {} |-> 0]
Review(c)    == Output(page[c], total[c], classes[c])

\* The rows the clients have been told of, by a record's reply or in a review's.
Told == Recorded \cup UNION {page[c] : c \in {d \in Calls : pc[d] = "reviewed"}}

Init == /\ state = [p \in Procs |-> "down"]
        /\ wconn = [p \in Procs |-> None]
        /\ lock = None
        /\ log = <<>> /\ synced = 0 /\ lost = {}
        /\ pc = [c \in Calls |-> "idle"]
        /\ proc = [c \in Calls |-> None]
        /\ ask = [c \in Calls |-> None]
        /\ rec = [c \in Calls |-> None]
        /\ view = [c \in Calls |-> {}]
        /\ page = [c \in Calls |-> {}]
        /\ total = [c \in Calls |-> 0]
        /\ classes = [c \in Calls |-> NoClasses]
        /\ known = [c \in Calls |-> {}]

-----------------------------------------------------------------------------
(* Processes.  Opening a store always runs migrate, and so takes the write  *)
(* lock for a moment even when there is nothing to migrate; Open.tla has    *)
(* the detail.                                                              *)

Launch(p) == /\ state[p] = "down"
             /\ state' = [state EXCEPT ![p] = "opening"]
             /\ UNCHANGED <<wconn, lock, file, calls>>

Migrate(p) == /\ state[p] = "opening" /\ lock = None
              /\ lock' = p
              /\ state' = [state EXCEPT ![p] = "migrating"]
              /\ UNCHANGED <<wconn, file, calls>>

Opened(p) == /\ state[p] = "migrating"
             /\ lock' = None
             /\ state' = [state EXCEPT ![p] = "up"]
             /\ UNCHANGED <<wconn, file, calls>>

OpenFails(p) == /\ state[p] \in {"opening", "migrating"}
                /\ lock' = IF lock = p THEN None ELSE lock
                /\ state' = [state EXCEPT ![p] = "down"]
                /\ UNCHANGED <<wconn, file, calls>>

\* A clean shutdown.  The last connection to a WAL file checkpoints it.
Close(p) == /\ state[p] = "up" /\ Busy(p) = {}
            /\ state' = [state EXCEPT ![p] = "down"]
            /\ synced' = IF \A q \in Procs \ {p} : state[q] = "down"
                         THEN Len(log) ELSE synced
            /\ UNCHANGED <<wconn, lock, log, lost, calls>>

\* The process dies, or exits with calls under way: nobody hears of them, and
\* the operating system drops its locks.
Crash(p) == /\ state[p] # "down"
            /\ state' = [state EXCEPT ![p] = "down"]
            /\ wconn' = [wconn EXCEPT ![p] = None]
            /\ lock' = IF lock \in Busy(p) \cup {p} THEN None ELSE lock
            /\ pc' = [c \in Calls |-> IF c \in Busy(p) THEN "failed" ELSE pc[c]]
            /\ UNCHANGED <<file, proc, ask, rec, view, got, known>>

\* The machine loses power: of what was not flushed, some prefix survives.
PowerLoss(n) ==
  /\ state' = [p \in Procs |-> "down"]
  /\ wconn' = [p \in Procs |-> None]
  /\ lock' = None
  /\ log' = SubSeq(log, 1, n) /\ synced' = n
  /\ lost' = lost \cup Rows(SubSeq(log, n + 1, Len(log)))
  /\ pc' = [c \in Calls |-> IF pc[c] \in InFlight THEN "failed" ELSE pc[c]]
  /\ UNCHANGED <<proc, ask, rec, view, got, known>>

\* SQLite flushes the WAL before it copies from it.
Checkpoint == /\ \E p \in Procs : state[p] = "up"
              /\ synced' = Len(log)
              /\ UNCHANGED <<state, wconn, lock, log, lost, calls>>

-----------------------------------------------------------------------------
(* Append.  The row is stamped with a wall-clock reading and a random id    *)
(* before anything is waited for; the clock may stand still or step back.   *)

Goto(c, label) == pc' = [pc EXCEPT ![c] = label]

\* Mutant: recorded_at formatted without the conversion to UTC.
CallRecordLocalTime(c, p, o, t, n) ==
  /\ pc[c] = "idle" /\ state[p] = "up"
  /\ Goto(c, "stamped")
  /\ proc' = [proc EXCEPT ![c] = p]
  /\ ask' = [ask EXCEPT ![c] = [op |-> "record", obs |-> o]]
  /\ rec' = [rec EXCEPT ![c] = [Stamp(t, n, o) EXCEPT !.at = t + 7]]
  /\ UNCHANGED <<state, wconn, lock, file, view, got, known>>

CallRecord(c, p, o, t, n) ==
  /\ pc[c] = "idle" /\ state[p] = "up"
  /\ Goto(c, "stamped")
  /\ proc' = [proc EXCEPT ![c] = p]
  /\ ask' = [ask EXCEPT ![c] = [op |-> "record", obs |-> o]]
  /\ rec' = [rec EXCEPT ![c] = Stamp(t, n, o)]
  /\ UNCHANGED <<state, wconn, lock, file, view, got, known>>

\* database/sql hands out the write handle's only connection.
GetConn(c) == /\ pc[c] = "stamped" /\ wconn[proc[c]] = None
              /\ Goto(c, "connected")
              /\ wconn' = [wconn EXCEPT ![proc[c]] = c]
              /\ UNCHANGED <<state, lock, file, proc, ask, rec, view, got, known>>

\* Mutant: the INSERT does not take the write lock up front.
GetLockDeferred(c) ==
  /\ pc[c] = "connected"
  /\ Goto(c, "writing")
  /\ lock' = c
  /\ UNCHANGED <<state, wconn, file, proc, ask, rec, view, got, known>>

GetLock(c) == /\ pc[c] = "connected" /\ lock = None
              /\ Goto(c, "writing")
              /\ lock' = c
              /\ UNCHANGED <<state, wconn, file, proc, ask, rec, view, got, known>>

\* The INSERT commits unless the primary key is taken.
IdTaken(c) == \E r \in Rows(log) : r.id = rec[c].id

\* Mutants: no primary key; INSERT OR REPLACE.
CommitDuplicate(c) ==
  /\ pc[c] = "writing"
  /\ Goto(c, "committed")
  /\ log' = Append(log, rec[c])
  /\ lock' = None
  /\ UNCHANGED <<state, wconn, synced, lost, proc, ask, rec, view, got, known>>

CommitReplacing(c) ==
  /\ pc[c] = "writing"
  /\ Goto(c, "committed")
  /\ log' = IF IdTaken(c)
            THEN [i \in DOMAIN log |-> IF log[i].id = rec[c].id THEN rec[c] ELSE log[i]]
            ELSE Append(log, rec[c])
  /\ lock' = None
  /\ UNCHANGED <<state, wconn, synced, lost, proc, ask, rec, view, got, known>>

Commit(c) == /\ pc[c] = "writing" /\ ~IdTaken(c)
             /\ Goto(c, "committed")
             /\ log' = Append(log, rec[c])
             /\ lock' = None
             /\ UNCHANGED <<state, wconn, synced, lost, proc, ask, rec, view, got, known>>

\* Mutant: the client is answered once the write is queued.
AcknowledgeQueued(c) ==
  /\ pc[c] \in {"connected", "committed"}
  /\ Goto(c, "recorded")
  /\ wconn' = [wconn EXCEPT ![proc[c]] = None]
  /\ UNCHANGED <<state, lock, file, proc, ask, rec, view, got, known>>

\* Append returns the record and the handler delivers it.
Acknowledge(c) == /\ pc[c] = "committed"
                  /\ Goto(c, "recorded")
                  /\ wconn' = [wconn EXCEPT ![proc[c]] = None]
                  /\ UNCHANGED <<state, lock, file, proc, ask, rec, view, got, known>>

\* Mutant: the error path keeps the write connection.
AbandonLeaking(c) == /\ Goto(c, "failed")
                     /\ lock' = IF lock = c THEN None ELSE lock
                     /\ UNCHANGED <<state, wconn, file, proc, ask, rec, view, got, known>>

\* The call returns an error and gives back what it holds.
Abandon(c) == /\ Goto(c, "failed")
              /\ wconn' = [p \in Procs |-> IF wconn[p] = c THEN None ELSE wconn[p]]
              /\ lock' = IF lock = c THEN None ELSE lock
              /\ UNCHANGED <<state, file, proc, ask, rec, view, got, known>>

\* The busy handler gives up after five seconds.
BusyTimeout(c) == pc[c] = "connected" /\ lock # None /\ Abandon(c)

Conflict(c) == pc[c] = "writing" /\ IdTaken(c) /\ Abandon(c)

\* A cancelled context or a storage error, at any point: also after the commit,
\* and between any two queries of a review.
GiveUp(c) == pc[c] \in InFlight /\ Abandon(c)

-----------------------------------------------------------------------------
(* List.  BEGIN is deferred: the snapshot is fixed by the first query.      *)

CallReview(c, p, f) ==
  /\ pc[c] = "idle" /\ state[p] = "up"
  /\ Goto(c, "begun")
  /\ proc' = [proc EXCEPT ![c] = p]
  /\ ask' = [ask EXCEPT ![c] = [op |-> "review", filter |-> f]]
  /\ known' = [known EXCEPT ![c] = Told \cap Rows(log)]
  /\ UNCHANGED <<state, wconn, lock, file, rec, view, got>>

\* Mutants: a read handle that sees the main file only; a read handle whose
\* transactions begin immediate.
QueryPageMainFile(c) ==
  /\ pc[c] = "begun"
  /\ Goto(c, "scanning")
  /\ view' = [view EXCEPT ![c] = Rows(SubSeq(log, 1, synced))]
  /\ page' = [page EXCEPT ![c] = Page(Filter(c), Rows(SubSeq(log, 1, synced)))]
  /\ UNCHANGED <<state, wconn, lock, file, proc, ask, rec, known, total, classes>>

QueryPageImmediate(c) ==
  /\ pc[c] = "begun" /\ lock = None
  /\ Goto(c, "scanning")
  /\ view' = [view EXCEPT ![c] = Rows(log)]
  /\ page' = [page EXCEPT ![c] = Page(Filter(c), Rows(log))]
  /\ UNCHANGED <<state, wconn, lock, file, proc, ask, rec, known, total, classes>>

QueryPage(c) ==
  /\ pc[c] = "begun"
  /\ Goto(c, "scanning")
  /\ view' = [view EXCEPT ![c] = Rows(log)]
  /\ page' = [page EXCEPT ![c] = Page(Filter(c), Rows(log))]
  /\ UNCHANGED <<state, wconn, lock, file, proc, ask, rec, known, total, classes>>

\* rows.Close, once the page is fully materialised.
CloseRows(c) == /\ pc[c] = "scanning"
                /\ Goto(c, "paged")
                /\ UNCHANGED <<state, wconn, lock, file, proc, ask, rec, view, got, known>>

\* Mutants of the next two: no transaction, each query sees the docket anew.
QueryCountUnpinned(c) ==
  /\ pc[c] = "paged"
  /\ Goto(c, "counted")
  /\ total' = [total EXCEPT ![c] = Total(Filter(c), Rows(log))]
  /\ UNCHANGED <<state, wconn, lock, file, proc, ask, rec, view, known, page, classes>>

QueryClassesUnpinned(c) ==
  /\ pc[c] = "counted"
  /\ Goto(c, "reviewed")
  /\ classes' = [classes EXCEPT ![c] = Tally(Filter(c), Rows(log))]
  /\ UNCHANGED <<state, wconn, lock, file, proc, ask, rec, view, known, page, total>>

QueryCount(c) ==
  /\ pc[c] = "paged"
  /\ Goto(c, "counted")
  /\ total' = [total EXCEPT ![c] = Total(Filter(c), view[c])]
  /\ UNCHANGED <<state, wconn, lock, file, proc, ask, rec, view, known, page, classes>>

\* The last query; List rolls back and returns, and the handler replies.
QueryClasses(c) ==
  /\ pc[c] = "counted"
  /\ Goto(c, "reviewed")
  /\ classes' = [classes EXCEPT ![c] = Tally(Filter(c), view[c])]
  /\ UNCHANGED <<state, wconn, lock, file, proc, ask, rec, view, known, page, total>>

-----------------------------------------------------------------------------
Process(p) == \/ Launch(p) \/ Migrate(p) \/ Opened(p) \/ OpenFails(p)
              \/ Close(p) \/ Crash(p)

Ask(c) == \E p \in Procs :
            \/ \E o \in Observations, t \in Times, n \in Suffixes :
                 CallRecord(c, p, o, t, n)
            \/ \E f \in Filters : CallReview(c, p, f)

Write(c) == \/ GetConn(c) \/ GetLock(c) \/ BusyTimeout(c) \/ Commit(c)
            \/ Conflict(c) \/ Acknowledge(c)

Read(c) == \/ QueryPage(c) \/ CloseRows(c) \/ QueryCount(c) \/ QueryClasses(c)

Next == \/ \E p \in Procs : Process(p)
        \/ \E n \in synced..Len(log) : PowerLoss(n)
        \/ Checkpoint
        \/ \E c \in Calls : Ask(c) \/ Write(c) \/ Read(c) \/ GiveUp(c)

Spec == Init /\ [][Next]_vars

(* Fairness.  A statement that has what it needs runs; a busy handler       *)
(* polls, and ends one way or the other within five seconds; a migration    *)
(* that holds the write lock finishes.  Nothing obliges a client to call, a *)
(* process to start or stop, or a call to fail.                             *)

FairReads == \A c \in Calls : WF_vars(Read(c))

FairWrites == /\ \A c \in Calls :
                   /\ WF_vars(GetConn(c))
                   /\ WF_vars(GetLock(c) \/ BusyTimeout(c))
                   /\ WF_vars(Commit(c) \/ Conflict(c))
                   /\ WF_vars(Acknowledge(c))
              /\ \A p \in Procs : WF_vars(Opened(p))

ReadsFairSpec == Spec /\ FairReads
FairSpec      == Spec /\ FairReads /\ FairWrites

-----------------------------------------------------------------------------
TypeOK ==
  /\ state \in [Procs -> {"down", "opening", "migrating", "up"}]
  /\ wconn \in [Procs -> Calls \cup {None}]
  /\ lock \in Calls \cup Procs \cup {None}
  /\ log \in Seq(Row)
  /\ synced \in Nat
  /\ lost \subseteq Row
  /\ pc \in [Calls -> {"idle"} \cup InFlight \cup Done]
  /\ proc \in [Calls -> Procs \cup {None}]
  /\ ask \in [Calls -> Records \cup Reviews \cup {None}]
  /\ rec \in [Calls -> Row \cup {None}]
  /\ view \in [Calls -> SUBSET Row] /\ \A c \in Calls : IsFiniteSet(view[c])
  /\ page \in [Calls -> SUBSET Row]
  /\ total \in [Calls -> Nat]
  /\ DOMAIN classes = Calls
  /\ \A c \in Calls : classes[c] \in [DOMAIN classes[c] -> Nat]
  /\ known \in [Calls -> SUBSET Row]

\* Who holds what: the write lock belongs to exactly the call that is writing
\* or the process that is migrating, the write connection to the call between
\* taking and returning it, and only a live process has calls under way.
Held ==
  /\ \A c \in Calls : lock = c <=> pc[c] = "writing"
  /\ \A p \in Procs : lock = p <=> state[p] = "migrating"
  /\ \A p \in Procs, c \in Calls :
       wconn[p] = c <=> /\ pc[c] \in {"connected", "writing", "committed"}
                        /\ proc[c] = p
  /\ \A c \in Calls : pc[c] \in InFlight => /\ proc[c] \in Procs
                                            /\ state[proc[c]] = "up"

\* No two rows of the docket answer to one id, although ids are drawn at random
\* and clocks repeat themselves.
UniqueIds == \A i, j \in DOMAIN log : log[i].id = log[j].id => i = j

\* A record the client was told of is in the docket, unless a power cut took it
\* from the tail that had not been flushed.
AcknowledgedKept == Recorded \subseteq Rows(log) \cup lost

\* A review is one state of the docket: its total is the size of its match, its
\* tally counts that match by class, its page is full unless the match ends, and
\* it is truncated exactly when rows of the match are missing from the page.
OneSnapshot ==
  \A c \in Calls : pc[c] = "reviewed" =>
    LET out == Review(c)
        size == Cardinality(out.observations)
    IN /\ out.total = Cardinality(Where(Filter(c), view[c]))
       /\ \A k \in DOMAIN out.class_counts : out.class_counts[k] <= out.total
       /\ out.class_counts = Tally(Filter(c), view[c])
       /\ size = IF out.total < Limit(Filter(c)) THEN out.total ELSE Limit(Filter(c))
       /\ out.truncated <=> \E r \in Where(Filter(c), view[c]) : r \notin out.observations

\* Read your writes and monotonic reads, across processes: a row that a reply
\* of a record or of a review had shown before a review began, and that is still
\* stored, is in its answer, or it is older than a full page and the answer says
\* it was truncated.
SeesAcknowledged ==
  \A c \in Calls : pc[c] = "reviewed" =>
    \A r \in known[c] :
      Selected(Filter(c), r) =>
        LET out == Review(c)
        IN \/ r \in out.observations
           \/ /\ out.truncated
              /\ \A s \in out.observations : Older(r, s)

\* Append-only: an entry keeps its place and content for ever.  The log shrinks
\* only when every process dies at once, and never below what was flushed.
AppendOnly ==
  [][/\ \A i \in DOMAIN log \cap DOMAIN log' : log'[i] = log[i]
     /\ Len(log') < Len(log) => /\ Len(log') >= synced
                                /\ \A p \in Procs : state'[p] = "down"]_vars

\* A call writes at most one row, and only while it is under way: whatever is
\* appended is the stamped row of the one call that holds the write lock.
OneRowPerRecord ==
  [][Len(log') > Len(log) =>
       \E c \in Calls : /\ lock = c /\ wconn[proc[c]] = c
                        /\ log' = Append(log, rec[c])
                        /\ pc'[c] = "committed"
                        /\ \A d \in Calls \ {c} : pc'[d] = pc[d]]_vars

\* The comment on Open, store.go:184-187, says of the count and tally queries
\* that List issues them while the rows of the page query are still open.
TalliesWithRowsOpen ==
  [][\A c \in Calls : pc[c] # pc'[c] /\ pc'[c] = "counted" => pc[c] = "scanning"]_vars

\* Every call that was made ends, with a result or an error.
EveryCallEnds == \A c \in Calls : pc[c] \in InFlight ~> pc[c] \in Done

\* A review ends although no writer is obliged to move: it waits for no lock.
ReviewsNeverWait == \A c \in Calls : pc[c] \in Reading ~> pc[c] \in Done

-----------------------------------------------------------------------------
(* The inductive invariant: what each place in a call's program implies      *)
(* about its row, its snapshot and what its queries have returned.           *)

Stamped == \A c \in Calls : pc[c] \in Writing \cup {"recorded"} =>
             /\ rec[c] \in Row
             /\ ask[c] \in Records
             /\ rec[c].obs = ask[c].obs

Entered == \A c \in Calls : pc[c] = "committed" => rec[c] \in Rows(log)

Pinned == \A c \in Calls :
  /\ pc[c] \in Reading \cup {"reviewed"} => ask[c] \in Reviews
  /\ pc[c] \in {"scanning", "paged", "counted", "reviewed"} =>
       page[c] = Page(Filter(c), view[c])
  /\ pc[c] \in {"counted", "reviewed"} => total[c] = Total(Filter(c), view[c])
  /\ pc[c] = "reviewed" => classes[c] = Tally(Filter(c), view[c])

\* A snapshot has the ids of the docket it was taken of, and in it is all that
\* was known when the review began: a power cut that takes any ends the review.
Snapshots == \A c \in Calls :
  /\ Sortable(view[c])
  /\ pc[c] = "begun" => known[c] \subseteq Rows(log)
  /\ pc[c] \in {"scanning", "paged", "counted", "reviewed"} => known[c] \subseteq view[c]

Flushed == synced <= Len(log)

IInv == /\ TypeOK /\ Held /\ UniqueIds /\ AcknowledgedKept
        /\ Stamped /\ Entered /\ Pinned /\ Snapshots /\ Flushed

-----------------------------------------------------------------------------
(* The store implements the docket.  A record takes effect when its INSERT  *)
(* commits, a review when its first query fixes the snapshot.               *)

PhaseOf(label) ==
  CASE label = "idle" -> "idle"
    [] label \in {"stamped", "connected", "writing", "begun"} -> "asked"
    [] label \in {"committed", "scanning", "paged", "counted"} -> "held"
    [] label \in {"recorded", "reviewed"} -> "replied"
    [] label = "failed" -> "failed"

Result(c) ==
  CASE pc[c] \in {"committed", "recorded"} -> rec[c]
    [] pc[c] \in {"scanning", "paged", "counted"} -> Answer(Filter(c), view[c])
    [] pc[c] = "reviewed" -> Review(c)
    [] OTHER -> None

D == INSTANCE Docket WITH docket <- log,
                          phase <- [c \in Calls |-> PhaseOf(pc[c])],
                          ask <- ask,
                          result <- [c \in Calls |-> Result(c)]

ImplementsDocket == D!Spec
=============================================================================
