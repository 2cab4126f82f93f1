# A TLA+ verification of field-docket

field-docket is an MCP server through which coding agents record observations
about the tools they use, and review them later. The record is one SQLite file
(the *docket*), append-only. Every agent session runs a server process of its
own, all of them on the same file, so the concurrency that matters is between
processes, through SQLite's locks and its write-ahead log, as much as between
the handlers of one process.

This directory holds TLA+ models of that system, the TLC configurations that
check small instances of them, and TLAPS proofs for instances of every size.
`PROJECT.json` maps each definition to the source lines it models.

## 1. Inventory

Paths are relative to `src/`.

### Store (`internal/store/store.go`)

*State*: the file (its committed rows, what of its WAL is flushed), the file's
single write lock; per process a write handle limited to one connection and a
read handle with as many as it needs.
*Operations*: `Open`, `Append`, `List`, `Snapshot`, `Close`.
*Interaction*: handlers of one process run concurrently and meet at the write
connection; processes meet at the write lock. `Append` inserts in a
`BEGIN IMMEDIATE` transaction with a busy timeout of five seconds. `List` runs
three queries (page, total, tally per class) in one read-only transaction.
*Hard*: the order of stamping, waiting and committing; errors and cancellations
that must give back connection and lock; a review that spans commits of others;
process death and power loss under `synchronous=NORMAL`; ids drawn at random.
*Correct when*: an acknowledged record stays; ids name one row; a review is one
state of the docket and sees what was acknowledged before it; no call is stuck;
reviews do not wait for writers.

### Opening and migrating (`store.go` `Open`, `initialize`; `schema.go`)

*State*: the file's journal mode, its committed schema and `user_version`, the
migration transaction of each process that is opening.
*Operations*: connect (which switches a new file to WAL), migrate, retry.
*Interaction*: several processes, of different releases, launched at once at a
file that does not exist yet, or that a newer release has migrated.
*Hard*: SQLite refuses the losers of the switch to WAL, who may be all that
tried, at once rather than after the busy timeout; the version must be read under the lock; a crash in the
middle of the ladder; releases that meet.
*Correct when*: a partly applied migration is never seen; nobody trips over
another's tables; an older binary refuses a newer file; nobody is turned away
before its attempts are used up, each by a race on a new file or a full busy timeout;
every open ends.

### Ids and timestamps (`id.go`, `store.go` `formatTime`)

An id is a version 7 UUID, time-ordered by its millisecond prefix and random
after it; a timestamp is fixed-width text in UTC, compared as text. *Hard*: the
ends of the calendar, the zero time and the year 10000, which a bound reaches
through its offset. *Correct when* the order of texts is the order of instants.

### Tool handlers (`internal/server`: `record.go`, `review.go`, `server.go`)

*State*: whether the session has a store (`unavailable`).
*Operations*: `record_observation`, `review_observations`, the middleware for
null arguments.
*Hard*: the two handlers normalise separately and must agree for ever, since
what was written cannot be corrected; time bounds arrive in any zone; an entry's
text is capped in bytes although its characters have several.
*Correct when*: an accepted record is found by exactly the reviews that name it;
nothing is filed where no review by scope finds it; an entry shows whole
characters, as many as fit; no arguments end a session.

### Backward paging (a protocol of `review_observations` and its client)

The client passes `recorded_at` and `id` of a page's last observation as the
cursor of the next. *Hard*: ties on the millisecond, rows that commit during the
walk and out of timestamp order, the out-of-band redaction the README of the
program describes. *Correct when* a finished walk missed nothing that was there
throughout, and every walk finishes.

### Snapshot (`store.go` `Snapshot`; `main.go` `runSnapshot`)

*State*: the destination file, the staging directories beside it with their
intermediate copies.
*Operations*: reserve a directory, `VACUUM INTO`, chmod, rename, clear.
*Interaction*: runs overlap (a scheduled one and a manual one), servers record
meanwhile, a backup tool reads the destination at any time.
*Hard*: SQLite chooses the copy's mode and the chmod comes after; every step and
the clean-up may fail; a killed run clears nothing.
*Correct when*: what others can reach is always a finished, private copy of one
state of the docket; runs do not collide with each other or with leftovers; a
run that succeeded leaves the destination no older than itself, but for a run it
overlapped.

### Locating and checking a store (`config.go`, `path.go`, `permissions.go`, `main.go` `resolveStore`)

*State*: the files of each store (database, `-wal`, `-shm`, `-journal`) and their
modes; the config files.
*Operations*: `config.Load`, `CheckPermissions`, `allowlisted`, the decision of
each entry point (a server declines a suspect store, a snapshot warns and runs),
and what `Open` and `Close` do to the files.
*Interaction*: several processes check, open and close one store, and whoever
can reach the files may change them.
*Hard*: the check reads one file after the other, once; sidecars come and go with
other processes; paths come in different spellings.
*Correct when*: a store exposed throughout the check is not served unless its
config names it; a finding means that somebody else touched the files; a
declined store is left alone.

### Not modelled

| Part | Why |
|---|---|
| flag parsing, the MCP transport, `isCleanShutdown` | glue around the flag package and the SDK; its effect on the store (a process comes up, closes, or dies with calls under way) is in `Store`, and the two entry points are in `Resolve`. `Store.Close` waits for calls under way, which is what the SDK's `Run` is relied on for |
| tool descriptions, JSON schemas, the refusal message and its shell quoting | wording, and validation by the SDK; what the schemas refuse is `Valid` in `Server` |
| YAML parsing, an unreadable config, a missing home directory | a library's, or an error that ends the process before it has done anything |
| the store's directory and its mode; a database that is a link, dangling or not | the check does not look at the directory; it follows the database, which the model does by giving the file its target's mode |
| Windows | `CheckPermissions` returns at once there |
| power loss in `Snapshot` | the code does not flush the copy; what a power cut leaves of it is the file system's |
| the docket's own path as the destination of a snapshot | assumed away, as the subcommand's description does |

## 2. Modules

| Module | What it is |
|---|---|
| `Query` | what a review computes from the rows it sees: `Filter.where`, page, total, tally, `truncated` |
| `QueryProofs` | lemmas about `Query`, used by the proofs of `Store` and `Walk` |
| `Docket` | the abstract specification: calls that take effect at most once, at one instant |
| `Store` | the running store: processes, handles, locks, transactions, crashes; extends `Query`, implements `Docket` |
| `StoreProofs` | proofs about `Store` |
| `Open` | the opening of one file by several processes; instantiates `Store`, whose `Launch`, `Migrate`, `Opened`, `OpenFails`, `Close` and `Crash` it implements |
| `OpenProofs` | proofs about `Open` |
| `Server` | the two handlers above the store; extends `Query` |
| `ServerProofs` | proofs about `Server` |
| `Walk` | paging clients on the docket; extends `Query` |
| `WalkProofs` | proofs about `Walk` |
| `Backup` | the abstract specification of a backup destination: a register of docket states |
| `Snapshot` | the runs of `field-docket snapshot`; implements `Backup` |
| `SnapshotProofs` | proofs about `Snapshot` |
| `Resolve` | which store a process works on, whether it opens it, and the files' modes |
| `ResolveProofs` | proofs about `Resolve` |
| `MCStore`, `MCOpen`, `MCServer`, `MCWalk`, `MCSnapshot`, `MCResolve` | small instances for TLC |

### How `Store` corresponds to the code

`pc[c]` is the place of call `c` in its handler. A record goes
`stamped` (the row has its time and id) → `connected` (database/sql gave it the
write connection) → `writing` (`BEGIN IMMEDIATE` got the lock) → `committed` →
`recorded` (the handler replied, the connection went back). A review goes
`begun` → `scanning` (the page query fixed the snapshot, `view[c]`) → `paged`
(rows closed) → `counted` → `reviewed`. `GiveUp` is a cancelled context or a
storage error at any of these places; `BusyTimeout` and `Conflict` are the two
errors with a cause in the model. All three run `Abandon`, the whole error path.
`log` is the committed rows in commit order and `synced` the prefix that is on
stable storage: `Crash` takes a process with its calls and locks, `PowerLoss`
takes all processes and an unflushed tail of the log. A record that was not
acknowledged may still be in the log afterwards: that is the code's behaviour.
`lost` and `known` are history variables, read by properties only: `known[c]` is what
was stored, of all that replies of records and reviews had shown (`Told`), when review
`c` began.

Ids are pairs of the millisecond and a suffix. With one suffix and two clock
readings collisions are forced; the primary key (`IdTaken`) is what prevents a
duplicate, as in the schema.

### How `Open` corresponds to the code

`connecting` is `PingContext` in `initialize`, which switches a file that is not
in WAL mode: `sharing` has read the header and holds SQLite's shared lock,
`flipping` has the exclusive lock (`Flip`, `Flipped`). Whoever asks for that while
another process shares is refused and drops its own shared lock only afterwards
(`Collide`, `losing`), so that two who race may both lose; whoever comes while the lock
is held is refused as well (`FlipRefused`). `waiting` is `BEGIN IMMEDIATE`; `reading`, `applying`, `bumped` are the migration
transaction, one ladder statement per `Apply`. `Busy` is the branch on
`isBusy`, `Retry` the next iteration after the backoff. `tx[p]` is the schema as the
transaction sees it; it becomes a committed schema in `Commit` only. Statements
are numbered: version *v*'s ladder is `1..v*Stmts`. A `CREATE TABLE` that finds its
table (`next[p] \in tx[p].applied`) fails the open (`broken`), which the property
`NeverBroken` says does not happen.

How long a lock is held is not modelled: `Retry` is a timer that may end before or
after the hold that refused the process, so a process may lose every race and be
turned away (`locked`). Whether twelve attempts and the 1.65 seconds of their backoffs
outlast a given stampede is a question of real time, which nothing here answers.
`LockedOutWithCause` says what does not depend on time: the attempts are used up, and
those begun on a file in WAL mode cost a busy timeout each, as the comment on
`initialize` says. For that the histories `cold[p]` and `timeouts[p]` count the attempts
a process began while the file was not in WAL mode, and its busy timeouts; no action
reads them.

`Store` sees of all this four states of a process (`down`, `opening`, `migrating`,
`up`) and one hold of the write lock. `S` instantiates `Store` with that mapping
and no calls, and `ImplementsOpening` says that every step of opening is a step of
`Store`'s processes. The lock of a switch to WAL is not shown: a record never
meets it, since no process serves a file that is not in WAL mode. `Store`'s
fairness of `Opened` is what `EveryOpenEnds` shows of the detail.

### How `Server` and `Walk` correspond to the code

In `Server` a text argument is what remains after trimming plus whether there
was anything to trim, and lower case is a function; `Observed` is what
`recordObservation` stores, `FilterOf` what `reviewObservations` asks for,
`Instant` the conversion to UTC, and `AsText` where the stored text of that instant
sorts: from the year 10000 on (`Year10000`) the text has a digit too many and sorts
just before the year 1001 (`Year1001`), below every row. The zero time is 0 and means
that the bound is absent, as in the code. `Runes[t]` lists the widths of a text's
characters, and `Clip` backs up from the cap to where one starts. `Append` and `List` are one step each, since
`Store` shows that they take effect at one instant. A panic (the SDK on null
arguments, a nil store) ends the session. In `Walk` a review is one step for the
same reason; `Record` commits any row not yet recorded, in any timestamp
order; `Redact` is the operator's `DELETE`.

### How `Snapshot` corresponds to the code

`pc[r]` is the place of a run in `Snapshot`: `reserved` (the staging directory is
there) → `copying` → `copied` (`VACUUM INTO` returned) → `secured` (mode 0600) →
`moved` (renamed) → `done`; `erring` is an error return whose deferred clean-up
is still to run, and `Clear` is that clean-up on both paths. `ClearFails` is its
own error, which turns a success into a failure although the destination was
replaced. A copy is the number of rows it holds, whether it is complete and
whether its mode is 0600; `VACUUM INTO` reads one state of the docket, the one at
its start. `MkdirTemp` chooses any unused name, so a directory left by a killed
run stays taken. Each step finds its file or errs: that it does is a property
(`FailsOnItsOwn`), not an assumption. `began`, `rivals` and `erred` are history
variables. The refinement maps the destination to the rows it holds, and to
none of `Backup`'s values were it ever unfinished or exposed.

### How `Resolve` corresponds to the code

A process is invoked with an entry point, a flag and an environment variable
(`asked`). `Load` is `config.Load` and the choice of the path; `Inspect` is one round
of the loop in `CheckPermissions`; `Decide` is the rest of `resolveStore` and what
the two entry points do with the outcome; `Create` is the `O_EXCL` of `Open`,
`Connect` the driver making what is missing, the sidecars at the database's mode;
`Close` removes the sidecars when it is the last one. `End` is an error, a kill,
or the end of a session that was declined. A process that was refused its config ends at once.
`Touch` is anyone outside the program, and `Change` keeps the history `since`: the
files that have been exposed ever since a check began.

## 3. Runs

| Run | Question | Properties |
|---|---|---|
| `store_safety` | records of two processes under every failure | `Held`, `UniqueIds`, `AcknowledgedKept`, `AppendOnly`, `OneRowPerRecord` |
| `store_refines` | records and reviews interleaved query by query | `IInv`, `OneSnapshot`, `SeesAcknowledged`, `ImplementsDocket` |
| `store_progress` | does every call end | `EveryCallEnds` |
| `store_reads` | do reviews wait for writers | `ReviewsNeverWait` |
| `store_rows_open` | a comment on `Open` about `List` (section 6) | `TalliesWithRowsOpen`, violated |
| `open_ladder` | three processes of two releases at a new file, under every failure | `IInv`, `SchemaWhole`, `NeverBroken`, `ServedSchema`, `OpensAtOwnVersion`, `VersionClimbs`, `ImplementsOpening` |
| `open_stampede` | the cold-start race and the retry budget | `LockedOutWithCause`, `EveryOpenEnds` |
| `server` | every small combination of spellings, blanks, kinds, zones, ends of the calendar and character widths | `IInv`, `Findable`, `Windowed`, `ViewsWhole`, `Filed`, `SessionsSurvive` |
| `server_bounds` | a comment on the stored layout, and since at the year 10000 (section 6) | `SinceHolds`, violated |
| `walk` | a walk under concurrent records and redaction | `IInv`, `WalkMissesNothing`, `PagesGoBackward`, `WalkEnds` |
| `snapshot` | overlapping runs to one destination, failed and killed at every step | `IInv`, `VisibleIsFinished`, `FailsOnItsOwn`, `Litter`, `FreshAfterSuccess`, `ImplementsBackup` |
| `resolve` | two processes check, open and close stores whose files are touched from outside | `IInv`, `NeverServedExposed`, `DeclinedWithCause`, `TouchesOnlyItsOwn` |

For each property `PROJECT.json` names a mutant: a changed definition, standing
in the module next to the original and marked *Mutant*, that a plausible bug
would produce and under which TLC finds the property violated.

### Bounds, and why they are enough

- `MCStore`: three calls on two processes, or two where liveness forbids symmetry. Three records make two wait while one writes, on the
  connection and on the lock; a review between two records sees a docket that
  changes under each of its three queries. `store_refines` has two processes,
  so that a review meets what another process acknowledged; its two filters leave rows
  out, or off the page, and its records are of one class (classes are told apart in
  `server`, and in `ReviewsAddUp` for any docket). Two clock readings and one suffix
  force id collisions; a page of one row forces truncation.
- `MCOpen`: one process of release 1 and two of release 2, so that a file can be
  ahead of, level with, and behind a process, and two equals race. `MaxMishaps`
  bounds crashes, errors and busy timeouts together: one for
  the ladder, two for the stampede. With two attempts a process is turned away in
  every way there is: by two lost races, by a race and a busy timeout, by two busy
  timeouts; with three processes all may lose a race, or two while the third wins. Power cuts are not
  counted against it; they end every process. The proofs need neither bound.
- `MCServer`: two sessions, at most two rows (`MaxRows`). The properties are about
  one record and one review, or two reviews; the second row is there for a review
  that finds one and not the other.
  Times run from 0, the zero time, to past `Year10000` = 5, and rows are stamped 2
  or 3. The cap is four bytes, the widest character; the texts end their
  characters before, at and astride it.
- `MCSnapshot`: three runs, three names, one record. Two runs overlap while a
  third has ended or was killed; three suffice for a run that overlapped one that
  has ended by the time the next begins. One record tells an older copy from a
  newer one.
- `MCResolve`: two processes and two touches from outside, which suffice to expose a file and
  hide it again, or to remove a database and expose another; two stores, one of
  them in two spellings; configs that exempt the store in the other spelling,
  name another, are missing or do not parse.
- `MCWalk`: one walk, a pool of five rows in two milliseconds, pages of one and
  two rows, so that pages end within a tie and rows arrive behind and ahead of
  the cursor. Walks do not affect one another.

`CHECK_DEADLOCK FALSE` stands in the `Open` runs, where a process runs once and is
over, in `walk`, where the walk ends and the pool runs out, and in `snapshot` and
`resolve`, where runs and processes are over once they end.

## 4. Fairness

- `store_reads`: only the queries of reviews run (`ReadsFairSpec`). Writers may
  stop while they hold the lock, and reviews still end.
- `store_progress`: besides, a statement that has its connection and lock runs, a
  waiting one gets the lock or times out (SQLite's busy handler polls and
  gives up after five seconds, so that disjunction is fair although getting the
  lock alone is not), and a migration that holds the lock finishes.
  database/sql serves its queue of waiters in order; weak fairness of `GetConn`
  is enough here because calls are finitely many.
- `open_stampede`: a process that has started its opening takes its next step.
  Busy timeouts are part of `Migrate`, failures are not obliged to happen.
- `walk`: a client that began a walk asks for its next page.

Nothing obliges a client to call, a process to start, stop or fail, or a checkpoint to
run.

## 5. Proofs

TLAPS checks, for every value of the constants that satisfies the named
assumptions in the modules: times are positive, the actors differ from `None`, the
limit of a filter is an integer (`Store`); at least one attempt,
versions and statements positive (`Open`); a walk begins without a cursor, and the rows of
its pool have ids that are a primary key (`Walk`); lower-casing is idempotent and
makes no text blank, a character has one to four bytes and the cap room for one,
rows are stamped within the years that four digits can write, bounds are parsed
from such years, and null and missing arguments are none of the others (`Server`).

`QueryProofs` holds what the others need of a page. Rows with ids that are a primary key
are totally ordered by `Older`, and a finite set of them has an oldest and a newest
(the library's well-founded strict subsets, applied to the sets of older rows). From
that: `PageNewest` (what is off the page is older than what is on it), `PageSize` (a page is
full or is the whole match), `TruncatedMeansMore`, `BelowThePage` and `TallyBounded`.

`StoreProofs`

| Theorem | Statement |
|---|---|
| `Invariance`, `TypeCorrect` | `Spec => []IInv`, `Spec => []TypeOK` |
| `NothingLeaks` | `Spec => []Held` |
| `NothingAcknowledgedIsLost` | `Spec => []AcknowledgedKept` |
| `IdsNameRows` | `Spec => []UniqueIds` |
| `DocketAppendOnly` | `Spec => AppendOnly` |
| `RecordsWriteOneRow` | `Spec => OneRowPerRecord` |
| `ReviewsAddUp` | `Spec => []OneSnapshot` |
| `ReviewsSeeAcknowledged` | `Spec => []SeesAcknowledged` |
| `Refinement` | `Spec => ImplementsDocket` |

`IInv` adds to the properties what each place in a call's program implies: from
`stamped` on a record has a row with its observation (`Stamped`), at `committed`
that row is in the log (`Entered`), and a review's page, total and tally are those of its
snapshot (`Pinned`). `AcknowledgedKept` is not inductive without `Entered`,
`Entered` is kept by a power cut only because `PowerLoss` also ends the call, and
`UniqueIds` needs that the one writer checks the key and appends in one step.
The refinement maps a record's effect to its commit and a review's to its first
query, and its result to what the remaining queries will return; `Pinned` is
what makes the last query a stutter.

The two theorems about reviews rest on `Snapshots`: the rows of a snapshot have
the ids of the docket it was taken of, and hold what was known when the review began,
since a power cut that takes any of that also ends the review. The rest is the lemmas
about pages, which is why both hold for any limit and any number of rows.

`OpenProofs`

| Theorem | Statement |
|---|---|
| `Invariance`, `TypeCorrect` | `Spec => []IInv`, `Spec => []TypeOK` |
| `SchemaAlwaysWhole` | `Spec => []SchemaWhole` |
| `LadderNeverTripped` | `Spec => []NeverBroken` |
| `AlwaysServed` | `Spec => []ServedSchema` |
| `TurnedAwayWithCause` | `Spec => []LockedOutWithCause` |
| `OpensOwnVersion`, `VersionOnlyClimbs` | `Spec => OpensAtOwnVersion`, `Spec => VersionClimbs` |

The schema half of `IInv` says what a process that holds the write lock knows:
its transaction is the newest committed schema plus the statements it has run
(`Transaction`), true because the lock is exclusive (`LockHeld`). The retry half (`Patience`)
says what the attempts of a process cost it: before the switch to WAL mode all of them were
cold ones, and after it only a busy timeout ends one with `SQLITE_BUSY`. The step that
needs an argument is a refused switch: a process that lost the race is
still on a file in the old mode, because nobody gets a lock, let alone switches, while
others race (`Race`). No assumption about time or about who wins enters.
`Refinement` (`Spec => ImplementsOpening`) needs the lock half only: a move of one
process moves `Store`'s lock exactly when it enters or leaves the migration
(`Moved`), and `MoveRefines` then names `Store`'s action for each pair of states.

`SnapshotProofs`

| Theorem | Statement |
|---|---|
| `Invariance`, `TypeCorrect` | `Spec => []IInv`, `Spec => []TypeOK` |
| `NothingUnfinishedShows` | `Spec => []VisibleIsFinished` |
| `RunsKeepApart` | `Spec => []FailsOnItsOwn` |
| `LitterExplained` | `Spec => []Litter` |
| `SuccessIsFresh` | `Spec => []FreshAfterSuccess` |
| `Refinement` | `Spec => ImplementsBackup` |

`Owned` (a directory is one run's for as long as the run is under way) makes every
step find what it needs, so that `Staged`, what each place knows of its
intermediate, is kept by the steps of the others. Freshness needs `Overlap`: a
run that has ended and one under way that it did not meet began in that order,
hence with no fewer rows.

`ResolveProofs`

| Theorem | Statement |
|---|---|
| `Invariance`, `TypeCorrect` | `Spec => []IInv`, `Spec => []TypeOK` |
| `ServedWasPrivate` | `Spec => []NeverServedExposed` |
| `FindingsMeanSomething` | `Spec => []DeclinedWithCause` |
| `DeclinedIsUntouched` | `Spec => TouchesOnlyItsOwn` |

`Seen` says that of the files inspected so far those exposed throughout were
found; `Untouched` that in a store nobody else touched every file is private and
the database is there once a process has created it, without which the driver
would create it at the umask's mode and the next process would find that.

`WalkProofs`

| Theorem | Statement |
|---|---|
| `Invariance` | `Spec => []IInv` |
| `NothingMissed` | `Spec => []WalkMissesNothing` |
| `OnlyBackward` | `Spec => PagesGoBackward` |

`WalkMissesNothing` speaks of finished walks only. `Placed` says where an unfinished
one is: nothing it has seen is older than its cursor, and what it has yet to see of
the docket it began with lies beyond the cursor. A page keeps that because what is off it
is older than its last row (`PageNewest`), and the last page because it is not truncated
and so is the whole of what is left. A row recorded behind the cursor, or redacted, is in
neither set.

`ServerProofs`

| Theorem | Statement |
|---|---|
| `Invariance` | `Spec => []IInv` |
| `SessionsNeverFall` | `Spec => []SessionsSurvive` |
| `NothingMisfiled` | `Spec => []Filed` |
| `RecordsAreFound` | `Spec => []Findable` |
| `BoundsAreInstants` | `Spec => []Windowed` |
| `ViewsAreWhole` | `Spec => []ViewsWhole` |

`StepKinds` reduces a call of either tool, null arguments included, to a refusal, an
answer or one accepted record, and `Accepted` keeps, of each record, the arguments it was
made of. `RecordsAreFound` then compares what the two handlers make of a class and a scope,
`BoundsAreInstants` the text of a bound with the instant it was written for.
`EndOf` and `Clip` are recursive functions over a text. That they are functions
at all, and what they compute, is derived without an induction theorem: a set of
numbers has a least element (`LeastNumber`), hence a set that holds 0 and with each number the
next holds all up to N (`StepByStep`), hence a function can be built step by step
(`StepwiseFunction`). `LastStart` is what walking back from the cap finds, and
`ViewsAreWhole` follows because characters have at least one byte.

The invariants `IInv` are also checked by TLC, in `store_refines`,
`open_ladder`, `snapshot`, `resolve`, `server` and `walk`.

Only model-checked: liveness, whose steps rest on ENABLED (`EveryCallEnds`,
`ReviewsNeverWait`, `EveryOpenEnds`, `WalkEnds`). Every safety property of a passing run is
stated by a theorem.

## 6. What the checks found

`List` closes the rows of the page query before it counts (`store.go:454-458`).
The comment on `Open` (`store.go:184-187`) gives as the reason for two handles that
a second query on a single handle would wait for ever while rows are open, and
that "List does exactly that when it tallies classes". It does not, and with
its queries on one pinned transaction it could not. The run `store_rows_open`
shows the disagreement. The two handles are still needed: `store_reads` has a
mutant in which the read handle begins immediate, and reviews then wait.

`formatTime` does not keep its width at the end of the calendar. A `since` or
`before` is parsed in its own zone, where the year has at most four digits, and
converted to UTC, where it can be 10000: `9999-12-31T23:30:00-01:00`. Its text then has
five digits for the year and sorts below every row, so that a review *since* that moment
returns the whole docket, although `store.go:59-61` derives from the fixed width that
text order is time order and the schema (`review.go:52`) says that `since` restricts to
rows at or after it. The run `server_bounds` shows it (`SinceHolds`); for every bound the
four digits can hold, `Windowed` says that the window is exact. No stored row can
carry such a time, so the harm ends with that review.

Four behaviours are part of the models and not defects by any statement in the
repository: a record whose call failed after its commit is in the docket
(and a client that repeats it records it twice); rows commit out of timestamp
order, so that polling with `since` can miss a row that commits late; a
process goes on serving after a newer release migrated its file; and of two
snapshots that overlap, the slower may put an older copy in the place of a newer
one.

## 7. Plan

In this order:

1. Composition: a session from `Resolve`'s decision through `Open` to `Server`, so
   that `served` is what was decided rather than any value.
2. A retrying client above `Store`: how many rows a record that was repeated after
   an error can leave.
3. Proofs about both, from the invariants of the parts.
