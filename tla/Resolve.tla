------------------------------- MODULE Resolve -------------------------------
(***************************************************************************)
(* Which store a process works on and whether it opens it: the config it   *)
(* was pointed at, the permission check on the store's files, the          *)
(* allowlist, and what opening and closing do to those files.  The check   *)
(* reads one file after the other while other processes open and close the *)
(* store and somebody outside the program may touch its files.             *)
(*                                                                         *)
(* Paths are written in spellings (with ~, relative, unclean, padded);     *)
(* Clean gives the absolute path of each, Blank is all whitespace.  A file *)
(* is absent, private (0600), loose (reachable by others) or, a sidecar    *)
(* only, a symbolic link: the database is followed.  The model has POSIX   *)
(* modes: on Windows nothing is checked.                                   *)
(***************************************************************************)
EXTENDS Integers, Sequences

CONSTANTS Procs,
          Spellings, Clean, DefaultPath,  \* store paths; the XDG default's spelling
          Disk, XdgConfig,                \* the config files, by path; the default path
          Invocations,                    \* [entry, flag, env] of a process
          Blank, Missing, Garbled,
          MaxTouches                      \* bound on what is done from outside

Configs == [store : Spellings \cup {Blank}, allow : SUBSET (Spellings \cup {Blank})]
Knobs   == DOMAIN Disk \cup {Blank}

ASSUME PathsAssumption  == DefaultPath \in Spellings /\ Clean \in [Spellings -> STRING]
ASSUME ConfigAssumption ==
  /\ XdgConfig \in DOMAIN Disk /\ Blank \notin Spellings \cup DOMAIN Disk
  /\ Disk \in [DOMAIN Disk -> Configs \cup {Missing, Garbled}]
  /\ {Missing, Garbled} \cap Configs = {} /\ Missing # Garbled
  /\ Invocations \subseteq [entry : {"serve", "snapshot"}, flag : Knobs, env : Knobs]
ASSUME TouchesAssumption == MaxTouches \in Nat

\* The files of a store, in the order in which they are inspected.
Files    == <<"db", "wal", "shm", "journal">>
WalFiles == {"wal", "shm"}
AllFiles == WalFiles \cup {"db", "journal"}
Stores   == {Clean[s] : s \in Spellings}
Kinds    == {"absent", "private", "loose", "link"}

VARIABLES asked,           \* per process: how it was invoked
          pc,              \* per process: where it is
          at,              \* per process: the file it inspects next
          issues,          \* per process: the files it found reachable by others
          fs,              \* the kind of each file
          since,           \* per process: the files reachable by others ever since
                           \*   its check began (history, until it decides)
          touched,         \* the stores touched from outside (history)
          touches          \* how often

vars == <<asked, pc, at, issues, fs, since, touched, touches>>

Checked == {"opening", "created", "open"}
Places  == {"off", "checking", "declining", "ended"} \cup Checked

Init == /\ asked \in [Procs -> Invocations]
        /\ pc = [p \in Procs |-> "off"]
        /\ at = [p \in Procs |-> 1]
        /\ issues = [p \in Procs |-> {}]
        /\ fs = [x \in Stores \X AllFiles |-> "absent"]
        /\ since = [p \in Procs |-> {}]
        /\ touched = {} /\ touches = 0

Goto(p, label) == pc' = [pc EXCEPT ![p] = label]

Exposed(kind) == kind \in {"loose", "link"}

-----------------------------------------------------------------------------
(* config.Load and the path it leads to.                                     *)

NamedBy(k) == k.flag # Blank \/ k.env # Blank

ConfigPath(k) == IF k.flag # Blank THEN k.flag
                 ELSE IF k.env # Blank THEN k.env ELSE XdgConfig

\* A named config must exist and parse; at the default path none is needed.
Loads(k) == /\ Disk[ConfigPath(k)] # Garbled
            /\ NamedBy(k) => Disk[ConfigPath(k)] # Missing

\* A blank store is no store, and blank entries are dropped.
Config(k) == LET c == Disk[ConfigPath(k)]
             IN IF c \in Configs THEN [store |-> c.store, allow |-> c.allow \ {Blank}]
                ELSE [store |-> Blank, allow |-> {}]

StorePath(p) == LET c == Config(asked[p])
                IN IF c.store = Blank THEN DefaultPath ELSE c.store

Target(p) == Clean[StorePath(p)]

Load(p) == /\ pc[p] = "off"
           /\ IF Loads(asked[p])
              THEN /\ Goto(p, "checking")
                   /\ since' = [since EXCEPT ![p] =
                        {f \in AllFiles : Exposed(fs[<<Target(p), f>>])}]
              ELSE Goto(p, "ended") /\ since' = since
           /\ UNCHANGED <<asked, at, issues, fs, touched, touches>>

\* The files become fs1: checks under way see them so.
Change(fs1) ==
  /\ fs' = fs1
  /\ since' = [p \in Procs |->
       IF pc[p] = "checking" THEN {f \in since[p] : Exposed(fs1[<<Target(p), f>>])}
       ELSE since[p]]

-----------------------------------------------------------------------------
(* CheckPermissions, and what resolveStore and its two callers make of it.   *)

\* Mutant: a link is followed, and passes for a file of its own.
InspectFollowing(p) ==
  /\ pc[p] = "checking" /\ at[p] <= Len(Files)
  /\ issues' = IF fs[<<Target(p), Files[at[p]]>>] = "loose"
               THEN [issues EXCEPT ![p] = @ \cup {Files[at[p]]}] ELSE issues
  /\ at' = [at EXCEPT ![p] = @ + 1]
  /\ UNCHANGED <<asked, pc, fs, since, touched, touches>>

Inspect(p) ==
  /\ pc[p] = "checking" /\ at[p] <= Len(Files)
  /\ issues' = IF Exposed(fs[<<Target(p), Files[at[p]]>>])
               THEN [issues EXCEPT ![p] = @ \cup {Files[at[p]]}] ELSE issues
  /\ at' = [at EXCEPT ![p] = @ + 1]
  /\ UNCHANGED <<asked, pc, fs, since, touched, touches>>

\* Mutants: entries are compared as they are spelled; any entry exempts any store.
AllowlistedVerbatim(p) == StorePath(p) \in Config(asked[p]).allow
AllowlistedAny(p) == Config(asked[p]).allow # {}

Allowlisted(p) == \E entry \in Config(asked[p]).allow : Clean[entry] = Target(p)

\* Mutant: the findings are reported once the store is open.
DecideLate(p) == /\ pc[p] = "checking" /\ at[p] > Len(Files)
                 /\ Goto(p, "opening")
                 /\ UNCHANGED <<asked, at, issues, fs, since, touched, touches>>

\* A snapshot of a suspect store runs, with a warning; the server declines.
Decide(p) ==
  /\ pc[p] = "checking" /\ at[p] > Len(Files)
  /\ Goto(p, IF issues[p] = {} \/ Allowlisted(p) \/ asked[p].entry = "snapshot"
             THEN "opening" ELSE "declining")
  /\ UNCHANGED <<asked, at, issues, fs, since, touched, touches>>

-----------------------------------------------------------------------------
(* store.Open and Close, as far as they make and remove files.               *)

Place(p, label, fs1) == /\ Goto(p, label) /\ Change(fs1)
                        /\ UNCHANGED <<asked, at, issues, touched, touches>>

\* Mutant: the file is left to the driver.
CreateByDriver(p) == pc[p] = "opening" /\ Place(p, "created", fs)

\* O_EXCL, 0600: a file that is there already stays as it is.
Create(p) ==
  /\ pc[p] = "opening"
  /\ Place(p, "created", [fs EXCEPT ![<<Target(p), "db">>] = IF @ = "absent" THEN "private" ELSE @])

\* SQLite gives the sidecars it creates the database's mode.  It would create the
\* database too, at a mode the umask decides.
Connect(p) ==
  LET db == fs[<<Target(p), "db">>]
      made == IF db = "absent" THEN "loose" ELSE db
  IN /\ pc[p] = "created"
     /\ Place(p, "open",
              [x \in DOMAIN fs |->
                 IF x[1] = Target(p) /\ x[2] \in WalFiles \cup {"db"} /\ fs[x] = "absent"
                 THEN made ELSE fs[x]])

\* The last one to close a store removes its sidecars.
Close(p) ==
  /\ pc[p] = "open"
  /\ Place(p, "ended",
           IF \E q \in Procs \ {p} : pc[q] = "open" /\ Target(q) = Target(p) THEN fs
           ELSE [x \in DOMAIN fs |->
                   IF x[1] = Target(p) /\ x[2] \in WalFiles THEN "absent" ELSE fs[x]])

\* An error, a killed process, or the end of a session that was declined.
End(p) == pc[p] \notin {"off", "ended"} /\ Place(p, "ended", fs)

\* Somebody outside the program.
Touch(x, kind) ==
  /\ touches < MaxTouches /\ touches' = touches + 1
  /\ kind # fs[x] /\ (x[2] = "db" => kind # "link")
  /\ Change([fs EXCEPT ![x] = kind])
  /\ touched' = touched \cup {x[1]}
  /\ UNCHANGED <<asked, pc, at, issues>>

Next == \/ \E p \in Procs : \/ Load(p) \/ Inspect(p) \/ Decide(p)
                            \/ Create(p) \/ Connect(p) \/ Close(p) \/ End(p)
        \/ \E x \in Stores \X AllFiles, kind \in Kinds : Touch(x, kind)

Spec == Init /\ [][Next]_vars

-----------------------------------------------------------------------------
TypeOK == /\ asked \in [Procs -> Invocations]
          /\ pc \in [Procs -> Places]
          /\ at \in [Procs -> 1..Len(Files) + 1]
          /\ issues \in [Procs -> SUBSET AllFiles]
          /\ fs \in [Stores \X AllFiles -> Kinds]
          /\ since \in [Procs -> SUBSET AllFiles]
          /\ touched \subseteq Stores /\ touches \in 0..MaxTouches

\* The config p was pointed at names the store p works on, in whatever spelling.
Exempt(p) == /\ Disk[ConfigPath(asked[p])] \in Configs
             /\ \E e \in Disk[ConfigPath(asked[p])].allow \ {Blank} : Clean[e] = Target(p)

\* A server opens a store only when none of its files was reachable by others
\* for as long as the check lasted, or the operator exempted that store; however
\* the files change and other processes open and close the store meanwhile.
NeverServedExposed ==
  \A p \in Procs : pc[p] \in Checked /\ asked[p].entry = "serve" =>
    since[p] = {} \/ Exempt(p)

\* A finding means that something outside this program touched the files: no
\* interleaving of processes, crashes among them, makes one.  And the exemption
\* works: no server declines a store that its config names.
DeclinedWithCause ==
  \A p \in Procs : /\ issues[p] # {} => Target(p) \in touched
                   /\ pc[p] = "declining" => ~Exempt(p) /\ asked[p].entry = "serve"

\* A server that declines does not touch the store: files change by a process's
\* doing only in its own store, and only once it may open it.
TouchesOnlyItsOwn ==
  [][\A x \in Stores \X AllFiles : fs'[x] # fs[x] /\ touches' = touches =>
       \E p \in Procs : /\ pc'[p] # pc[p] /\ x[1] = Target(p)
                        /\ issues[p] = {} \/ Exempt(p) \/ asked[p].entry = "snapshot"]_vars

-----------------------------------------------------------------------------
(* The inductive invariant.                                                  *)

\* What was inspected and still is reachable by others was found.
Seen == \A p \in Procs :
  /\ pc[p] = "off" => at[p] = 1
  /\ pc[p] = "checking" => \A f \in since[p] : Exposed(fs[<<Target(p), f>>])
  /\ \A i \in 1..at[p] - 1 : Files[i] \in since[p] => Files[i] \in issues[p]
  /\ pc[p] \in Checked \cup {"declining"} => at[p] = Len(Files) + 1
  /\ pc[p] \in Checked =>
       issues[p] = {} \/ Exempt(p) \/ asked[p].entry = "snapshot"

\* Nobody outside touched a store: its files are private, and a process that
\* opens it created the database, or found it.
Untouched == \A s \in Stores \ touched :
  /\ \A f \in AllFiles : fs[<<s, f>>] \in {"absent", "private"}
  /\ \A p \in Procs : pc[p] \in {"created", "open"} /\ Target(p) = s =>
       fs[<<s, "db">>] # "absent"

IInv == TypeOK /\ Seen /\ Untouched /\ NeverServedExposed /\ DeclinedWithCause
=============================================================================
