---------------------------- MODULE ResolveProofs ----------------------------
(***************************************************************************)
(* Proofs about Resolve, for any processes, paths, configs and invocations.*)
(***************************************************************************)
EXTENDS Resolve, TLAPS

\* The files of a store are the four that are inspected.
LEMMA FilesInOrder ==
  /\ Len(Files) = 4
  /\ \A i \in 1..4 : Files[i] \in AllFiles
  /\ \A f \in AllFiles : \E i \in 1..4 : Files[i] = f
<1>1. Len(Files) = 4 /\ \A i \in 1..4 : Files[i] \in AllFiles
  BY DEF Files, AllFiles, WalFiles
<1>2. Files[1] = "db" /\ Files[2] = "wal" /\ Files[3] = "shm" /\ Files[4] = "journal"
  BY DEF Files
<1> QED BY <1>1, <1>2 DEF AllFiles, WalFiles

\* Wherever a process was pointed, it works on one of the stores.
LEMMA TargetIsAStore ==
  ASSUME TypeOK
  PROVE  \A p \in Procs : Target(p) \in Stores
<1>1. TAKE p \in Procs
<1>2. Disk[ConfigPath(asked[p])] \in Configs =>
        Disk[ConfigPath(asked[p])].store \in Spellings \cup {Blank}
  BY DEF Configs
<1>3. Config(asked[p]).store \in Spellings \cup {Blank}
  BY <1>2 DEF Config
<1>4. StorePath(p) \in Spellings
  BY <1>3, PathsAssumption DEF StorePath
<1> QED BY <1>4 DEF Target, Stores

\* A process is invoked once.
LEMMA InvocationsStay ==
  ASSUME [Next]_vars
  PROVE  /\ asked' = asked
         /\ \A p \in Procs : Target(p)' = Target(p) /\ (Exempt(p)' <=> Exempt(p))
<1>1. asked' = asked
  BY DEF Next, vars, Load, Inspect, Decide, Create, Connect, Close, End, Place, Touch
<1> QED BY <1>1 DEF Target, StorePath, Exempt

\* An entry exempts a store exactly if the config in force names it.
LEMMA AllowlistIsExemption ==
  ASSUME NEW p \in Procs
  PROVE  Allowlisted(p) <=> Exempt(p)
<1>1. CASE Disk[ConfigPath(asked[p])] \in Configs
  BY <1>1 DEF Allowlisted, Exempt, Config
<1>2. CASE Disk[ConfigPath(asked[p])] \notin Configs
  <2>1. Config(asked[p]).allow = {}
    BY <1>2 DEF Config
  <2> QED BY <1>2, <2>1 DEF Allowlisted, Exempt
<1> QED BY <1>1, <1>2

\* Type correctness.
LEMMA TypesKept ==
  ASSUME IInv, [Next]_vars
  PROVE  TypeOK'
<1> USE DEF Goto, Exposed, Places, Checked, Kinds, TypeOK
<1>0. TypeOK /\ \A p \in Procs : Target(p) \in Stores
  BY TargetIsAStore DEF IInv
<1>1. \A p \in Procs : Target(p)' = Target(p) /\ (Exempt(p)' <=> Exempt(p))
  BY InvocationsStay
<1>2. CASE UNCHANGED vars
  BY <1>0, <1>1, <1>2 DEF vars
<1>3. ASSUME NEW p \in Procs, Load(p) PROVE TypeOK'
  <2>1. pc' \in [Procs -> Places]
    BY <1>0, <1>3 DEF Load
  <2>2. since' \in [Procs -> SUBSET AllFiles]
    <3>1. {f \in AllFiles : Exposed(fs[<<Target(p), f>>])} \in SUBSET AllFiles
      OBVIOUS
    <3>2. since' = since \/ since' = [since EXCEPT ![p] =
                                     {f \in AllFiles : Exposed(fs[<<Target(p), f>>])}]
      BY <1>3 DEF Load
    <3> QED BY <1>0, <3>1, <3>2
  <2> QED BY <1>0, <1>3, <2>1, <2>2 DEF Load
<1>4. ASSUME NEW p \in Procs, Inspect(p) PROVE TypeOK'
  BY <1>0, <1>1, <1>4, FilesInOrder DEF Inspect
<1>5. ASSUME NEW p \in Procs, Decide(p) PROVE TypeOK'
  BY <1>0, <1>1, <1>5, FilesInOrder DEF Decide
<1>6. ASSUME NEW p \in Procs, Create(p) PROVE TypeOK'
  BY <1>0, <1>1, <1>6, FilesInOrder DEF Create, Place, Change
<1>7. ASSUME NEW p \in Procs, Connect(p) PROVE TypeOK'
  <2>1. /\ since' \in [Procs -> SUBSET AllFiles] /\ pc' \in [Procs -> Places]
        /\ UNCHANGED <<asked, at, issues, touched, touches>>
    BY <1>0, <1>7 DEF Connect, Place, Change
  <2>2. <<Target(p), "db">> \in Stores \X AllFiles
    BY <1>0 DEF AllFiles
  <2>3. fs[<<Target(p), "db">>] \in Kinds
    BY <1>0, <2>2
  <2>4. fs' \in [Stores \X AllFiles -> Kinds]
    BY <1>0, <1>7, <2>3 DEF Connect, Place, Change
  <2> QED BY <1>0, <2>1, <2>4
<1>8. ASSUME NEW p \in Procs, Close(p) PROVE TypeOK'
  BY <1>0, <1>1, <1>8, FilesInOrder DEF Close, Place, Change
<1>9. ASSUME NEW p \in Procs, End(p) PROVE TypeOK'
  BY <1>0, <1>1, <1>9, FilesInOrder DEF End, Place, Change
<1>10. ASSUME NEW x \in Stores \X AllFiles, NEW kind \in Kinds, Touch(x, kind) PROVE TypeOK'
  <2>1. /\ since' \in [Procs -> SUBSET AllFiles]
        /\ fs' \in [Stores \X AllFiles -> Kinds]
        /\ UNCHANGED <<asked, pc, at, issues>>
    BY <1>0, <1>10 DEF Touch, Change
  <2>2. x[1] \in Stores
    OBVIOUS
  <2>3. touched' \subseteq Stores /\ touches' \in 0..MaxTouches
    BY <1>0, <1>10, <2>2, TouchesAssumption DEF Touch
  <2> QED BY <1>0, <2>1, <2>3
<1> QED BY <1>2, <1>3, <1>4, <1>5, <1>6, <1>7, <1>8, <1>9, <1>10 DEF Next

\* Whatever happens to the files, a check under way goes on knowing those that
\* have been reachable by others since it began.
LEMMA ChangeFollowed ==
  ASSUME TypeOK, NEW fs1, Change(fs1), asked' = asked
  PROVE  \A q \in Procs :
           /\ since'[q] \subseteq since[q]
           /\ pc[q] = "checking" =>
                \A f \in since'[q] : Exposed(fs'[<<Target(q)', f>>])
<1>1. TAKE q \in Procs
<1>2. since'[q] = IF pc[q] = "checking"
                  THEN {f \in since[q] : Exposed(fs1[<<Target(q), f>>])} ELSE since[q]
  BY DEF Change
<1>3. fs' = fs1 /\ Target(q)' = Target(q)
  BY DEF Change, Target, StorePath
<1> QED BY <1>2, <1>3 DEF Exposed

\* Opening, closing and ending keep what a process knows from its check.
LEMMA PlaceKeepsSeen ==
  ASSUME TypeOK, Seen, NEW p \in Procs, NEW label, NEW fs1, Place(p, label, fs1),
         label = "ended" \/ (label \in Checked /\ pc[p] \in Checked)
  PROVE  Seen'
<1>1. /\ UNCHANGED <<asked, at, issues>> /\ pc'[p] = label
      /\ \A q \in Procs \ {p} : pc'[q] = pc[q]
  BY DEF Place, Goto, TypeOK
<1>2. \A q \in Procs : Target(q)' = Target(q) /\ (Exempt(q)' <=> Exempt(q))
  BY <1>1 DEF Target, StorePath, Exempt
<1>3. \A q \in Procs : /\ since'[q] \subseteq since[q]
                       /\ pc[q] = "checking" =>
                            \A f \in since'[q] : Exposed(fs'[<<Target(q)', f>>])
  BY <1>1, ChangeFollowed DEF Place
<1>4. ASSUME NEW q \in Procs, q # p
      PROVE  /\ pc'[q] = pc[q] /\ at'[q] = at[q] /\ issues'[q] = issues[q]
             /\ since'[q] \subseteq since[q] /\ asked'[q] = asked[q]
  BY <1>1, <1>3, <1>4
<1>5. /\ pc'[p] \notin {"off", "checking", "declining"}
      /\ pc'[p] \in Checked => pc[p] \in Checked
  BY <1>1 DEF Checked
<1> QED BY <1>1, <1>2, <1>3, <1>4, <1>5 DEF Seen, Checked

\* What was inspected, and was reachable by others throughout, was found.
LEMMA SeenKept ==
  ASSUME IInv, [Next]_vars
  PROVE  Seen'
<1> USE DEF Goto, Exposed, Places, Checked, Kinds, TypeOK, Seen
<1>0. TypeOK /\ Seen /\ \A p \in Procs : Target(p) \in Stores
  BY TargetIsAStore DEF IInv
<1>1. \A p \in Procs : Target(p)' = Target(p) /\ (Exempt(p)' <=> Exempt(p))
  BY InvocationsStay
<1>2. CASE UNCHANGED vars
  BY <1>0, <1>1, <1>2 DEF vars
<1>3. ASSUME NEW p \in Procs, Load(p) PROVE Seen'
  BY <1>0, <1>1, <1>3, FilesInOrder DEF Load
<1>4. ASSUME NEW p \in Procs, Inspect(p) PROVE Seen'
  BY <1>0, <1>1, <1>4, FilesInOrder DEF Inspect
<1>5. ASSUME NEW p \in Procs, Decide(p) PROVE Seen'
  <2>1. Allowlisted(p) <=> Exempt(p)
    BY AllowlistIsExemption
  <2>2. /\ pc[p] = "checking" /\ at[p] = 5 /\ UNCHANGED <<at, issues, fs, since>>
        /\ \A q \in Procs \ {p} : pc'[q] = pc[q]
        /\ pc'[p] \in {"opening", "declining"}
        /\ pc'[p] = "opening" => \/ issues[p] = {} \/ Exempt(p)
                                \/ asked[p].entry = "snapshot"
    BY <1>0, <1>5, <2>1, FilesInOrder DEF Decide
  <2>3. asked' = asked
    BY <1>5 DEF Decide
  <2> QED BY <1>0, <1>1, <2>2, <2>3, FilesInOrder
<1>6. ASSUME NEW p \in Procs, Create(p) PROVE Seen'
  <2>1. \E fs1 : Place(p, "created", fs1)
    BY <1>6 DEF Create
  <2>2. "created" \in Checked /\ pc[p] \in Checked
    BY <1>6 DEF Create
  <2> QED BY <1>0, <2>1, <2>2, PlaceKeepsSeen
<1>7. ASSUME NEW p \in Procs, Connect(p) PROVE Seen'
  <2>1. \E fs1 : Place(p, "open", fs1)
    BY <1>7 DEF Connect
  <2>2. "open" \in Checked /\ pc[p] \in Checked
    BY <1>7 DEF Connect
  <2> QED BY <1>0, <2>1, <2>2, PlaceKeepsSeen
<1>8. ASSUME NEW p \in Procs, Close(p) PROVE Seen'
  <2>1. \E fs1 : Place(p, "ended", fs1)
    BY <1>8 DEF Close
  <2> QED BY <1>0, <2>1, PlaceKeepsSeen
<1>9. ASSUME NEW p \in Procs, End(p) PROVE Seen'
  <2>1. \E fs1 : Place(p, "ended", fs1)
    BY <1>9 DEF End
  <2> QED BY <1>0, <2>1, PlaceKeepsSeen
<1>10. ASSUME NEW x \in Stores \X AllFiles, NEW kind \in Kinds, Touch(x, kind) PROVE Seen'
  BY <1>0, <1>1, <1>10 DEF Touch, Change
<1> QED BY <1>2, <1>3, <1>4, <1>5, <1>6, <1>7, <1>8, <1>9, <1>10 DEF Next

\* Only somebody outside makes a file reachable by others.
LEMMA UntouchedKept ==
  ASSUME IInv, [Next]_vars
  PROVE  Untouched'
<1> USE DEF Goto, Exposed, Places, Checked, Kinds, TypeOK, Untouched, WalFiles
<1>0. TypeOK /\ Untouched /\ \A p \in Procs : Target(p) \in Stores
  BY TargetIsAStore DEF IInv
<1>1. \A p \in Procs : Target(p)' = Target(p) /\ (Exempt(p)' <=> Exempt(p))
  BY InvocationsStay
<1>2. CASE UNCHANGED vars
  BY <1>0, <1>1, <1>2 DEF vars
<1>3. ASSUME NEW p \in Procs, Load(p) PROVE Untouched'
  BY <1>0, <1>1, <1>3, FilesInOrder DEF Load
<1>4. ASSUME NEW p \in Procs, Inspect(p) PROVE Untouched'
  BY <1>0, <1>1, <1>4, FilesInOrder DEF Inspect
<1>5. ASSUME NEW p \in Procs, Decide(p) PROVE Untouched'
  BY <1>0, <1>1, <1>5, FilesInOrder DEF Decide
<1>6. ASSUME NEW p \in Procs, Create(p) PROVE Untouched'
  <2>1. /\ UNCHANGED <<asked, touched>>
        /\ pc' = [pc EXCEPT ![p] = "created"]
        /\ fs' = [fs EXCEPT ![<<Target(p), "db">>] = IF @ = "absent" THEN "private" ELSE @]
    BY <1>6 DEF Create, Place, Change
  <2>2. ASSUME NEW s \in Stores, NEW f \in AllFiles
        PROVE  \/ fs'[<<s, f>>] = fs[<<s, f>>]
               \/ fs[<<s, f>>] = "absent" /\ fs'[<<s, f>>] = "private"
    BY <1>0, <2>1
  <2>3. "db" \in AllFiles /\ fs'[<<Target(p), "db">>] # "absent"
    BY <1>0, <2>1 DEF AllFiles
  <2>4. ASSUME NEW s \in Stores \ touched', NEW f \in AllFiles
        PROVE  fs'[<<s, f>>] \in {"absent", "private"}
    BY <1>0, <2>1, <2>2, <2>4
  <2>5. ASSUME NEW s \in Stores \ touched', NEW q \in Procs,
               pc'[q] \in {"created", "open"}, Target(q)' = s
        PROVE  fs'[<<s, "db">>] # "absent"
    BY <1>0, <1>1, <2>1, <2>2, <2>3, <2>5
  <2> QED BY <2>4, <2>5
<1>7. ASSUME NEW p \in Procs, Connect(p) PROVE Untouched'
  <2>1. /\ UNCHANGED <<asked, touched>>
        /\ pc[p] = "created" /\ pc' = [pc EXCEPT ![p] = "open"]
        /\ fs' \in [Stores \X AllFiles -> Kinds] /\ "db" \in AllFiles
    BY <1>0, <1>7, TypesKept DEF Connect, Place, Change, AllFiles
  <2>2. ASSUME NEW s \in Stores \ touched, NEW f \in AllFiles
        PROVE  /\ fs'[<<s, f>>] \in {"absent", "private"}
               /\ fs[<<s, f>>] # "absent" => fs'[<<s, f>>] # "absent"
    <3>1. <<s, f>> \in DOMAIN fs /\ <<s, f>>[1] = s /\ <<s, f>>[2] = f
      BY <1>0
    <3>2. CASE s # Target(p)
      BY <1>0, <1>7, <3>1, <3>2 DEF Connect, Place, Change
    <3>3. CASE s = Target(p)
      <4>1. fs[<<s, "db">>] = "private"
        BY <1>0, <2>1, <3>3
      <4> QED BY <1>0, <1>7, <3>1, <3>3, <4>1 DEF Connect, Place, Change
    <3> QED BY <3>2, <3>3
  <2>3. ASSUME NEW s \in Stores \ touched, NEW q \in Procs,
               pc'[q] \in {"created", "open"}, Target(q)' = s
        PROVE  fs'[<<s, "db">>] # "absent"
    <3>1. pc[q] \in {"created", "open"} /\ Target(q) = s
      BY <1>0, <1>1, <2>1, <2>3
    <3> QED BY <1>0, <2>1, <2>2, <3>1
  <2> QED BY <2>1, <2>2, <2>3
<1>8. ASSUME NEW p \in Procs, Close(p) PROVE Untouched'
  <2>1. /\ UNCHANGED <<asked, touched>> /\ pc' = [pc EXCEPT ![p] = "ended"]
        /\ "db" \in AllFiles
    BY <1>8 DEF Close, Place, Change, AllFiles
  <2>2. ASSUME NEW s \in Stores, NEW f \in AllFiles
        PROVE  /\ fs'[<<s, f>>] \in {fs[<<s, f>>], "absent"}
               /\ f = "db" => fs'[<<s, f>>] = fs[<<s, f>>]
    <3>1. <<s, f>> \in DOMAIN fs /\ <<s, f>>[1] = s /\ <<s, f>>[2] = f
      BY <1>0
    <3> QED BY <1>0, <1>8, <3>1 DEF Close, Place, Change
  <2>3. ASSUME NEW s \in Stores \ touched, NEW q \in Procs,
               pc'[q] \in {"created", "open"}, Target(q)' = s
        PROVE  fs'[<<s, "db">>] # "absent"
    <3>1. pc[q] \in {"created", "open"} /\ Target(q) = s
      BY <1>0, <1>1, <2>1, <2>3
    <3> QED BY <1>0, <2>1, <2>2, <3>1
  <2> QED BY <1>0, <2>1, <2>2, <2>3
<1>9. ASSUME NEW p \in Procs, End(p) PROVE Untouched'
  BY <1>0, <1>1, <1>9, FilesInOrder DEF End, Place, Change
<1>10. ASSUME NEW x \in Stores \X AllFiles, NEW kind \in Kinds, Touch(x, kind) PROVE Untouched'
  BY <1>0, <1>1, <1>10 DEF Touch, Change
<1> QED BY <1>2, <1>3, <1>4, <1>5, <1>6, <1>7, <1>8, <1>9, <1>10 DEF Next

LEMMA ServedKept ==
  ASSUME IInv, [Next]_vars
  PROVE  NeverServedExposed'
<1> USE DEF Goto, Exposed, Places, Checked, Kinds, TypeOK, Seen, NeverServedExposed
<1>0. TypeOK /\ Seen /\ NeverServedExposed /\ \A p \in Procs : Target(p) \in Stores
  BY TargetIsAStore DEF IInv
<1>1. \A p \in Procs : Target(p)' = Target(p) /\ (Exempt(p)' <=> Exempt(p))
  BY InvocationsStay
<1>2. CASE UNCHANGED vars
  BY <1>0, <1>1, <1>2 DEF vars
<1>3. ASSUME NEW p \in Procs, Load(p) PROVE NeverServedExposed'
  BY <1>0, <1>1, <1>3, FilesInOrder DEF Load
<1>4. ASSUME NEW p \in Procs, Inspect(p) PROVE NeverServedExposed'
  BY <1>0, <1>1, <1>4, FilesInOrder DEF Inspect
<1>5. ASSUME NEW p \in Procs, Decide(p) PROVE NeverServedExposed'
  <2>1. Allowlisted(p) <=> Exempt(p)
    BY AllowlistIsExemption
  <2>2. /\ pc[p] = "checking" /\ at[p] = 5 /\ UNCHANGED <<asked, since>>
        /\ \A q \in Procs \ {p} : pc'[q] = pc[q]
        /\ pc'[p] = "opening" => \/ issues[p] = {} \/ Exempt(p)
                                \/ asked[p].entry = "snapshot"
        /\ pc'[p] \in {"opening", "declining"}
    BY <1>0, <1>5, <2>1, FilesInOrder DEF Decide
  <2>3. since[p] \subseteq issues[p]
    <3>1. \A i \in 1..4 : Files[i] \in since[p] => Files[i] \in issues[p]
      BY <1>0, <2>2
    <3> QED BY <1>0, <3>1, FilesInOrder
  <2>4. asked[p].entry # "snapshot" \/ asked[p].entry # "serve"
    OBVIOUS
  <2> QED BY <1>0, <1>1, <2>2, <2>3, <2>4
<1>6. ASSUME NEW p \in Procs, Create(p) PROVE NeverServedExposed'
  BY <1>0, <1>1, <1>6, FilesInOrder DEF Create, Place, Change
<1>7. ASSUME NEW p \in Procs, Connect(p) PROVE NeverServedExposed'
  BY <1>0, <1>1, <1>7, FilesInOrder DEF Connect, Place, Change
<1>8. ASSUME NEW p \in Procs, Close(p) PROVE NeverServedExposed'
  BY <1>0, <1>1, <1>8, FilesInOrder DEF Close, Place, Change
<1>9. ASSUME NEW p \in Procs, End(p) PROVE NeverServedExposed'
  BY <1>0, <1>1, <1>9, FilesInOrder DEF End, Place, Change
<1>10. ASSUME NEW x \in Stores \X AllFiles, NEW kind \in Kinds, Touch(x, kind) PROVE NeverServedExposed'
  BY <1>0, <1>1, <1>10 DEF Touch, Change
<1> QED BY <1>2, <1>3, <1>4, <1>5, <1>6, <1>7, <1>8, <1>9, <1>10 DEF Next

LEMMA CauseKept ==
  ASSUME IInv, [Next]_vars
  PROVE  DeclinedWithCause'
<1> USE DEF Goto, Exposed, Places, Checked, Kinds, TypeOK, Untouched, DeclinedWithCause
<1>0. TypeOK /\ Untouched /\ DeclinedWithCause /\ \A p \in Procs : Target(p) \in Stores
  BY TargetIsAStore DEF IInv
<1>1. \A p \in Procs : Target(p)' = Target(p) /\ (Exempt(p)' <=> Exempt(p))
  BY InvocationsStay
<1>2. CASE UNCHANGED vars
  BY <1>0, <1>1, <1>2 DEF vars
<1>3. ASSUME NEW p \in Procs, Load(p) PROVE DeclinedWithCause'
  BY <1>0, <1>1, <1>3, FilesInOrder DEF Load
<1>4. ASSUME NEW p \in Procs, Inspect(p) PROVE DeclinedWithCause'
  <2>1. /\ UNCHANGED <<asked, pc, fs, touched>> /\ at[p] \in 1..4
        /\ \A q \in Procs \ {p} : issues'[q] = issues[q]
    BY <1>0, <1>4, FilesInOrder DEF Inspect
  <2>2. CASE issues' = issues
    BY <1>0, <1>1, <2>1, <2>2
  <2>3. CASE Exposed(fs[<<Target(p), Files[at[p]]>>])
    <3>1. Files[at[p]] \in AllFiles
      BY <2>1, FilesInOrder
    <3>2. Target(p) \in touched
      BY <1>0, <2>3, <3>1
    <3> QED BY <1>0, <1>1, <2>1, <3>2
  <2> QED BY <1>4, <2>2, <2>3 DEF Inspect
<1>5. ASSUME NEW p \in Procs, Decide(p) PROVE DeclinedWithCause'
  <2>1. Allowlisted(p) <=> Exempt(p)
    BY AllowlistIsExemption
  <2>2. /\ UNCHANGED <<asked, issues, touched>>
        /\ \A q \in Procs \ {p} : pc'[q] = pc[q]
        /\ pc'[p] = "declining" => ~Exempt(p) /\ asked[p].entry # "snapshot"
    BY <1>0, <1>5, <2>1 DEF Decide
  <2>3. asked[p].entry \in {"serve", "snapshot"}
    BY <1>0, ConfigAssumption
  <2> QED BY <1>0, <1>1, <2>2, <2>3
<1>6. ASSUME NEW p \in Procs, Create(p) PROVE DeclinedWithCause'
  BY <1>0, <1>1, <1>6, FilesInOrder DEF Create, Place, Change
<1>7. ASSUME NEW p \in Procs, Connect(p) PROVE DeclinedWithCause'
  BY <1>0, <1>1, <1>7, FilesInOrder DEF Connect, Place, Change
<1>8. ASSUME NEW p \in Procs, Close(p) PROVE DeclinedWithCause'
  BY <1>0, <1>1, <1>8, FilesInOrder DEF Close, Place, Change
<1>9. ASSUME NEW p \in Procs, End(p) PROVE DeclinedWithCause'
  BY <1>0, <1>1, <1>9, FilesInOrder DEF End, Place, Change
<1>10. ASSUME NEW x \in Stores \X AllFiles, NEW kind \in Kinds, Touch(x, kind) PROVE DeclinedWithCause'
  BY <1>0, <1>1, <1>10 DEF Touch, Change
<1> QED BY <1>2, <1>3, <1>4, <1>5, <1>6, <1>7, <1>8, <1>9, <1>10 DEF Next

-----------------------------------------------------------------------------
\* The inductive invariant holds in every reachable state.
THEOREM Invariance == Spec => []IInv
<1>1. ASSUME Init PROVE IInv
  <2> USE <1>1 DEF Init
  <2>1. TypeOK
    BY FilesInOrder, TouchesAssumption DEF TypeOK, Places, Checked, Kinds
  <2>2. Seen /\ NeverServedExposed /\ DeclinedWithCause
    BY DEF Seen, NeverServedExposed, DeclinedWithCause, Checked
  <2>3. Untouched
    BY DEF Untouched
  <2> QED BY <2>1, <2>2, <2>3 DEF IInv
<1>2. IInv /\ [Next]_vars => IInv'
  BY TypesKept, SeenKept, UntouchedKept, ServedKept, CauseKept DEF IInv
<1> QED BY <1>1, <1>2, PTL DEF Spec

\* Type correctness.
THEOREM TypeCorrect == Spec => []TypeOK
<1>1. IInv => TypeOK
  BY DEF IInv
<1> QED BY <1>1, Invariance, PTL

\* What a server opens was private when it was looked at, or exempted by name.
THEOREM ServedWasPrivate == Spec => []NeverServedExposed
<1>1. IInv => NeverServedExposed
  BY DEF IInv
<1> QED BY <1>1, Invariance, PTL

\* A finding is never the program's own doing, and an exemption works in any
\* spelling.
THEOREM FindingsMeanSomething == Spec => []DeclinedWithCause
<1>1. IInv => DeclinedWithCause
  BY DEF IInv
<1> QED BY <1>1, Invariance, PTL

\* A process changes files of its own store only, and none of a store that it
\* declines to serve.
THEOREM DeclinedIsUntouched == Spec => TouchesOnlyItsOwn
<1> DEFINE A == \A x \in Stores \X AllFiles : fs'[x] # fs[x] /\ touches' = touches =>
                  \E p \in Procs : /\ pc'[p] # pc[p] /\ x[1] = Target(p)
                                   /\ issues[p] = {} \/ Exempt(p) \/ asked[p].entry = "snapshot"
<1>1. ASSUME IInv, [Next]_vars PROVE A
  <2>0. TypeOK /\ Seen
    BY <1>1 DEF IInv
  <2>1. CASE fs' = fs
    BY <2>1
  <2>2. ASSUME NEW p \in Procs, Create(p) \/ Connect(p) \/ Close(p) PROVE A
    <3>1. pc[p] \in Checked /\ pc'[p] # pc[p]
      BY <2>0, <2>2 DEF Create, Connect, Close, Place, Goto, TypeOK, Checked
    <3>2. issues[p] = {} \/ Exempt(p) \/ asked[p].entry = "snapshot"
      BY <2>0, <3>1 DEF Seen
    <3>3. ASSUME NEW x \in Stores \X AllFiles, fs'[x] # fs[x] PROVE x[1] = Target(p)
      BY <2>0, <2>2, <3>3 DEF Create, Connect, Close, Place, Change, TypeOK
    <3> QED BY <3>1, <3>2, <3>3
  <2>3. ASSUME NEW x \in Stores \X AllFiles, NEW kind \in Kinds, Touch(x, kind) PROVE A
    <3>1. touches' # touches
      BY <2>0, <2>3 DEF Touch, TypeOK
    <3> QED BY <3>1
  <2>4. \/ fs' = fs
        \/ \E p \in Procs : Create(p) \/ Connect(p) \/ Close(p)
        \/ \E x \in Stores \X AllFiles, kind \in Kinds : Touch(x, kind)
    <3>1. ASSUME NEW p \in Procs, Load(p) \/ Inspect(p) \/ Decide(p) \/ End(p)
          PROVE  fs' = fs
      BY <3>1 DEF Load, Inspect, Decide, End, Place, Change
    <3>2. CASE UNCHANGED vars
      BY <3>2 DEF vars
    <3>3. CASE Next
      <4>1. \/ \E p \in Procs : Load(p) \/ Inspect(p) \/ Decide(p) \/ End(p)
            \/ \E p \in Procs : Create(p) \/ Connect(p) \/ Close(p)
            \/ \E x \in Stores \X AllFiles, kind \in Kinds : Touch(x, kind)
        BY <3>3, Zenon DEF Next
      <4> QED BY <3>1, <4>1
    <3> QED BY <1>1, <3>2, <3>3
  <2> QED BY <2>1, <2>2, <2>3, <2>4
<1>2. IInv /\ [Next]_vars => [A]_vars
  BY <1>1
<1> QED BY <1>2, Invariance, PTL DEF Spec, TouchesOnlyItsOwn
=============================================================================
