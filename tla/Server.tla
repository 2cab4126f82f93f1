------------------------------- MODULE Server -------------------------------
(***************************************************************************)
(* The two tool handlers: what a call's arguments become before they reach *)
(* the store, which calls are refused, and what a session survives.        *)
(*                                                                         *)
(* A text argument is [text, pad]: pad is whitespace around it, text is    *)
(* what remains of it ("" when it was blank), the function Lower is what   *)
(* strings.ToLower does to that, and Runes[t] lists the widths in bytes of *)
(* its characters.  A timestamp argument is a wall clock reading and the   *)
(* zone offset written beside it, or Absent, or Garbled.  Store.tla has    *)
(* what happens inside Append and List; here each is one step.             *)
(***************************************************************************)
EXTENDS Query, Sequences

CONSTANTS Sessions,        \* the server processes, one per agent session
          Texts, Lower,    \* what a text argument may be, and its lower case
          Runes, TextCap,  \* its characters' widths, and observationTextCap
          RecordCalls,     \* the arguments clients record with
          ReviewCalls,     \* the arguments clients review with
          Times, Suffixes, \* the clock of Append and the random part of its ids
          Absent, Garbled, \* a timestamp that was not sent, or does not parse
          Year1001,        \* the first instant of that year
          Year10000,       \* the first instant that needs a fifth digit
          Null, Omitted,   \* arguments that are the JSON null, or not there
          MaxRows          \* bound on the rows recorded

Raw        == [text : Texts, pad : BOOLEAN]
RecordArgs == [observation : Raw, class : Raw, kind : STRING, ref : Raw]
Timestamps == [clock : Nat, offset : Int] \cup {Absent, Garbled}
ReviewArgs == [class : Raw, kind : STRING, ref : Raw, since : Timestamps,
               before : Timestamps, beforeID : Ids \cup {NoID}]

ASSUME LowerAssumption ==
  /\ "" \in Texts /\ Lower \in [Texts -> Texts]
  /\ \A t \in Texts : Lower[Lower[t]] = Lower[t] /\ (Lower[t] = "" <=> t = "")

ASSUME RunesAssumption ==
  /\ Runes \in [Texts -> Seq(1..4)] /\ TextCap \in Nat \ 0..3
  /\ \A t \in Texts : Runes[t] = <<>> <=> t = ""

\* The clock of Append reads a year between 1001 and 9999, and so do the
\* clocks of arguments: time.Parse takes no year of five digits.
ASSUME YearsAssumption ==
  /\ Year1001 \in Nat \ {0} /\ Year10000 \in Nat /\ Year1001 < Year10000
  /\ \A t \in Times : Year1001 < t /\ t < Year10000
  /\ \A a \in ReviewCalls : \A x \in {a.since, a.before} \ {Absent, Garbled} :
       x.clock < Year10000

ASSUME CallsAssumption == /\ RecordCalls \subseteq RecordArgs
                          /\ ReviewCalls \subseteq ReviewArgs
                          /\ Times \subseteq Nat \ {0} /\ Suffixes \subseteq Nat
                          /\ MaxRows \in Nat
                          /\ Null # Omitted
                          /\ {Null, Omitted} \cap (RecordCalls \cup ReviewCalls) = {}

VARIABLES served,          \* per session: it has a store (unavailable is nil)
          alive,           \* per session: no call has brought it down
          reply,           \* per session: how its last call ended
          docket,          \* the rows of the store
          acked            \* the accepted calls and the rows they became (history)

vars == <<served, alive, reply, docket, acked>>

Init == /\ served \in [Sessions -> BOOLEAN]
        /\ alive = [s \in Sessions |-> TRUE]
        /\ reply = [s \in Sessions |-> "none"]
        /\ docket = {} /\ acked = {}

TrimSpace(x) == x.text
ToLower(t)   == Lower[t]

-----------------------------------------------------------------------------
(* Before the handler.  The SDK applies a schema that carries a default: on *)
(* null arguments that panics.  It refuses what the schema does not admit.  *)

TolerateNull(args) == IF args = Null THEN Omitted ELSE args

Valid(args) == args.kind \in {"", "project", "user"}

Reply(s, verdict) == /\ reply' = [reply EXCEPT ![s] = verdict]
                     /\ UNCHANGED <<served, alive>>

Refuse(s) == Reply(s, "refused") /\ UNCHANGED <<docket, acked>>

\* A panic, in the SDK or on a nil store, ends the session.
Panic(s) == /\ alive' = [alive EXCEPT ![s] = FALSE]
            /\ UNCHANGED <<served, reply, docket, acked>>

-----------------------------------------------------------------------------
(* record_observation.  An id that is taken already is Store's matter.       *)

\* Mutants: an omitted scope_kind is stored as such; the class keeps its case.
ObservedUndefaulted(a) == [class |-> ToLower(TrimSpace(a.class)), kind |-> a.kind,
                           ref |-> ToLower(TrimSpace(a.ref)),
                           text |-> TrimSpace(a.observation)]
ObservedVerbatim(a) == [class |-> TrimSpace(a.class),
                        kind |-> IF a.kind = "" THEN "project" ELSE a.kind,
                        ref |-> ToLower(TrimSpace(a.ref)),
                        text |-> TrimSpace(a.observation)]

Observed(a) == [class |-> ToLower(TrimSpace(a.class)),
                kind |-> IF a.kind = "" THEN "project" ELSE a.kind,
                ref |-> ToLower(TrimSpace(a.ref)),
                text |-> TrimSpace(a.observation)]

\* Mutant: scope_ref is tested before it is trimmed.
WellFormedUntrimmed(a) ==
  /\ TrimSpace(a.observation) # ""
  /\ Observed(a).class # ""
  /\ Observed(a).kind = "project" => a.ref # [text |-> "", pad |-> FALSE]

WellFormed(a) == /\ TrimSpace(a.observation) # ""
                 /\ Observed(a).class # ""
                 /\ Observed(a).kind = "project" => Observed(a).ref # ""

RecordObservation(s, a, t, n) ==
  LET row == [at |-> t, id |-> <<t, n>>, obs |-> Observed(a)]
  IN IF served[s] /\ WellFormed(a)
     THEN /\ Cardinality(docket) < MaxRows
          /\ \A r \in docket : r.id # row.id
          /\ docket' = docket \cup {row}
          /\ acked' = acked \cup {[args |-> a, row |-> row]}
          /\ Reply(s, "recorded")
     ELSE Refuse(s)

CallRecord(s, args, t, n) ==
  LET a == TolerateNull(args)
  IN /\ alive[s]
     /\ CASE a = Null -> Panic(s)
          [] a = Omitted -> Refuse(s)          \* two fields are required
          [] OTHER -> IF Valid(a) THEN RecordObservation(s, a, t, n) ELSE Refuse(s)

-----------------------------------------------------------------------------
(* review_observations.                                                     *)

\* Mutant: the clock reading is compared as it is written.
InstantLocal(x) == IF x = Absent THEN 0 ELSE x.clock

Instant(x) == IF x = Absent THEN 0 ELSE x.clock - x.offset

\* Where the text of an instant sorts among the texts of the docket's rows.
\* The layout is four digits wide up to the year 9999; "10000-..." comes after
\* "1000-..." and before "1001-...".
AsText(i) == IF i < Year10000 THEN i ELSE Year1001

FilterOf(a) == [class |-> ToLower(TrimSpace(a.class)), kind |-> a.kind,
                ref |-> ToLower(TrimSpace(a.ref)),
                since |-> AsText(Instant(a.since)), before |-> AsText(Instant(a.before)),
                beforeID |-> a.beforeID, limit |-> DefaultLimit]

Parses(a) == a.since # Garbled /\ a.before # Garbled

Paired(a) == a.beforeID # NoID => Instant(a.before) # 0

NoArgs == [class |-> [text |-> "", pad |-> FALSE], kind |-> "",
           ref |-> [text |-> "", pad |-> FALSE],
           since |-> Absent, before |-> Absent, beforeID |-> NoID]

\* Where the runes of a text end: EndOf(t)[i] bytes hold the first i of them.
EndOf(t) == LET w == Runes[t]
                end[i \in 0..Len(w)] == IF i = 0 THEN 0 ELSE end[i - 1] + w[i]
            IN end

Size(t)       == EndOf(t)[Len(Runes[t])]
RuneStarts(t) == {EndOf(t)[i] : i \in 0..Len(Runes[t]) - 1}

\* Mutant: the text is cut at the cap, wherever that falls.
ClipExact(t, n) == IF Size(t) <= n THEN [bytes |-> Size(t), clipped |-> FALSE]
                   ELSE [bytes |-> n, clipped |-> TRUE]

\* How much of a text an entry of the page shows.
Clip(t, n) ==
  LET back[k \in 0..n] == IF k > 0 /\ k \notin RuneStarts(t) THEN back[k - 1] ELSE k
  IN IF Size(t) <= n THEN [bytes |-> Size(t), clipped |-> FALSE]
     ELSE [bytes |-> back[n], clipped |-> TRUE]

\* Mutant: the handler reaches for the store before it looks at unavailable.
ReviewUnguarded(s, a) ==
  IF Parses(a) /\ Paired(a)
  THEN IF served[s] THEN Reply(s, "answered") /\ UNCHANGED <<docket, acked>>
       ELSE Panic(s)
  ELSE Refuse(s)

ReviewObservations(s, a) ==
  IF served[s] /\ Parses(a) /\ Paired(a)
  THEN Reply(s, "answered") /\ UNCHANGED <<docket, acked>>
  ELSE Refuse(s)

CallReview(s, args) ==
  LET a == TolerateNull(args)
  IN /\ alive[s]
     /\ CASE a = Null -> Panic(s)
          [] a = Omitted -> ReviewObservations(s, NoArgs)
          [] OTHER -> IF Valid(a) THEN ReviewObservations(s, a) ELSE Refuse(s)

-----------------------------------------------------------------------------
Next == \E s \in Sessions :
          \/ \E args \in RecordCalls \cup {Null, Omitted}, t \in Times, n \in Suffixes :
               CallRecord(s, args, t, n)
          \/ \E args \in ReviewCalls \cup {Null, Omitted} : CallReview(s, args)

Spec == Init /\ [][Next]_vars

-----------------------------------------------------------------------------
TypeOK ==
  /\ served \in [Sessions -> BOOLEAN] /\ alive \in [Sessions -> BOOLEAN]
  /\ reply \in [Sessions -> {"none", "refused", "recorded", "answered"}]
  /\ \A r \in docket : /\ r.at \in Times /\ r.id \in Ids
                       /\ {r.obs.class, r.obs.ref, r.obs.text} \subseteq Texts
                       /\ r.obs.kind \in {"project", "user"}
  /\ \A k \in acked : k.args \in RecordCalls /\ k.row \in docket

\* Two spellings of one word: they differ in case and in surrounding space.
Alike(x, y) == Lower[x.text] = Lower[y.text]

\* A review that names only what the record named, in whatever spelling.
Names(a, b) ==
  /\ a.class.text # "" => Alike(a.class, b.class)
  /\ a.ref.text # "" => Alike(a.ref, b.ref)
  /\ a.kind \in {"", b.kind} \/ (b.kind = "" /\ a.kind = "project")

\* Every accepted record is found by exactly the reviews that name its class
\* and scope, however record and review spelled them; a record that left its
\* scope_kind out is found as a project's.
Findable ==
  \A k \in acked, a \in {b \in ReviewCalls : Valid(b) /\ Parses(b)} :
    LET f == [FilterOf(a) EXCEPT !.since = 0, !.before = 0, !.beforeID = NoID]
    IN k.row \in Where(f, docket) <=> Names(a, k.args)

\* since and before bound instants, in whatever zone they are written: a review
\* shows exactly the rows recorded from the one instant up to the other, and as
\* the cursor of a next page the rows past the last one shown.  The bounds are
\* those the stored text can hold and Go does not take for the zero time.
Moment(x) == x.clock - x.offset

Representable(x) == \/ x = Absent
                    \/ x # Garbled /\ Moment(x) \in 1..Year10000 - 1

Within(a, r) ==
  /\ a.since # Absent => Moment(a.since) <= r.at
  /\ a.before # Absent => \/ r.at < Moment(a.before)
                          \/ /\ r.at = Moment(a.before) /\ a.beforeID # NoID
                             /\ IdLess(r.id, a.beforeID)

Windowed ==
  \A a \in {b \in ReviewCalls : Representable(b.since) /\ Representable(b.before)} :
    LET f == FilterOf(a)
        all == [f EXCEPT !.since = 0, !.before = 0, !.beforeID = NoID]
    IN Paired(a) => Where(f, docket) = {r \in Where(all, docket) : Within(a, r)}

\* A review with since returns only observations recorded at or after it, as its
\* description says.  Violated by an instant in the year 10000.
SinceHolds ==
  \A a \in {b \in ReviewCalls : Parses(b) /\ b.since # Absent} :
    \A r \in Where(FilterOf(a), docket) : r.at >= Moment(a.since)

\* An entry never shows part of a character: it holds as many whole runes of the
\* text as the cap has room for, and says so when that is not all of them.
ViewsWhole ==
  \A r \in docket :
    LET t == r.obs.text
        v == Clip(t, TextCap)
    IN \E k \in 0..Len(Runes[t]) :
         /\ v.bytes = EndOf(t)[k] /\ v.bytes <= TextCap
         /\ v.clipped <=> k < Len(Runes[t])
         /\ v.clipped => EndOf(t)[k + 1] > TextCap

\* Nothing is filed where no review by scope finds it: a class is never blank,
\* and a project's observation always names its project.
Filed == \A r \in docket : /\ r.obs.class # ""
                           /\ r.obs.kind = "project" => r.obs.ref # ""

\* No arguments bring a session down, with or without a store, and a session
\* without one never says it recorded or found anything.
SessionsSurvive ==
  \A s \in Sessions : /\ alive[s]
                      /\ reply[s] \in {"recorded", "answered"} => served[s]

\* An accepted record is kept as the handler read its arguments.
Accepted == \A k \in acked : Valid(k.args) /\ k.row.obs = Observed(k.args)

\* The inductive invariant.
IInv == TypeOK /\ Accepted /\ Filed /\ SessionsSurvive
=============================================================================
