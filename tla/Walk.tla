-------------------------------- MODULE Walk --------------------------------
(***************************************************************************)
(* Paging backward through the docket while other sessions record.         *)
(*                                                                         *)
(* A walk is a series of reviews with one filter: each page but the first  *)
(* is asked for with the recorded_at and id of the last observation of the *)
(* page before it, until a review says it is not truncated.  Every review  *)
(* is answered from the docket of its own instant (Store).  In between     *)
(* other sessions commit rows, which may be stamped earlier than rows that *)
(* are already in the docket, and an operator may remove a row by hand.    *)
(***************************************************************************)
EXTENDS Query

CONSTANTS Walks,           \* the walks, each made once
          Filters,         \* what a walk selects and the size of its pages
          Pool             \* the rows that sessions may record, each once

Queries == [class : STRING, kind : STRING, ref : STRING, since : Nat,
            before : Nat, beforeID : Ids \cup {NoID}, limit : Nat]

ASSUME FiltersAssumption ==
  \A f \in Filters : f \in Queries /\ f.before = 0 /\ f.beforeID = NoID

ASSUME PoolAssumption == Sortable(Pool) /\ \A r \in Pool : r.at # 0

VARIABLES docket,          \* the committed rows
          recorded,        \* the rows that were ever committed
          phase,           \* per walk: idle, walking or over
          query,           \* per walk: the filter of its next review
          atStart,         \* per walk: the docket when it began
          seen,            \* per walk: the rows its pages held
          repeated         \* per walk: the rows that were on two pages

walk == <<phase, query, atStart, seen, repeated>>
vars == <<docket, recorded, walk>>

Init == /\ docket = {} /\ recorded = {}
        /\ phase = [w \in Walks |-> "idle"]
        /\ query \in [Walks -> Filters]
        /\ atStart = [w \in Walks |-> {}]
        /\ seen = [w \in Walks |-> {}]
        /\ repeated = [w \in Walks |-> {}]

\* Another session's record commits.
Record(r) == /\ r \notin recorded
             /\ recorded' = recorded \cup {r}
             /\ docket' = docket \cup {r}
             /\ UNCHANGED walk

\* The redaction the README describes: drop the triggers, delete the row.
Redact(r) == /\ docket' = docket \ {r}
             /\ UNCHANGED <<recorded, walk>>

Begin(w) == /\ phase[w] = "idle"
            /\ phase' = [phase EXCEPT ![w] = "walking"]
            /\ atStart' = [atStart EXCEPT ![w] = docket]
            /\ UNCHANGED <<docket, recorded, query, seen, repeated>>

\* Mutants: the bare time bound; the bound without a tie-break included again.
ResumeAtTime(f, r) == [f EXCEPT !.before = r.at]
ResumeWithin(f, r) == [f EXCEPT !.before = r.at + 1]

\* The cursor of the next page, from the last observation of this one.
Resume(f, last) == [f EXCEPT !.before = last.at, !.beforeID = last.id]

\* One review, and the client's next move.
NextPage(w) ==
  /\ phase[w] = "walking"
  /\ LET out  == Answer(query[w], docket)
         page == out.observations
     IN /\ seen' = [seen EXCEPT ![w] = @ \cup page]
        /\ repeated' = [repeated EXCEPT ![w] = @ \cup (page \cap seen[w])]
        /\ phase' = [phase EXCEPT ![w] = IF out.truncated THEN @ ELSE "over"]
        /\ query' = IF out.truncated
                    THEN LET last == CHOOSE r \in page :
                                       \A s \in page \ {r} : Older(r, s)
                         IN [query EXCEPT ![w] = Resume(@, last)]
                    ELSE query
  /\ UNCHANGED <<docket, recorded, atStart>>

Next == \/ \E r \in Pool : Record(r)
        \/ \E r \in docket : Redact(r)
        \/ \E w \in Walks : Begin(w) \/ NextPage(w)

Spec == Init /\ [][Next]_vars

\* A client that has begun a walk asks for the next page.
FairSpec == Spec /\ \A w \in Walks : WF_vars(NextPage(w))

-----------------------------------------------------------------------------
TypeOK ==
  /\ docket \subseteq recorded /\ recorded \subseteq Pool
  /\ phase \in [Walks -> {"idle", "walking", "over"}]
  /\ query \in [Walks -> Queries]
  /\ atStart \in [Walks -> SUBSET Pool]
  /\ seen \in [Walks -> SUBSET Pool]
  /\ repeated \in [Walks -> SUBSET Pool]

\* What the walk selects, whatever page it is at.
Matching(w, rows) ==
  {r \in rows : Selected([query[w] EXCEPT !.before = 0, !.beforeID = NoID], r)}

\* A finished walk missed nothing: it returned every matching row that was in
\* the docket from its beginning to its end, also those that share a
\* millisecond with the end of a page.
WalkMissesNothing ==
  \A w \in Walks :
    phase[w] = "over" => Matching(w, atStart[w] \cap docket) \subseteq seen[w]

\* Pages go backward: no page holds a row that an earlier one held, and all that
\* it does hold is older than all that was seen, whatever was recorded meanwhile.
PagesGoBackward ==
  [][\A w \in Walks :
       /\ repeated'[w] = repeated[w]
       /\ \A r \in seen'[w] \ seen[w], s \in seen[w] : Older(r, s)]_vars

\* Where a walk is: its cursor is at the oldest row it has seen, and what it has
\* yet to see of the docket it began with lies beyond the cursor.
Placed ==
  \A w \in Walks :
    /\ atStart[w] \subseteq recorded
    /\ query[w].before = 0 <=> query[w].beforeID = NoID
    /\ phase[w] = "idle" => query[w].before = 0
    /\ phase[w] # "over" /\ query[w].before = 0 => seen[w] = {}
    /\ phase[w] = "walking" =>
         /\ query[w].before # 0 => \A s \in seen[w] : ~Older(s, Cursor(query[w]))
         /\ \A r \in Matching(w, atStart[w] \cap docket) :
              r \in seen[w] \/ Selected(query[w], r)

\* The inductive invariant.
IInv == TypeOK /\ IsFiniteSet(docket) /\ Placed /\ WalkMissesNothing

\* A walk ends: the cursor advances on every page, past whatever is recorded.
WalkEnds == \A w \in Walks : phase[w] = "walking" ~> phase[w] = "over"
=============================================================================
