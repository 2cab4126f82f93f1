----------------------------- MODULE WalkProofs -----------------------------
(***************************************************************************)
(* Proofs about Walk, for any walks, filters and rows: a finished walk     *)
(* missed nothing, and its pages go backward.                              *)
(***************************************************************************)
EXTENDS Walk, QueryProofs

-----------------------------------------------------------------------------
(* The cursor. *)

\* What has a place in the order of rows: a row, or a cursor.
Key(x) == x.at \in Nat /\ x.id \in Ids

\* A row beyond a cursor is older than a row at the cursor or before it.
LEMMA BeyondTheCursor ==
  ASSUME NEW r, Key(r), NEW c, Key(c), NEW s, Key(s), Older(r, c), ~Older(s, c)
  PROVE  Older(r, s) /\ r # s
<1>1. \A i \in Ids : i[1] \in Nat /\ i[2] \in Nat
  BY DEF Ids
<1> QED BY <1>1 DEF Key, Older, IdLess

\* Two of them are not each older than the other.
LEMMA OlderIsStrict ==
  ASSUME NEW r, Key(r), NEW s, Key(s)
  PROVE  /\ ~Older(r, r)
         /\ Older(r, s) => ~Older(s, r)
<1>1. \A i \in Ids : i[1] \in Nat /\ i[2] \in Nat
  BY DEF Ids
<1> QED BY <1>1 DEF Key, Older, IdLess

LEMMA NoIDIsNone == NoID \notin Ids
BY DEF NoID, Ids

\* What a walk selects at whatever page.
Picked(q, r) == /\ q.class # "" => r.obs.class = q.class
                /\ q.kind # "" => r.obs.kind = q.kind
                /\ q.ref # "" => r.obs.ref = q.ref
                /\ q.since # 0 => r.at >= q.since

\* A query selects what its walk selects, as far as its cursor lets it.
LEMMA SelectedByPage ==
  ASSUME NEW q \in Queries, q.before = 0 <=> q.beforeID = NoID, NEW r
  PROVE  /\ Selected([q EXCEPT !.before = 0, !.beforeID = NoID], r) <=> Picked(q, r)
         /\ Selected(q, r) <=> Picked(q, r) /\ (q.before # 0 => Older(r, Cursor(q)))
BY DEF Queries, Selected, Picked

LEMMA MatchingPicked ==
  ASSUME TypeOK, Placed, NEW w \in Walks, NEW rows
  PROVE  Matching(w, rows) = {r \in rows : Picked(query[w], r)}
<1>1. query[w] \in Queries /\ (query[w].before = 0 <=> query[w].beforeID = NoID)
  BY DEF TypeOK, Placed
<1> QED BY <1>1, SelectedByPage DEF Matching

\* The query a page leads to is the same search with the cursor at its last row.
LEMMA ResumeQuery ==
  ASSUME NEW q \in Queries, NEW r, r.at \in Nat \ {0}, r.id \in Ids
  PROVE  /\ Resume(q, r) \in Queries
         /\ Resume(q, r).before # 0 /\ Resume(q, r).beforeID # NoID
         /\ Cursor(Resume(q, r)) = [at |-> r.at, id |-> r.id]
         /\ \A s : Picked(Resume(q, r), s) <=> Picked(q, s)
BY NoIDIsNone DEF Resume, Queries, Cursor, Picked

-----------------------------------------------------------------------------
(* The inductive invariant. *)

LEMMA InitInv == Init => IInv
<1> SUFFICES ASSUME Init PROVE IInv
  OBVIOUS
<1>1. query \in [Walks -> Queries]
      /\ \A w \in Walks : query[w].before = 0 /\ query[w].beforeID = NoID
  BY FiltersAssumption DEF Init
<1>2. TypeOK
  BY <1>1 DEF Init, TypeOK
<1>3. Placed /\ WalkMissesNothing
  BY <1>1 DEF Init, Placed, WalkMissesNothing
<1> QED BY <1>2, <1>3, FS_EmptySet DEF Init, IInv

\* The docket of a walk is finite and its rows answer to different ids.
LEMMA DocketRows ==
  ASSUME IInv
  PROVE  /\ IsFiniteSet(docket) /\ Sortable(docket)
         /\ \A r \in docket : r.at \in Nat \ {0} /\ r.id \in Ids /\ Key(r)
  BY PoolAssumption DEF IInv, TypeOK, Sortable, Key

\* What one page shows, and what the next query has yet to show.
LEMMA PageOfWalk ==
  ASSUME IInv, NEW w \in Walks, phase[w] = "walking"
  PROVE  LET page == Page(query[w], docket)
             out  == Answer(query[w], docket)
         IN /\ page \subseteq docket
            /\ \A r \in page, s \in seen[w] : Older(r, s) /\ r # s
            /\ \A r \in Matching(w, atStart[w] \cap docket) \ seen[w] :
                 r \in Where(query[w], docket)
            /\ ~out.truncated => page = Where(query[w], docket)
            /\ out.truncated =>
                 \E last \in page : \A s \in page \ {last} : Older(last, s)
            /\ out.observations = page
<1> DEFINE q == query[w]
           page == Page(q, docket)
           out == Answer(q, docket)
<1>1. /\ q \in Queries /\ (q.before = 0 <=> q.beforeID = NoID)
      /\ q.before = 0 => seen[w] = {}
      /\ q.before # 0 => \A s \in seen[w] : ~Older(s, Cursor(q))
      /\ \A r \in Matching(w, atStart[w] \cap docket) : r \in seen[w] \/ Selected(q, r)
      /\ seen[w] \subseteq Pool
  BY DEF IInv, TypeOK, Placed
<1>2. IsFiniteSet(docket) /\ Sortable(docket) /\ q.limit \in Int
  BY <1>1, DocketRows DEF Queries
<1>3. page \subseteq Where(q, docket) /\ Where(q, docket) \subseteq docket
  BY DEF Page, Where
<1>4. out.observations = page
      /\ (out.truncated <=> Total(q, docket) > Cardinality(page))
  BY DEF Answer, Output
<1>5. ASSUME NEW r \in page, NEW s \in seen[w] PROVE Older(r, s) /\ r # s
  <2>1. q.before # 0 /\ q.beforeID # NoID /\ ~Older(s, Cursor(q))
    BY <1>1
  <2>2. Older(r, Cursor(q))
    BY <1>1, <1>3, <2>1, SelectedByPage DEF Where
  <2>3. Key(r) /\ Key(s) /\ Key(Cursor(q))
    <3>1. Key(r) /\ Key(s)
      BY <1>1, <1>3, DocketRows, PoolAssumption DEF Sortable, Key
    <3> QED BY <1>1, <2>1, <3>1 DEF Key, Cursor, Queries
  <2> QED BY <2>1, <2>2, <2>3, BeyondTheCursor
<1>6. \A r \in Matching(w, atStart[w] \cap docket) \ seen[w] : r \in Where(q, docket)
  BY <1>1 DEF Matching, Where
<1> HIDE DEF q
<1>7. out.truncated <=> \E r \in Where(q, docket) : r \notin page
  BY <1>2, <1>4, TruncatedMeansMore
<1>8. out.truncated => \E last \in page : \A s \in page \ {last} : Older(last, s)
  <2> SUFFICES ASSUME out.truncated
               PROVE  \E last \in page : \A s \in page \ {last} : Older(last, s)
    OBVIOUS
  <2>1. page # {}
    BY <1>2, <1>7, BelowThePage
  <2>2. IsFiniteSet(page) /\ Sortable(page)
    BY <1>2, <1>3, FS_Subset DEF Sortable
  <2> QED BY <2>1, <2>2, OldestRow
<1> QED BY <1>3, <1>4, <1>5, <1>6, <1>7, <1>8 DEF q

LEMMA PageStep ==
  ASSUME IInv, NEW w \in Walks, NextPage(w)
  PROVE  /\ IInv'
         /\ repeated' = repeated
         /\ \A r \in seen'[w] \ seen[w], s \in seen[w] : Older(r, s)
<1> DEFINE q == query[w]
           page == Page(q, docket)
           out == Answer(q, docket)
           last == CHOOSE r \in page : \A s \in page \ {r} : Older(r, s)
<1>0. TypeOK /\ Placed /\ WalkMissesNothing /\ phase[w] = "walking"
  BY DEF IInv, NextPage
<1>1. /\ page \subseteq docket
      /\ \A r \in page, s \in seen[w] : Older(r, s) /\ r # s
      /\ \A r \in Matching(w, atStart[w] \cap docket) \ seen[w] : r \in Where(q, docket)
      /\ ~out.truncated => page = Where(q, docket)
      /\ out.truncated => /\ last \in page
                          /\ \A s \in page \ {last} : Older(last, s)
      /\ out.observations = page
  BY <1>0, PageOfWalk
<1>2. /\ seen' = [seen EXCEPT ![w] = @ \cup page]
      /\ repeated' = [repeated EXCEPT ![w] = @ \cup (page \cap seen[w])]
      /\ phase' = [phase EXCEPT ![w] = IF out.truncated THEN @ ELSE "over"]
      /\ query' = IF out.truncated THEN [query EXCEPT ![w] = Resume(@, last)] ELSE query
      /\ UNCHANGED <<docket, recorded, atStart>>
  BY <1>1 DEF NextPage
<1>3. page \cap seen[w] = {}
  BY <1>1
<1>4. repeated' = repeated
  BY <1>0, <1>2, <1>3 DEF TypeOK
<1>5. \A v \in Walks \ {w} : /\ seen'[v] = seen[v] /\ phase'[v] = phase[v]
                             /\ query'[v] = query[v]
  BY <1>0, <1>2 DEF TypeOK
<1>6. seen'[w] = seen[w] \cup page
  BY <1>0, <1>2 DEF TypeOK
<1>7. q \in Queries /\ atStart[w] \cap docket \subseteq docket
  BY <1>0 DEF TypeOK
<1>8. out.truncated => /\ query'[w] = Resume(q, last) /\ phase'[w] = "walking"
                       /\ last \in docket /\ last.at \in Nat \ {0} /\ last.id \in Ids
                       /\ Key(last)
  BY <1>0, <1>1, <1>2, DocketRows DEF TypeOK
<1>9. ~out.truncated => query' = query /\ phase'[w] = "over"
  BY <1>0, <1>2 DEF TypeOK
<1>10. out.truncated =>
         /\ query'[w] \in Queries /\ query'[w].before # 0 /\ query'[w].beforeID # NoID
         /\ Cursor(query'[w]) = [at |-> last.at, id |-> last.id]
         /\ \A s : Picked(query'[w], s) <=> Picked(q, s)
  BY <1>7, <1>8, ResumeQuery
<1> HIDE DEF q, page, out, last
<1>11. TypeOK'
  <2>1. page \subseteq Pool
    BY <1>0, <1>1 DEF TypeOK
  <2>2. query' \in [Walks -> Queries]
    BY <1>0, <1>2, <1>8, <1>9, <1>10 DEF TypeOK
  <2> QED BY <1>0, <1>2, <1>4, <2>1, <2>2 DEF TypeOK
<1>12. \A x : Older(x, [at |-> last.at, id |-> last.id]) <=> Older(x, last)
  BY DEF Older
<1>13. ASSUME out.truncated
       PROVE  /\ \A s \in seen'[w] : ~Older(s, Cursor(query'[w]))
              /\ \A r \in Matching(w, atStart[w] \cap docket) :
                   r \in seen'[w] \/ Selected(query'[w], r)
  <2>1. ASSUME NEW s \in seen'[w] PROVE ~Older(s, last)
    <3>1. s = last \/ Older(last, s)
      BY <1>1, <1>6, <1>13
    <3>2. Key(s)
      BY <1>11, PoolAssumption DEF TypeOK, Key, Sortable
    <3> QED BY <1>8, <1>13, <3>1, <3>2, OlderIsStrict
  <2>2. ASSUME NEW r \in Matching(w, atStart[w] \cap docket), r \notin seen'[w]
        PROVE  Selected(query'[w], r)
    <3>1. r \in Where(q, docket) /\ r \notin page
      BY <1>1, <1>6, <2>2
    <3>2. IsFiniteSet(docket) /\ Sortable(docket) /\ q.limit \in Int
      BY <1>7, DocketRows DEF Queries
    <3>3. Older(r, last)
      BY <1>1, <1>13, <3>1, <3>2, BelowThePage DEF page
    <3>4. Picked(q, r)
      BY <1>0, <2>2, MatchingPicked DEF q
    <3> QED BY <1>10, <1>12, <1>13, <3>3, <3>4, SelectedByPage
  <2> QED BY <1>10, <1>12, <1>13, <2>1, <2>2
\* The matching rows are the same ones after the step, whichever walk it is.
<1>14. \A v \in Walks : /\ query'[v] \in Queries
                        /\ query'[v].before = 0 <=> query'[v].beforeID = NoID
                        /\ \A r : Picked(query'[v], r) <=> Picked(query[v], r)
  <2>1. \A v \in Walks : query[v].before = 0 <=> query[v].beforeID = NoID
    BY <1>0 DEF Placed
  <2> QED BY <1>5, <1>9, <1>10, <1>11, <2>1 DEF TypeOK, q
<1>15. ASSUME NEW v \in Walks
       PROVE  Matching(v, atStart[v] \cap docket)' = Matching(v, atStart[v] \cap docket)
  <2>1. Matching(v, atStart[v] \cap docket)' =
          {r \in atStart[v] \cap docket : Picked(query'[v], r)}
    BY <1>2, <1>14, SelectedByPage DEF Matching
  <2>2. Matching(v, atStart[v] \cap docket) =
          {r \in atStart[v] \cap docket : Picked(query[v], r)}
    BY <1>0, MatchingPicked
  <2>3. \A r : Picked(query'[v], r) <=> Picked(query[v], r)
    BY <1>14
  <2> QED BY <2>1, <2>2, <2>3
<1>16. Placed'
  <2>1. ASSUME NEW v \in Walks \ {w}
        PROVE  /\ phase'[v] = "idle" => query'[v].before = 0
               /\ phase'[v] # "over" /\ query'[v].before = 0 => seen'[v] = {}
               /\ phase'[v] = "walking" =>
                    /\ query'[v].before # 0 =>
                         \A s \in seen'[v] : ~Older(s, Cursor(query'[v]))
                    /\ \A r \in Matching(v, atStart[v] \cap docket)' :
                         r \in seen'[v] \/ Selected(query'[v], r)
    BY <1>0, <1>5, <1>15 DEF Placed
  <2>2. /\ phase'[w] # "idle"
        /\ ~(phase'[w] # "over" /\ query'[w].before = 0)
        /\ phase'[w] = "walking" =>
             /\ \A s \in seen'[w] : ~Older(s, Cursor(query'[w]))
             /\ \A r \in Matching(w, atStart[w] \cap docket)' :
                  r \in seen'[w] \/ Selected(query'[w], r)
    BY <1>8, <1>9, <1>10, <1>13, <1>15
  <2>3. \A v \in Walks : atStart'[v] \subseteq recorded'
    BY <1>0, <1>2 DEF Placed
  <2> QED BY <1>14, <2>1, <2>2, <2>3 DEF Placed
<1>17. WalkMissesNothing'
  <2>1. ASSUME NEW v \in Walks \ {w}, phase'[v] = "over"
        PROVE  Matching(v, atStart[v] \cap docket)' \subseteq seen'[v]
    BY <1>0, <1>5, <1>15, <2>1 DEF WalkMissesNothing
  <2>2. ASSUME phase'[w] = "over"
        PROVE  Matching(w, atStart[w] \cap docket)' \subseteq seen'[w]
    BY <1>1, <1>6, <1>8, <1>15, <2>2
  <2> QED BY <2>1, <2>2 DEF WalkMissesNothing
<1> QED BY <1>1, <1>2, <1>4, <1>6, <1>11, <1>16, <1>17 DEF IInv

LEMMA RecordStep ==
  ASSUME IInv, NEW r \in Pool, Record(r)
  PROVE  IInv'
<1> USE DEF walk
<1>1. TypeOK /\ Placed /\ WalkMissesNothing
  BY DEF IInv
<1>2. TypeOK'
  BY <1>1 DEF TypeOK, Record
<1>3. IsFiniteSet(docket')
  BY FS_AddElement DEF IInv, Record
<1>4. \A w \in Walks : atStart[w] \cap docket' = atStart[w] \cap docket
  BY <1>1 DEF Record, Placed
<1>5. \A w \in Walks :
        Matching(w, atStart[w] \cap docket)' = Matching(w, atStart[w] \cap docket)
  BY <1>4 DEF Record, Matching
<1>6. Placed'
  BY <1>1, <1>5 DEF Placed, Record
<1>7. WalkMissesNothing'
  BY <1>1, <1>5 DEF WalkMissesNothing, Record
<1> QED BY <1>2, <1>3, <1>6, <1>7 DEF IInv

LEMMA RedactStep ==
  ASSUME IInv, NEW r \in docket, Redact(r)
  PROVE  IInv'
<1> USE DEF walk
<1>1. TypeOK /\ Placed /\ WalkMissesNothing
  BY DEF IInv
<1>2. TypeOK'
  BY <1>1 DEF TypeOK, Redact
<1>3. IsFiniteSet(docket')
  BY FS_RemoveElement DEF IInv, Redact
<1>4. \A w \in Walks :
        Matching(w, atStart[w] \cap docket)' \subseteq Matching(w, atStart[w] \cap docket)
  BY DEF Redact, Matching
<1>5. Placed'
  BY <1>1, <1>4 DEF Placed, Redact
<1>6. WalkMissesNothing'
  BY <1>1, <1>4 DEF WalkMissesNothing, Redact
<1> QED BY <1>2, <1>3, <1>5, <1>6 DEF IInv

LEMMA BeginStep ==
  ASSUME IInv, NEW w \in Walks, Begin(w)
  PROVE  IInv'
<1>1. TypeOK /\ Placed /\ WalkMissesNothing
  BY DEF IInv
<1>2. TypeOK'
  BY <1>1 DEF TypeOK, Begin
<1>3. /\ phase'[w] = "walking" /\ query[w].before = 0 /\ query[w] \in Queries
      /\ query[w].beforeID = NoID /\ seen[w] = {}
      /\ \A v \in Walks \ {w} : phase'[v] = phase[v] /\ atStart'[v] = atStart[v]
      /\ atStart'[w] = docket /\ docket \subseteq recorded
      /\ UNCHANGED <<docket, recorded, query, seen, repeated>>
  BY <1>1 DEF TypeOK, Placed, Begin
<1>4. \A v \in Walks \ {w} :
        Matching(v, atStart[v] \cap docket)' = Matching(v, atStart[v] \cap docket)
  BY <1>3 DEF Matching
<1>5. \A r \in Matching(w, atStart[w] \cap docket)' : Selected(query[w], r)
  BY <1>3, SelectedByPage DEF Matching
<1>6. Placed'
  BY <1>1, <1>3, <1>4, <1>5 DEF Placed
<1>7. WalkMissesNothing'
  BY <1>1, <1>3, <1>4 DEF WalkMissesNothing
<1> QED BY <1>2, <1>3, <1>6, <1>7 DEF IInv

-----------------------------------------------------------------------------
(* Theorems. *)

\* The inductive invariant holds in every reachable state.
THEOREM Invariance == Spec => []IInv
<1>1. IInv /\ [Next]_vars => IInv'
  <2> SUFFICES ASSUME IInv, [Next]_vars PROVE IInv'
    OBVIOUS
  <2>1. CASE UNCHANGED vars
    BY <2>1 DEF vars, walk, IInv, TypeOK, Placed, WalkMissesNothing, Matching
  <2> QED BY <2>1, RecordStep, RedactStep, BeginStep, PageStep DEF Next
<1> QED BY InitInv, <1>1, PTL DEF Spec

\* Whatever is recorded or redacted during a walk, it has returned every matching
\* row that was in the docket from its beginning to its end (review.go, next page).
THEOREM NothingMissed == Spec => []WalkMissesNothing
BY Invariance, PTL DEF IInv

\* No page holds a row that an earlier page of the walk held, and every row of it
\* is older than all of those.
THEOREM OnlyBackward == Spec => PagesGoBackward
<1> DEFINE A == \A w \in Walks :
                  /\ repeated'[w] = repeated[w]
                  /\ \A r \in seen'[w] \ seen[w], s \in seen[w] : Older(r, s)
<1>1. IInv /\ [Next]_vars => [A]_vars
  <2> SUFFICES ASSUME IInv, [Next]_vars, ~UNCHANGED vars PROVE A
    OBVIOUS
  <2>1. CASE UNCHANGED <<seen, repeated>>
    BY <2>1
  <2>2. ASSUME NEW w \in Walks, NextPage(w) PROVE A
    <3>1. \A v \in Walks \ {w} : seen'[v] = seen[v]
      BY <2>2 DEF NextPage, IInv, TypeOK
    <3> QED BY <2>2, <3>1, PageStep
  <2> QED BY <2>1, <2>2 DEF Next, Record, Redact, Begin, walk
<1> QED BY Invariance, <1>1, PTL DEF Spec, PagesGoBackward
=============================================================================
