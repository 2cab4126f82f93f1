------------------------------- MODULE Query -------------------------------
(***************************************************************************)
(* What one review computes from the rows it can see: the predicate that   *)
(* Filter.where renders, the page "ORDER BY recorded_at DESC, id DESC      *)
(* LIMIT ?", the total, the per-class tally and the truncated flag the     *)
(* handler derives from them.                                              *)
(*                                                                         *)
(* A row is [at, id, obs].  "at" is recorded_at in milliseconds: timeLayout*)
(* has a fixed width, so comparing the strings compares the instants.  "id"*)
(* is the version 7 UUID as the pair <<millisecond prefix, random suffix>>,*)
(* whose text order is the pair's lexicographic order.  "obs" holds the    *)
(* fields a filter can name.                                               *)
(*                                                                         *)
(* A filter is [class, kind, ref, since, before, beforeID, limit].  As in  *)
(* the code the empty string leaves a field unset, and so do the zero time *)
(* (0 here) and NoID.                                                      *)
(***************************************************************************)
EXTENDS Integers, FiniteSets

CONSTANT DefaultLimit          \* the page size of a filter that asks for none

ASSUME DefaultLimitAssumption == DefaultLimit \in Nat \ {0}

Ids  == Nat \X Nat
NoID == <<>>

IdLess(i, j) == \/ i[1] < j[1]
                \/ i[1] = j[1] /\ i[2] < j[2]

\* The sort key, and the row-value comparison of the paging cursor.
Older(r, s) == \/ r.at < s.at
               \/ r.at = s.at /\ IdLess(r.id, s.id)

\* Rows as the docket keeps them: an id is a primary key.
Sortable(rows) == /\ \A r \in rows : r.at \in Nat /\ r.id \in Ids
                  /\ \A r, s \in rows : r.id = s.id => r = s

Cursor(f) == [at |-> f.before, id |-> f.beforeID]

Selected(f, r) ==
  /\ f.class # "" => r.obs.class = f.class
  /\ f.kind # "" => r.obs.kind = f.kind
  /\ f.ref # "" => r.obs.ref = f.ref
  /\ f.since # 0 => r.at >= f.since
  /\ f.before # 0 /\ f.beforeID # NoID => Older(r, Cursor(f))
  /\ f.before # 0 /\ f.beforeID = NoID => r.at < f.before

Where(f, rows) == {r \in rows : Selected(f, r)}

Limit(f) == IF f.limit <= 0 THEN DefaultLimit ELSE f.limit

\* The newest rows of the match.  A page is a set: its order is the sort key's.
Page(f, rows) ==
  {r \in Where(f, rows) :
     Cardinality({s \in Where(f, rows) : Older(r, s)}) < Limit(f)}

Total(f, rows) == Cardinality(Where(f, rows))

Tally(f, rows) ==
  [k \in {r.obs.class : r \in Where(f, rows)} |->
     Cardinality({r \in Where(f, rows) : r.obs.class = k})]

\* reviewOutput, from what the three queries of List returned.
Output(page, total, classes) ==
  [observations |-> page, total |-> total, class_counts |-> classes,
   truncated |-> total > Cardinality(page)]

\* The whole review of one state of the docket.
Answer(f, rows) == Output(Page(f, rows), Total(f, rows), Tally(f, rows))
=============================================================================
