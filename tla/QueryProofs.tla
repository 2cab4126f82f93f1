---------------------------- MODULE QueryProofs ----------------------------
(***************************************************************************)
(* Lemmas about Query: the sort key is a strict total order on the rows of *)
(* a docket, a page is the newest rows of the match and as long as it can  *)
(* be.  They hold for any finite set of rows with an id each, and are what *)
(* the proofs about reviews (StoreProofs) and walks (WalkProofs) rest on.  *)
(***************************************************************************)
EXTENDS Query, TLAPS, FiniteSetTheorems

-----------------------------------------------------------------------------
(* The sort key. *)

LEMMA OlderOrder ==
  ASSUME NEW S, Sortable(S), NEW r \in S, NEW s \in S, NEW u \in S
  PROVE  /\ ~Older(r, r)
         /\ Older(r, s) /\ Older(s, u) => Older(r, u)
         /\ r # s => Older(r, s) \/ Older(s, r)
<1>1. \A i \in Ids : i[1] \in Nat /\ i[2] \in Nat /\ i = <<i[1], i[2]>>
  BY DEF Ids
<1>2. \A x \in S : x.at \in Nat /\ x.id[1] \in Nat /\ x.id[2] \in Nat
                   /\ x.id = <<x.id[1], x.id[2]>>
  BY <1>1 DEF Sortable
<1>3. r # s => r.id[1] # s.id[1] \/ r.id[2] # s.id[2]
  BY <1>2 DEF Sortable
<1> QED BY <1>2, <1>3 DEF Older, IdLess

\* Finitely many rows have an oldest one.
LEMMA OldestRow ==
  ASSUME NEW S, IsFiniteSet(S), Sortable(S), S # {}
  PROVE  \E r \in S : \A s \in S \ {r} : Older(r, s)
<1> DEFINE Below(r) == {s \in S : Older(s, r)}
           T == {Below(r) : r \in S}
<1>1. T \subseteq FiniteSubsetsOf(S) /\ T # {}
  <2>1. \A r \in S : Below(r) \in SUBSET S /\ IsFiniteSet(Below(r))
    BY FS_Subset
  <2> QED BY <2>1 DEF FiniteSubsetsOf
<1>2. IsWellFoundedOn(StrictSubsetOrdering(S), FiniteSubsetsOf(S))
  BY FS_StrictSubsetOrderingWellFounded
<1>3. PICK x \in T : \A y \in T : ~(<<y, x>> \in StrictSubsetOrdering(S))
  <2> HIDE DEF T
  <2> QED BY <1>1, <1>2, WFMin
<1>4. PICK r \in S : x = Below(r)
  OBVIOUS
<1>5. ASSUME NEW s \in S, Older(s, r) PROVE FALSE
  <2>1. Below(s) \subseteq Below(r)
    BY <1>5, OlderOrder
  <2>2. s \in Below(r) /\ s \notin Below(s)
    BY <1>5, OlderOrder
  <2>3. <<Below(s), Below(r)>> \in StrictSubsetOrdering(S)
    BY <2>1, <2>2 DEF StrictSubsetOrdering
  <2> QED BY <1>3, <1>4, <2>3
<1> QED BY <1>5, OlderOrder

\* And a newest one.
LEMMA NewestRow ==
  ASSUME NEW S, IsFiniteSet(S), Sortable(S), S # {}
  PROVE  \E r \in S : \A s \in S \ {r} : Older(s, r)
<1> DEFINE Above(r) == {s \in S : Older(r, s)}
           T == {Above(r) : r \in S}
<1>1. T \subseteq FiniteSubsetsOf(S) /\ T # {}
  <2>1. \A r \in S : Above(r) \in SUBSET S /\ IsFiniteSet(Above(r))
    BY FS_Subset
  <2> QED BY <2>1 DEF FiniteSubsetsOf
<1>2. IsWellFoundedOn(StrictSubsetOrdering(S), FiniteSubsetsOf(S))
  BY FS_StrictSubsetOrderingWellFounded
<1>3. PICK x \in T : \A y \in T : ~(<<y, x>> \in StrictSubsetOrdering(S))
  <2> HIDE DEF T
  <2> QED BY <1>1, <1>2, WFMin
<1>4. PICK r \in S : x = Above(r)
  OBVIOUS
<1>5. ASSUME NEW s \in S, Older(r, s) PROVE FALSE
  <2>1. Above(s) \subseteq Above(r)
    BY <1>5, OlderOrder
  <2>2. s \in Above(r) /\ s \notin Above(s)
    BY <1>5, OlderOrder
  <2>3. <<Above(s), Above(r)>> \in StrictSubsetOrdering(S)
    BY <2>1, <2>2 DEF StrictSubsetOrdering
  <2> QED BY <1>3, <1>4, <2>3
<1> QED BY <1>5, OlderOrder

-----------------------------------------------------------------------------
(* The page. *)

\* What a page is made of.  A page holds the newest rows of the match: with a
\* row, every newer one.
LEMMA PageNewest ==
  ASSUME NEW f, NEW rows, IsFiniteSet(rows), Sortable(rows), f.limit \in Int
  PROVE  /\ Page(f, rows) \subseteq Where(f, rows)
         /\ \A r \in Page(f, rows), s \in Where(f, rows) :
              Older(r, s) => s \in Page(f, rows)
<1> DEFINE W == Where(f, rows)
           Above(r) == {s \in W : Older(r, s)}
<1>1. W \subseteq rows /\ IsFiniteSet(W) /\ Sortable(W)
  BY FS_Subset DEF Where, Sortable
<1>2. Limit(f) \in Nat \ {0}
  BY DefaultLimitAssumption DEF Limit
<1>3. ASSUME NEW r \in Page(f, rows), NEW s \in W, Older(r, s)
      PROVE  s \in Page(f, rows)
  <2>1. r \in W /\ Cardinality(Above(r)) < Limit(f)
    BY DEF Page
  <2>2. Above(s) \subseteq Above(r)
    BY <1>1, <1>3, <2>1, OlderOrder
  <2>3. IsFiniteSet(Above(r)) /\ Cardinality(Above(r)) \in Nat
    BY <1>1, FS_Subset, FS_CardinalityType
  <2>4. IsFiniteSet(Above(s)) /\ Cardinality(Above(s)) \in Nat
        /\ Cardinality(Above(s)) <= Cardinality(Above(r))
    BY <2>2, <2>3, FS_Subset, FS_CardinalityType
  <2> QED BY <1>2, <2>1, <2>3, <2>4 DEF Page
<1> QED BY <1>3 DEF Page

\* A page is full unless the match ends: as many rows as there are, up to the
\* limit.
LEMMA PageSize ==
  ASSUME NEW f, NEW rows, IsFiniteSet(rows), Sortable(rows), f.limit \in Int
  PROVE  /\ IsFiniteSet(Page(f, rows))
         /\ Cardinality(Page(f, rows)) =
              IF Total(f, rows) < Limit(f) THEN Total(f, rows) ELSE Limit(f)
         /\ Total(f, rows) \in Nat /\ Limit(f) \in Nat \ {0}
<1> DEFINE W == Where(f, rows)
           P == Page(f, rows)
           Above(r) == {s \in W : Older(r, s)}
<1>1. W \subseteq rows /\ IsFiniteSet(W) /\ Sortable(W)
  BY FS_Subset DEF Where, Sortable
<1>2. Limit(f) \in Nat \ {0}
  BY DefaultLimitAssumption DEF Limit
<1>3. P \subseteq W /\ IsFiniteSet(P) /\ Sortable(P)
  BY <1>1, FS_Subset DEF Page, Sortable
<1>4. /\ Cardinality(P) \in Nat /\ Cardinality(W) \in Nat
      /\ Cardinality(P) <= Cardinality(W)
  BY <1>1, <1>3, FS_Subset, FS_CardinalityType
<1>5. Cardinality(P) <= Limit(f)
  <2>1. CASE P = {}
    BY <1>2, <2>1, FS_EmptySet
  <2>2. CASE P # {}
    <3>1. PICK r \in P : \A s \in P \ {r} : Older(r, s)
      BY <1>3, <2>2, OldestRow
    <3>2. P \ {r} \subseteq Above(r) /\ IsFiniteSet(Above(r))
      BY <1>1, <1>3, <3>1, FS_Subset
    <3>3. /\ Cardinality(P \ {r}) <= Cardinality(Above(r))
          /\ Cardinality(P \ {r}) = Cardinality(P) - 1
          /\ Cardinality(Above(r)) \in Nat
      BY <1>3, <3>2, FS_Subset, FS_RemoveElement, FS_CardinalityType
    <3>4. Cardinality(Above(r)) < Limit(f)
      BY DEF Page
    <3> QED BY <1>2, <1>4, <3>3, <3>4
  <2> QED BY <2>1, <2>2
<1>6. CASE P = W
  BY <1>2, <1>3, <1>4, <1>5, <1>6 DEF Total
<1>7. CASE P # W
  <2> DEFINE R == W \ P
  <2>1. R # {} /\ IsFiniteSet(R) /\ Sortable(R)
    BY <1>1, <1>3, <1>7, FS_Subset DEF Sortable
  <2>2. PICK r \in R : \A s \in R \ {r} : Older(s, r)
    BY <2>1, NewestRow
  <2>3. Above(r) \subseteq P
    <3>1. \A s \in R : ~Older(r, s)
      BY <1>1, <2>2, OlderOrder
    <3> QED BY <3>1
  <2>4. Cardinality(Above(r)) <= Cardinality(P) /\ Cardinality(Above(r)) \in Nat
    BY <1>3, <2>3, FS_Subset, FS_CardinalityType
  <2>5. ~(Cardinality(Above(r)) < Limit(f))
    BY <2>2 DEF Page
  <2>6. Cardinality(P) # Cardinality(W)
    BY <1>1, <1>3, <1>7, FS_Subset
  <2> QED BY <1>2, <1>3, <1>4, <1>5, <2>4, <2>5, <2>6 DEF Total
<1> QED BY <1>6, <1>7

\* Truncated is what it says: rows of the match are missing from the page.
LEMMA TruncatedMeansMore ==
  ASSUME NEW f, NEW rows, IsFiniteSet(rows), Sortable(rows), f.limit \in Int
  PROVE  Total(f, rows) > Cardinality(Page(f, rows))
           <=> \E r \in Where(f, rows) : r \notin Page(f, rows)
<1> DEFINE W == Where(f, rows)
           P == Page(f, rows)
<1>1. IsFiniteSet(W) /\ P \subseteq W
  BY FS_Subset DEF Where, Page
<1>2. /\ Cardinality(P) <= Cardinality(W)
      /\ Cardinality(P) = Cardinality(W) => P = W
      /\ Cardinality(P) \in Nat /\ Cardinality(W) \in Nat
  BY <1>1, FS_Subset, FS_CardinalityType
<1> QED BY <1>1, <1>2 DEF Total

\* No class has more rows than the match.
LEMMA TallyBounded ==
  ASSUME NEW f, NEW rows, IsFiniteSet(rows), NEW k \in DOMAIN Tally(f, rows)
  PROVE  Tally(f, rows)[k] <= Total(f, rows)
<1>1. IsFiniteSet(Where(f, rows))
  BY FS_Subset DEF Where
<1>2. Tally(f, rows)[k] = Cardinality({r \in Where(f, rows) : r.obs.class = k})
  BY DEF Tally
<1> QED BY <1>1, <1>2, FS_Subset DEF Total

\* A row of the match that is not on the page is older than every row that is,
\* and then the page is not empty.
LEMMA BelowThePage ==
  ASSUME NEW f, NEW rows, IsFiniteSet(rows), Sortable(rows), f.limit \in Int,
         NEW r \in Where(f, rows), r \notin Page(f, rows)
  PROVE  /\ \A s \in Page(f, rows) : Older(r, s)
         /\ Page(f, rows) # {}
<1>1. /\ Page(f, rows) \subseteq Where(f, rows) /\ Where(f, rows) \subseteq rows
      /\ \A s \in Page(f, rows), u \in Where(f, rows) :
           Older(s, u) => u \in Page(f, rows)
  BY PageNewest DEF Where
<1>2. \A s \in Page(f, rows) : Older(r, s)
  BY <1>1, OlderOrder
<1>3. Page(f, rows) # {}
  <2>1. Cardinality(Where(f, rows)) \in Nat /\ Cardinality(Where(f, rows)) # 0
    <3>1. IsFiniteSet(Where(f, rows)) /\ Where(f, rows) # {}
      BY FS_Subset DEF Where
    <3> QED BY <3>1, FS_EmptySet, FS_CardinalityType
  <2>2. Cardinality(Page(f, rows)) # 0
    BY <2>1, PageSize DEF Total
  <2> QED BY <2>2, FS_EmptySet
<1> QED BY <1>2, <1>3
=============================================================================
