---------------------------- MODULE ServerProofs ----------------------------
(***************************************************************************)
(* Proofs about Server, for any texts, arguments, sessions and clocks: what*)
(* the handlers file is found again, the bounds of a review are instants,  *)
(* and no arguments bring a session down.                                  *)
(***************************************************************************)
EXTENDS Server, TLAPS, FiniteSetTheorems, SequenceTheorems

-----------------------------------------------------------------------------
(* What the handlers make of their arguments. *)

LEMMA ObservedFields ==
  ASSUME NEW a
  PROVE  /\ Observed(a).class = Lower[a.class.text]
         /\ Observed(a).ref = Lower[a.ref.text]
         /\ Observed(a).text = a.observation.text
         /\ a.kind = "" => Observed(a).kind = "project"
         /\ a.kind # "" => Observed(a).kind = a.kind
BY DEF Observed, TrimSpace, ToLower

\* An observation holds normalised texts and one of two scope kinds.
LEMMA ObservedType ==
  ASSUME NEW a \in RecordArgs
  PROVE  /\ {Observed(a).class, Observed(a).ref, Observed(a).text} \subseteq Texts
         /\ Valid(a) => Observed(a).kind \in {"project", "user"}
<1>1. a.class.text \in Texts /\ a.ref.text \in Texts /\ a.observation.text \in Texts
  BY DEF RecordArgs, Raw
<1>2. Lower[a.class.text] \in Texts /\ Lower[a.ref.text] \in Texts
  BY <1>1, LowerAssumption
<1>3. Valid(a) => Observed(a).kind \in {"project", "user"}
  BY ObservedFields DEF Valid
<1> QED BY <1>1, <1>2, <1>3, ObservedFields

\* What one step of a session does: nothing, a refusal, an answer, or one row
\* made of a call that is valid, well formed and served.
Accepts(s, a, t, n) ==
  LET row == [at |-> t, id |-> <<t, n>>, obs |-> Observed(a)]
  IN /\ a \in RecordCalls /\ Valid(a) /\ WellFormed(a) /\ served[s]
     /\ docket' = docket \cup {row}
     /\ acked' = acked \cup {[args |-> a, row |-> row]}
     /\ Reply(s, "recorded")

Answers(s) == served[s] /\ Reply(s, "answered") /\ UNCHANGED <<docket, acked>>

LEMMA StepKinds ==
  ASSUME Next
  PROVE  \E s \in Sessions :
           \/ Refuse(s) \/ Answers(s)
           \/ \E a \in RecordCalls, t \in Times, n \in Suffixes : Accepts(s, a, t, n)
<1>1. ASSUME NEW s \in Sessions, NEW args \in RecordCalls \cup {Null, Omitted},
             NEW t \in Times, NEW n \in Suffixes, CallRecord(s, args, t, n)
      PROVE  Refuse(s) \/ \E a \in RecordCalls : Accepts(s, a, t, n)
  <2>1. CASE args \in {Null, Omitted}
    BY <1>1, <2>1, CallsAssumption DEF CallRecord, TolerateNull
  <2>2. CASE args \in RecordCalls
    <3>1. TolerateNull(args) = args /\ args # Null /\ args # Omitted
      BY <2>2, CallsAssumption DEF TolerateNull
    <3>2. IF Valid(args) THEN RecordObservation(s, args, t, n) ELSE Refuse(s)
      BY <1>1, <3>1 DEF CallRecord
    <3> QED BY <2>2, <3>2 DEF RecordObservation, Accepts
  <2> QED BY <2>1, <2>2
<1>2. ASSUME NEW s \in Sessions, NEW args \in ReviewCalls \cup {Null, Omitted},
             CallReview(s, args)
      PROVE  Refuse(s) \/ Answers(s)
  <2>1. \A a : ReviewObservations(s, a) => Refuse(s) \/ Answers(s)
    BY DEF ReviewObservations, Answers
  <2>2. TolerateNull(args) # Null
    BY CallsAssumption DEF TolerateNull
  <2> QED BY <1>2, <2>1, <2>2 DEF CallReview
<1> QED BY <1>1, <1>2 DEF Next

\* A bound the stored text can hold is the instant it was written for.
LEMMA BoundText ==
  ASSUME NEW x \in Timestamps, Representable(x)
  PROVE  /\ x = Absent => Instant(x) = 0 /\ AsText(Instant(x)) = 0
         /\ x # Absent => /\ Moment(x) \in Nat \ {0} /\ Instant(x) = Moment(x)
                          /\ AsText(Instant(x)) = Moment(x)
<1>1. CASE x = Absent
  BY <1>1, YearsAssumption DEF Instant, AsText
<1>2. CASE x # Absent
  <2>1. Moment(x) \in 1..Year10000 - 1 /\ Instant(x) = Moment(x)
    BY <1>2 DEF Representable, Instant, Moment
  <2> QED BY <1>2, <2>1, YearsAssumption DEF AsText
<1> QED BY <1>1, <1>2

-----------------------------------------------------------------------------
(* What recursive functions on 0..N compute, without an induction theorem. *)

\* A set of numbers that is not empty has a least one: the induction the proofs
\* about recursive functions below need.
LEMMA LeastNumber ==
  ASSUME NEW T \in SUBSET Nat, T # {}
  PROVE  \E n \in T : \A m \in T : n <= m
<1> DEFINE F == {1..n : n \in T}
<1>1. \A n \in T : n \in Nat /\ 1..n \in SUBSET Nat /\ IsFiniteSet(1..n)
  BY FS_Interval
<1>2. F \subseteq FiniteSubsetsOf(Nat) /\ F # {}
  BY <1>1 DEF FiniteSubsetsOf
<1>3. IsWellFoundedOn(StrictSubsetOrdering(Nat), FiniteSubsetsOf(Nat))
  BY FS_StrictSubsetOrderingWellFounded
<1>4. PICK x \in F : \A y \in F : ~(<<y, x>> \in StrictSubsetOrdering(Nat))
  <2> HIDE DEF F
  <2> QED BY <1>2, <1>3, WFMin
<1>5. PICK n \in T : x = 1..n
  OBVIOUS
<1>6. ASSUME NEW m \in T, m < n PROVE FALSE
  <2>1. 1..m \subseteq 1..n /\ n \in 1..n /\ n \notin 1..m
    BY <1>1, <1>6
  <2>2. <<1..m, 1..n>> \in StrictSubsetOrdering(Nat)
    BY <1>1, <2>1 DEF StrictSubsetOrdering
  <2> QED BY <1>4, <1>5, <2>2
<1> QED BY <1>1, <1>6


\* A property of the numbers up to N that holds of 0 and passes from each to the
\* next holds of all of them: B is the set of those it holds of.
LEMMA StepByStep ==
  ASSUME NEW N \in Nat, NEW B, 0 \in B, \A n \in 0..N - 1 : n \in B => n + 1 \in B
  PROVE  0..N \subseteq B
<1> DEFINE Bad == (0..N) \ B
<1>1. ASSUME Bad # {} PROVE FALSE
  <2>1. PICK n \in Bad : \A m \in Bad : n <= m
    <3>1. Bad \in SUBSET Nat
      OBVIOUS
    <3> HIDE DEF Bad
    <3> QED BY <1>1, <3>1, LeastNumber
  <2>2. n \in Nat /\ n # 0 /\ n <= N
    OBVIOUS
  <2>3. n - 1 \in 0..N - 1 /\ n - 1 \notin Bad
    BY <2>1, <2>2
  <2>4. n - 1 \in B
    BY <2>2, <2>3
  <2>5. n - 1 + 1 \in B
    BY <2>3, <2>4
  <2> QED BY <2>2, <2>5
<1> QED BY <1>1

\* f is defined on 0..N by its value at 0 and a step h from each value to the next.
Stepwise(f, N, S, a, h) == /\ f \in [0..N -> S] /\ f[0] = a
                           /\ \A i \in 1..N : f[i] = h[i][f[i - 1]]

\* A function may be defined on 0..N from its value at 0 and a step h from each
\* value to the next.
LEMMA StepwiseFunction ==
  ASSUME NEW N \in Nat, NEW S, NEW a \in S, NEW h \in [1..N -> [S -> S]]
  PROVE  \E f : Stepwise(f, N, S, a, h)
<1> DEFINE B == {n \in 0..N : \E f : Stepwise(f, n, S, a, h)}
<1>1. 0 \in B
  <2> DEFINE g == [i \in 0..0 |-> a]
  <2>1. 0 \in 0..0 /\ 1..0 = {} /\ 0 \in 0..N
    OBVIOUS
  <2>2. g \in [0..0 -> S] /\ g[0] = a
    BY <2>1
  <2> HIDE DEF g
  <2>3. Stepwise(g, 0, S, a, h)
    BY <2>1, <2>2 DEF Stepwise
  <2> QED BY <2>1, <2>3
<1>2. ASSUME NEW n \in 0..N - 1, n \in B PROVE n + 1 \in B
  <2>1. PICK f : Stepwise(f, n, S, a, h)
    BY <1>2
  <2>2. /\ n \in Nat /\ n + 1 \in 1..N /\ n + 1 \in 0..N /\ n \in 0..n /\ 0 \in 0..n
        /\ 0..n + 1 = (0..n) \cup {n + 1} /\ n + 1 \notin 0..n
        /\ 1..n + 1 = (1..n) \cup {n + 1}
        /\ \A i \in 1..n : i \in 0..n /\ i - 1 \in 0..n
        /\ n + 1 - 1 = n
    OBVIOUS
  <2>3. /\ f \in [0..n -> S] /\ f[0] = a
        /\ \A i \in 1..n : f[i] = h[i][f[i - 1]]
    BY <2>1 DEF Stepwise
  <2> DEFINE x == h[n + 1][f[n]]
             g == [i \in 0..n + 1 |-> IF i = n + 1 THEN x ELSE f[i]]
  <2>4. x \in S
    <3>1. h[n + 1] \in [S -> S] /\ f[n] \in S
      BY <2>2, <2>3
    <3> QED BY <3>1
  <2> HIDE DEF x
  <2>5. g[n + 1] = x /\ \A i \in 0..n : g[i] = f[i]
    BY <2>2
  <2>6. g \in [0..n + 1 -> S]
    BY <2>2, <2>3, <2>4
  <2> HIDE DEF g
  <2>7. ASSUME NEW i \in 1..n + 1 PROVE g[i] = h[i][g[i - 1]]
    <3>1. CASE i = n + 1
      BY <2>2, <2>5, <3>1 DEF x
    <3>2. CASE i \in 1..n
      BY <2>2, <2>3, <2>5, <3>2
    <3> QED BY <2>2, <3>1, <3>2
  <2>8. g[0] = a
    BY <2>2, <2>3, <2>5
  <2>9. Stepwise(g, n + 1, S, a, h)
    BY <2>6, <2>7, <2>8 DEF Stepwise
  <2> QED BY <2>2, <2>9
<1>3. 0..N \subseteq B
  <2> HIDE DEF B
  <2> QED BY <1>1, <1>2, StepByStep
<1>4. N \in 0..N
  OBVIOUS
<1> QED BY <1>3, <1>4

-----------------------------------------------------------------------------
(* The cap on an entry's text. *)

\* The runes of a text are a sequence of widths of one byte or more.
LEMMA Widths ==
  ASSUME NEW t \in Texts
  PROVE  /\ Len(Runes[t]) \in Nat
         /\ \A i \in 1..Len(Runes[t]) : Runes[t][i] \in Nat \ {0}
<1>1. Runes[t] \in Seq(1..4)
  BY RunesAssumption
<1>2. Len(Runes[t]) \in Nat
  BY <1>1, LenProperties
<1>3. \A i \in 1..Len(Runes[t]) : Runes[t][i] \in 1..4
  BY <1>1, ElementOfSeq
<1>4. 1..4 \subseteq Nat \ {0}
  OBVIOUS
<1> QED BY <1>2, <1>3, <1>4

\* Where the runes of a text end: the sums of their widths.
LEMMA EndsAreSums ==
  ASSUME NEW t \in Texts
  PROVE  /\ \A i \in 0..Len(Runes[t]) : EndOf(t)[i] \in Nat
         /\ EndOf(t)[0] = 0
         /\ \A i \in 1..Len(Runes[t]) : EndOf(t)[i] = EndOf(t)[i - 1] + Runes[t][i]
<1> DEFINE w == Runes[t]
           N == Len(w)
           h == [i \in 1..N |-> [x \in Nat |-> x + w[i]]]
           e == EndOf(t)
<1>1. N \in Nat
  BY Widths
<1>2. \A i \in 1..N : w[i] \in Nat
  BY Widths
<1> HIDE DEF w, N, e
<1>3. h \in [1..N -> [Nat -> Nat]]
  BY <1>2
<1>4. \A i \in 1..N : \A x \in Nat : h[i][x] = x + w[i]
  OBVIOUS
<1> HIDE DEF h
<1>5. 0 \in Nat
  OBVIOUS
<1>6. PICK f \in [0..N -> Nat] : f[0] = 0 /\ \A i \in 1..N : f[i] = h[i][f[i - 1]]
  <2> DEFINE S == Nat
             a == 0
  <2>1. h \in [1..N -> [S -> S]] /\ a \in S
    BY <1>3
  <2> HIDE DEF S, a
  <2>2. PICK f : Stepwise(f, N, S, a, h)
    BY <1>1, <2>1, StepwiseFunction
  <2> QED BY <2>2 DEF S, a, Stepwise
<1>7. \A i \in 0..N : i # 0 => i \in 1..N /\ i - 1 \in 0..N
  BY <1>1
<1>8. \A i \in 0..N : f[i] = IF i = 0 THEN 0 ELSE f[i - 1] + w[i]
  BY <1>4, <1>6, <1>7
<1>9. f = [i \in 0..N |-> IF i = 0 THEN 0 ELSE f[i - 1] + w[i]]
  <2> DEFINE g == [i \in 0..N |-> IF i = 0 THEN 0 ELSE f[i - 1] + w[i]]
  <2>1. f = [i \in 0..N |-> f[i]]
    BY <1>6
  <2>2. g = [i \in 0..N |-> f[i]]
    BY <1>8
  <2> QED BY <2>1, <2>2
<1>10. e = CHOOSE g : g = [i \in 0..N |-> IF i = 0 THEN 0 ELSE g[i - 1] + w[i]]
  BY DEF e, w, N, EndOf
<1>11. e = [i \in 0..N |-> IF i = 0 THEN 0 ELSE e[i - 1] + w[i]]
  BY <1>9, <1>10
<1>12. e[0] = 0
  BY <1>1, <1>11
<1>13. \A i \in 1..N : e[i] = e[i - 1] + w[i]
  <2>1. \A i \in 1..N : i \in 0..N /\ i # 0
    BY <1>1
  <2> QED BY <1>11, <2>1
<1>14. \A i \in 0..N : e[i] \in Nat
  <2> DEFINE B == {i \in 0..N : e[i] \in Nat}
  <2>1. 0 \in B
    BY <1>1, <1>12
  <2>2. ASSUME NEW i \in 0..N - 1, i \in B PROVE i + 1 \in B
    <3>1. i + 1 \in 1..N /\ i + 1 - 1 = i /\ i + 1 \in 0..N
      BY <1>1
    <3>2. e[i + 1] = e[i] + w[i + 1]
      BY <1>13, <3>1
    <3> QED BY <1>2, <2>2, <3>1, <3>2
  <2>3. 0..N \subseteq B
    <3> HIDE DEF B
    <3> QED BY <1>1, <2>1, <2>2, StepByStep
  <2> QED BY <2>3
<1> QED BY <1>12, <1>13, <1>14 DEF e, w, N

\* Walking back from the cap stops at the last rune that starts at or before it.
LEMMA LastStart ==
  ASSUME NEW n \in Nat, NEW R \in SUBSET Nat, NEW b,
         b = CHOOSE g : g = [k \in 0..n |-> IF k > 0 /\ k \notin R THEN g[k - 1] ELSE k]
  PROVE  /\ b[n] \in 0..n /\ (b[n] = 0 \/ b[n] \in R)
         /\ \A m \in 0..n : m > b[n] => m \notin R
<1> DEFINE h == [k \in 1..n |-> [x \in Nat |-> IF k \in R THEN k ELSE x]]
<1>1. h \in [1..n -> [Nat -> Nat]] /\ 0 \in Nat
  OBVIOUS
<1>2. \A k \in 1..n : \A x \in Nat : h[k][x] = IF k \in R THEN k ELSE x
  OBVIOUS
<1> HIDE DEF h
<1>3. PICK f \in [0..n -> Nat] : f[0] = 0 /\ \A k \in 1..n : f[k] = h[k][f[k - 1]]
  <2> DEFINE S == Nat
             a == 0
  <2>1. h \in [1..n -> [S -> S]] /\ a \in S
    BY <1>1
  <2> HIDE DEF S, a
  <2>2. PICK f : Stepwise(f, n, S, a, h)
    BY <2>1, StepwiseFunction
  <2> QED BY <2>2 DEF S, a, Stepwise
<1>4. \A k \in 0..n : k # 0 => k \in 1..n /\ k - 1 \in 0..n
  OBVIOUS
<1>5. ASSUME NEW k \in 0..n
      PROVE  f[k] = IF k > 0 /\ k \notin R THEN f[k - 1] ELSE k
  <2>1. CASE k = 0
    BY <1>3, <2>1
  <2>2. CASE k # 0
    <3>1. k > 0 /\ k \in 1..n /\ f[k - 1] \in Nat
      BY <1>3, <1>4, <2>2
    <3> QED BY <1>2, <1>3, <3>1
  <2> QED BY <2>1, <2>2
<1>6. f = [k \in 0..n |-> IF k > 0 /\ k \notin R THEN f[k - 1] ELSE k]
  <2> DEFINE g == [k \in 0..n |-> IF k > 0 /\ k \notin R THEN f[k - 1] ELSE k]
  <2>1. f = [k \in 0..n |-> f[k]]
    BY <1>3
  <2>2. g = [k \in 0..n |-> f[k]]
    BY <1>5
  <2> QED BY <2>1, <2>2
<1>7. b = [k \in 0..n |-> IF k > 0 /\ k \notin R THEN b[k - 1] ELSE k]
  BY <1>6
<1>8. \A k \in 0..n : b[k] = IF k > 0 /\ k \notin R THEN b[k - 1] ELSE k
  BY <1>7
<1> DEFINE Good(k) == /\ b[k] \in 0..k /\ (b[k] = 0 \/ b[k] \in R)
                      /\ \A m \in 0..k : m > b[k] => m \notin R
           B == {k \in 0..n : Good(k)}
<1>9. 0 \in B
  <2>1. 0 \in 0..n /\ 0..0 = {0}
    OBVIOUS
  <2>2. b[0] = 0
    BY <1>8, <2>1
  <2>3. Good(0)
    BY <2>1, <2>2
  <2> QED BY <2>1, <2>3
<1>10. ASSUME NEW k \in 0..n - 1, k \in B PROVE k + 1 \in B
  <2>1. k + 1 \in 0..n /\ k + 1 > 0 /\ k + 1 - 1 = k /\ k \in Nat
        /\ \A m \in 0..k + 1 : m = k + 1 \/ m \in 0..k
    OBVIOUS
  <2>2. Good(k)
    BY <1>10
  <2>3. CASE k + 1 \in R
    <3>1. b[k + 1] = k + 1
      BY <1>8, <2>1, <2>3
    <3>2. k + 1 \in 0..k + 1
      OBVIOUS
    <3>3. \A m \in 0..k + 1 : ~(m > k + 1)
      OBVIOUS
    <3>4. Good(k + 1)
      BY <2>3, <3>1, <3>2, <3>3
    <3> QED BY <2>1, <3>4
  <2>4. CASE k + 1 \notin R
    <3>1. b[k + 1] = b[k]
      BY <1>8, <2>1, <2>4
    <3>2. b[k] \in 0..k + 1 /\ (b[k] = 0 \/ b[k] \in R)
      BY <2>1, <2>2
    <3>3. \A m \in 0..k + 1 : m > b[k] => m \notin R
      BY <2>1, <2>2, <2>4
    <3>4. Good(k + 1)
      BY <3>1, <3>2, <3>3
    <3> QED BY <2>1, <3>4
  <2> QED BY <2>3, <2>4
<1>11. n \in B
  <2>1. 0..n \subseteq B
    <3> HIDE DEF B
    <3> QED BY <1>9, <1>10, StepByStep
  <2>2. n \in 0..n
    OBVIOUS
  <2> HIDE DEF B
  <2> QED BY <2>1, <2>2
<1> QED BY <1>11

\* What an entry shows of a text: all of it, or as many whole runes as fit.
LEMMA WholeRunes ==
  ASSUME NEW t \in Texts
  PROVE  \E k \in 0..Len(Runes[t]) :
           /\ Clip(t, TextCap).bytes = EndOf(t)[k] /\ Clip(t, TextCap).bytes <= TextCap
           /\ Clip(t, TextCap).clipped <=> k < Len(Runes[t])
           /\ Clip(t, TextCap).clipped => EndOf(t)[k + 1] > TextCap
<1> DEFINE N == Len(Runes[t])
           e == EndOf(t)
           v == Clip(t, TextCap)
           R == RuneStarts(t)
           b == CHOOSE g : g = [k \in 0..TextCap |->
                                 IF k > 0 /\ k \notin R THEN g[k - 1] ELSE k]
<1>1. N \in Nat /\ TextCap \in Nat
  BY Widths, RunesAssumption
<1>2. /\ \A i \in 0..N : e[i] \in Nat
      /\ e[0] = 0
      /\ \A i \in 1..N : e[i] = e[i - 1] + Runes[t][i]
  BY EndsAreSums
<1>3. \A i \in 1..N : Runes[t][i] \in Nat \ {0}
  BY Widths
<1>4. R = {e[i] : i \in 0..N - 1}
  BY DEF RuneStarts
<1>5. v = IF e[N] <= TextCap THEN [bytes |-> e[N], clipped |-> FALSE]
          ELSE [bytes |-> b[TextCap], clipped |-> TRUE]
  BY DEF Clip, Size
<1> HIDE DEF N, e, v, R
<1>6. CASE e[N] <= TextCap
  <2>1. v.bytes = e[N] /\ v.clipped = FALSE
    BY <1>5, <1>6
  <2>2. N \in 0..N /\ ~(N < N)
    BY <1>1
  <2> QED BY <1>6, <2>1, <2>2 DEF N, e, v
<1>7. CASE ~(e[N] <= TextCap)
  <2>1. v.bytes = b[TextCap] /\ v.clipped = TRUE
    BY <1>5, <1>7
  <2>2. R \in SUBSET Nat
    BY <1>1, <1>2, <1>4
  <2> DEFINE m == b[TextCap]
  <2>3. /\ m \in 0..TextCap /\ (m = 0 \/ m \in R)
        /\ \A x \in 0..TextCap : x > m => x \notin R
    <3> HIDE DEF R
    <3> QED BY <1>1, <2>2, LastStart
  <2> HIDE DEF m, b
  <2>4. N # 0
    BY <1>1, <1>2, <1>7
  <2>5. PICK k \in 0..N - 1 : e[k] = m
    <3>1. 0 \in 0..N - 1
      BY <1>1, <2>4
    <3> QED BY <1>2, <1>4, <2>3, <3>1
  <2>6. /\ k \in 0..N /\ k < N /\ k + 1 \in 1..N /\ k + 1 \in 0..N /\ k + 1 - 1 = k
        /\ k + 1 # N => k + 1 \in 0..N - 1
    BY <1>1
  <2>7. e[k + 1] \in Nat /\ e[k + 1] > m
    <3>1. e[k + 1] = e[k] + Runes[t][k + 1]
      BY <1>2, <2>6
    <3> QED BY <1>2, <1>3, <2>5, <2>6, <3>1
  <2>8. e[k + 1] > TextCap
    <3>1. CASE k + 1 = N
      BY <1>1, <1>7, <2>7, <3>1
    <3>2. CASE k + 1 # N
      <4>1. e[k + 1] \in R
        BY <1>4, <2>6, <3>2
      <4> QED BY <1>1, <2>3, <2>7, <4>1
    <3> QED BY <3>1, <3>2
  <2>9. v.bytes = e[k] /\ v.bytes <= TextCap
    BY <1>1, <2>1, <2>3, <2>5 DEF m
  <2> QED BY <2>1, <2>6, <2>8, <2>9 DEF N, e, v
<1> QED BY <1>6, <1>7

-----------------------------------------------------------------------------
(* The inductive invariant. *)

LEMMA InitInv == Init => IInv
BY DEF Init, IInv, TypeOK, Accepted, Filed, SessionsSurvive

LEMMA AcceptStep ==
  ASSUME IInv, NEW s \in Sessions, NEW a \in RecordCalls, NEW t \in Times,
         NEW n \in Suffixes, Accepts(s, a, t, n)
  PROVE  IInv'
<1> DEFINE row == [at |-> t, id |-> <<t, n>>, obs |-> Observed(a)]
<1>0. TypeOK /\ Accepted /\ Filed /\ SessionsSurvive
  BY DEF IInv
<1>1. /\ a \in RecordArgs /\ Valid(a) /\ WellFormed(a) /\ served[s]
      /\ docket' = docket \cup {row}
      /\ acked' = acked \cup {[args |-> a, row |-> row]}
      /\ reply' = [reply EXCEPT ![s] = "recorded"] /\ UNCHANGED <<served, alive>>
  BY CallsAssumption DEF Accepts, Reply
<1>2. /\ row.at \in Times /\ row.id \in Ids /\ row.obs = Observed(a)
      /\ {row.obs.class, row.obs.ref, row.obs.text} \subseteq Texts
      /\ row.obs.kind \in {"project", "user"}
  BY <1>1, CallsAssumption, ObservedType DEF Ids
<1>3. row.obs.class # "" /\ (row.obs.kind = "project" => row.obs.ref # "")
  BY <1>1, <1>2 DEF WellFormed
<1> HIDE DEF row
<1>4. TypeOK'
  BY <1>0, <1>1, <1>2 DEF TypeOK
<1>5. Accepted'
  BY <1>0, <1>1, <1>2 DEF Accepted
<1>6. Filed'
  BY <1>0, <1>1, <1>3 DEF Filed
<1>7. SessionsSurvive'
  BY <1>0, <1>1 DEF SessionsSurvive, TypeOK
<1> QED BY <1>4, <1>5, <1>6, <1>7 DEF IInv

LEMMA ReplyStep ==
  ASSUME IInv, NEW s \in Sessions, Refuse(s) \/ Answers(s)
  PROVE  IInv'
BY DEF Refuse, Answers, Reply, IInv, TypeOK, Accepted, Filed, SessionsSurvive

-----------------------------------------------------------------------------
(* Theorems. *)

\* The inductive invariant holds in every reachable state.
THEOREM Invariance == Spec => []IInv
<1>1. IInv /\ [Next]_vars => IInv'
  <2>1. IInv /\ UNCHANGED vars => IInv'
    BY DEF vars, IInv, TypeOK, Accepted, Filed, SessionsSurvive
  <2> QED BY <2>1, StepKinds, AcceptStep, ReplyStep
<1> QED BY InitInv, <1>1, PTL DEF Spec

\* No arguments bring a session down, null ones among them, and a session without
\* a store neither records nor answers (record.go and review.go, the handlers).
THEOREM SessionsNeverFall == Spec => []SessionsSurvive
BY Invariance, PTL DEF IInv

\* Every row has a class, and every project's row names its project.
THEOREM NothingMisfiled == Spec => []Filed
BY Invariance, PTL DEF IInv

\* An accepted record is found by exactly the reviews that name its class and
\* scope, in whatever case and padding either was written.
THEOREM RecordsAreFound == Spec => []Findable
<1>1. IInv => Findable
  <2> SUFFICES ASSUME IInv, NEW k \in acked, NEW a \in ReviewCalls, Valid(a), Parses(a)
               PROVE  LET f == [FilterOf(a) EXCEPT !.since = 0, !.before = 0,
                                                   !.beforeID = NoID]
                      IN k.row \in Where(f, docket) <=> Names(a, k.args)
    BY DEF Findable
  <2> DEFINE f == [FilterOf(a) EXCEPT !.since = 0, !.before = 0, !.beforeID = NoID]
             b == k.args
  <2>1. /\ k.row \in docket /\ k.row.obs = Observed(b) /\ Valid(b)
        /\ b \in RecordArgs /\ a \in ReviewArgs
    BY CallsAssumption DEF IInv, TypeOK, Accepted
  <2>2. /\ f.class = Lower[a.class.text] /\ f.kind = a.kind
        /\ f.ref = Lower[a.ref.text]
        /\ f.since = 0 /\ f.before = 0 /\ f.beforeID = NoID
    BY DEF FilterOf, ToLower, TrimSpace
  <2>3. /\ k.row.obs.class = Lower[b.class.text] /\ k.row.obs.ref = Lower[b.ref.text]
        /\ k.row.obs.kind = IF b.kind = "" THEN "project" ELSE b.kind
    BY <2>1, ObservedFields
  <2>4. /\ a.class.text \in Texts /\ a.ref.text \in Texts
        /\ b.class.text \in Texts /\ b.ref.text \in Texts
    BY <2>1 DEF RecordArgs, ReviewArgs, Raw
  <2>5. \A t \in Texts : Lower[t] = "" <=> t = ""
    BY LowerAssumption
  <2> HIDE DEF f, b
  <2>6. k.row \in Where(f, docket) <=>
          /\ a.class.text # "" => Lower[b.class.text] = Lower[a.class.text]
          /\ a.ref.text # "" => Lower[b.ref.text] = Lower[a.ref.text]
          /\ a.kind # "" => k.row.obs.kind = a.kind
    BY <2>1, <2>2, <2>3, <2>4, <2>5 DEF Where, Selected
  <2>7. (a.kind # "" => k.row.obs.kind = a.kind) <=>
          (a.kind \in {"", b.kind} \/ (b.kind = "" /\ a.kind = "project"))
    BY <2>3
  <2> QED BY <2>6, <2>7 DEF f, b, Names, Alike
<1> QED BY Invariance, <1>1, PTL

\* since, before and the cursor select the rows between two instants, in whatever
\* zones the bounds are written, for bounds that the stored text can hold.
THEOREM BoundsAreInstants == Spec => []Windowed
<1>1. IInv => Windowed
  <2> SUFFICES ASSUME IInv, NEW a \in ReviewCalls, Representable(a.since),
                      Representable(a.before), Paired(a), NEW r \in docket
               PROVE  LET f == FilterOf(a)
                          all == [f EXCEPT !.since = 0, !.before = 0, !.beforeID = NoID]
                      IN Selected(f, r) <=> Selected(all, r) /\ Within(a, r)
    BY DEF Windowed, Where
  <2> DEFINE f == FilterOf(a)
             all == [f EXCEPT !.since = 0, !.before = 0, !.beforeID = NoID]
  <2>1. a \in ReviewArgs /\ r.at \in Nat
    BY CallsAssumption DEF IInv, TypeOK
  <2>2. a.since \in Timestamps /\ a.before \in Timestamps
    BY <2>1 DEF ReviewArgs
  <2>3. /\ f.since = AsText(Instant(a.since)) /\ f.before = AsText(Instant(a.before))
        /\ f.beforeID = a.beforeID
        /\ all.class = f.class /\ all.kind = f.kind /\ all.ref = f.ref
        /\ all.since = 0 /\ all.before = 0
    BY DEF FilterOf
  <2>4. /\ a.since = Absent => f.since = 0
        /\ a.since # Absent => f.since = Moment(a.since) /\ f.since \in Nat \ {0}
        /\ a.before = Absent => f.before = 0 /\ a.beforeID = NoID
        /\ a.before # Absent => f.before = Moment(a.before) /\ f.before \in Nat \ {0}
    BY <2>2, <2>3, BoundText DEF Paired
  <2> HIDE DEF f, all
  <2>5. (f.since # 0 => r.at >= f.since)
          <=> (a.since # Absent => Moment(a.since) <= r.at)
    BY <2>1, <2>4
  <2>6. Older(r, Cursor(f)) <=> \/ r.at < f.before
                                \/ r.at = f.before /\ IdLess(r.id, a.beforeID)
    BY <2>3 DEF Older, Cursor
  <2>7. (/\ f.before # 0 /\ f.beforeID # NoID => Older(r, Cursor(f))
         /\ f.before # 0 /\ f.beforeID = NoID => r.at < f.before)
          <=> (a.before # Absent =>
                 \/ r.at < Moment(a.before)
                 \/ /\ r.at = Moment(a.before) /\ a.beforeID # NoID
                    /\ IdLess(r.id, a.beforeID))
    BY <2>3, <2>4, <2>6
  <2>8. Within(a, r) <=> /\ f.since # 0 => r.at >= f.since
                         /\ f.before # 0 /\ f.beforeID # NoID => Older(r, Cursor(f))
                         /\ f.before # 0 /\ f.beforeID = NoID => r.at < f.before
    BY <2>5, <2>7 DEF Within
  <2>9. Selected(all, r) <=> /\ f.class # "" => r.obs.class = f.class
                             /\ f.kind # "" => r.obs.kind = f.kind
                             /\ f.ref # "" => r.obs.ref = f.ref
    BY <2>3 DEF Selected
  <2>10. Selected(f, r) <=> Selected(all, r) /\ Within(a, r)
    BY <2>8, <2>9 DEF Selected
  <2> QED BY <2>10 DEF f, all
<1> QED BY Invariance, <1>1, PTL

\* An entry never shows part of a character: it shows the whole text, marked
\* unclipped, or as many whole runes as the cap has room for (clip, review.go).
THEOREM ViewsAreWhole == Spec => []ViewsWhole
<1>1. IInv => ViewsWhole
  <2>1. IInv => \A r \in docket : r.obs.text \in Texts
    BY DEF IInv, TypeOK
  <2> QED BY <2>1, WholeRunes DEF ViewsWhole
<1> QED BY Invariance, <1>1, PTL
=============================================================================
