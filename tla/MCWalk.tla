------------------------------- MODULE MCWalk -------------------------------
(* Small instances of Walk for TLC: two milliseconds with two ids each, so    *)
(* that pages of one and two rows end inside a tie; a class filter.           *)
EXTENDS Walk

Row(t, n, k) == [at |-> t, id |-> <<t, n>>, obs |-> [class |-> k, kind |-> "user", ref |-> ""]]

SmallPool == {Row(t, n, "bug") : t \in {1, 2}, n \in {1, 2}} \cup {Row(1, 3, "doc")}

All == [class |-> "", kind |-> "", ref |-> "", since |-> 0,
        before |-> 0, beforeID |-> NoID, limit |-> 0]

SmallFilters == {All, [All EXCEPT !.class = "bug", !.limit = 2]}
=============================================================================
