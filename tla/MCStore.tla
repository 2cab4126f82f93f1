------------------------------ MODULE MCStore ------------------------------
(* Small instances of Store for TLC. *)
EXTENDS Store, TLC

Obs(k, s) == [class |-> k, kind |-> "project", ref |-> s]

TwoClasses == {Obs("bug", "a"), Obs("doc", "a")}
OneClass   == {Obs("bug", "a")}

Anything == [class |-> "", kind |-> "", ref |-> "", since |-> 0,
             before |-> 0, beforeID |-> NoID, limit |-> 0]

\* A whole review with the default limit of one row, and one with room for two that
\* leaves out what was recorded at the earlier time.
MCFilters  == {Anything, [Anything EXCEPT !.since = 2, !.limit = 2]}
OneFilter  == {Anything}

Symmetric == Permutations(Calls) \cup Permutations(Procs)
=============================================================================
