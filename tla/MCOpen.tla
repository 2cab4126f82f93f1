------------------------------- MODULE MCOpen -------------------------------
(* Small instances of Open for TLC: two releases, the newer one run by two of *)
(* three processes that are launched at the same file.                        *)
EXTENDS Open, TLC

CONSTANTS a, b, c

MixedVersions == a :> 1 @@ b :> 2 @@ c :> 2

Symmetric == Permutations({b, c})
=============================================================================
