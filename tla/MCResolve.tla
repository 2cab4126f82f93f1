------------------------------ MODULE MCResolve ------------------------------
(* A small instance of Resolve for TLC: two stores, one of them in two           *)
(* spellings, and configs that name neither, exempt one, or cannot be used.      *)
EXTENDS Resolve, TLC

Paths == "~/d" :> "/home/d" @@ "/home/d" :> "/home/d" @@ "/e" :> "/e"

Config0 == [store |-> Blank, allow |-> {"~/d"}]
Config1 == [store |-> "/e", allow |-> {"/home/d", Blank}]

ConfigFiles == "xdg" :> Missing @@ "exempting" :> Config0 @@ "other" :> Config1
               @@ "typo" :> Missing @@ "broken" :> Garbled

Small == {[entry |-> "serve", flag |-> Blank, env |-> Blank],
          [entry |-> "serve", flag |-> "exempting", env |-> "other"],
          [entry |-> "serve", flag |-> Blank, env |-> "other"],
          [entry |-> "serve", flag |-> "typo", env |-> "exempting"],
          [entry |-> "serve", flag |-> "broken", env |-> Blank],
          [entry |-> "snapshot", flag |-> Blank, env |-> Blank]}

Symmetric == Permutations(Procs)
=============================================================================
