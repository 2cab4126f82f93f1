------------------------------- MODULE Docket -------------------------------
(***************************************************************************)
(* What the store promises its callers, with no processes, connections,    *)
(* locks or transactions.                                                  *)
(*                                                                         *)
(* A call is asked, then takes effect at most once and at one instant, and *)
(* then its outcome is delivered.  A record appends one row to the docket; *)
(* a review is answered from one state of the docket.  A call that fails   *)
(* may have taken effect or not, and nobody is told which.  Rows never     *)
(* change and never leave, except that a power cut may drop a tail of      *)
(* them.                                                                   *)
(***************************************************************************)
EXTENDS Integers, Sequences

CONSTANTS Calls,           \* the tool calls of all sessions, each made once
          Observations,    \* what a record may carry
          Filters,         \* what a review may ask for
          Times,           \* the millisecond clock readings
          Suffixes,        \* the random parts of ids
          None,
          Answer(_, _)     \* what a review with a filter computes from the rows

VARIABLES docket,          \* the rows in the order they were entered
          phase,           \* idle, asked, held, replied or failed
          ask,             \* what the call wants
          result           \* what it is (or will be) told

vars == <<docket, phase, ask, result>>

Records == [op : {"record"}, obs : Observations]
Reviews == [op : {"review"}, filter : Filters]

\* The id carries the millisecond the record was stamped with (newUUIDv7).
Stamp(t, n, o) == [at |-> t, id |-> <<t, n>>, obs |-> o]

Row == {Stamp(t, n, o) : t \in Times, n \in Suffixes, o \in Observations}

Rows(s) == {s[i] : i \in DOMAIN s}

Init == /\ docket = <<>>
        /\ phase = [c \in Calls |-> "idle"]
        /\ ask = [c \in Calls |-> None]
        /\ result = [c \in Calls |-> None]

Ask(c, q) == /\ phase[c] = "idle"
             /\ phase' = [phase EXCEPT ![c] = "asked"]
             /\ ask' = [ask EXCEPT ![c] = q]
             /\ UNCHANGED <<docket, result>>

Held(c, answer) == /\ phase[c] = "asked"
                   /\ phase' = [phase EXCEPT ![c] = "held"]
                   /\ result' = [result EXCEPT ![c] = answer]
                   /\ UNCHANGED ask

\* A record takes effect: its observation is entered under an id of its own.
Enter(c, row) == /\ ask[c] \in Records
                 /\ row.obs = ask[c].obs
                 /\ \A r \in Rows(docket) : r.id # row.id
                 /\ docket' = Append(docket, row)
                 /\ Held(c, row)

\* A review takes effect: it is answered from the docket of this instant.
Look(c) == /\ ask[c] \in Reviews
           /\ Held(c, Answer(ask[c].filter, Rows(docket)))
           /\ UNCHANGED docket

Reply(c) == /\ phase[c] = "held"
            /\ phase' = [phase EXCEPT ![c] = "replied"]
            /\ UNCHANGED <<docket, ask, result>>

\* Calls that end without a result, together when their session ends.
Fail(S) == /\ S # {}
           /\ \A c \in S : phase[c] \in {"asked", "held"}
           /\ phase' = [c \in Calls |-> IF c \in S THEN "failed" ELSE phase[c]]
           /\ result' = [c \in Calls |-> IF c \in S THEN None ELSE result[c]]
           /\ UNCHANGED <<docket, ask>>

\* A power cut keeps a prefix of the docket and ends every call under way.
Outage(n) ==
  /\ docket' = SubSeq(docket, 1, n)
  /\ phase' = [c \in Calls |->
                 IF phase[c] \in {"asked", "held"} THEN "failed" ELSE phase[c]]
  /\ result' = [c \in Calls |->
                  IF phase[c] \in {"asked", "held"} THEN None ELSE result[c]]
  /\ UNCHANGED ask

Next == \/ \E c \in Calls, q \in Records \cup Reviews : Ask(c, q)
        \/ \E c \in Calls, row \in Row : Enter(c, row)
        \/ \E c \in Calls : Look(c) \/ Reply(c)
        \/ \E S \in SUBSET Calls : Fail(S)
        \/ \E n \in 0..Len(docket) : Outage(n)

Spec == Init /\ [][Next]_vars
=============================================================================
