------------------------------ MODULE MCServer ------------------------------
(* A small instance of Server for TLC: words in two spellings with and without *)
(* padding, blank ones, an unknown scope_kind, one instant written in two      *)
(* zones, instants at and past both ends of the calendar, and texts whose      *)
(* characters end before, at and astride the cap.                              *)
EXTENDS Server, TLC

Long  == {"snow", "scroll", "mixed", "edge"}
Words == {"", "bug", "Bug", "a/b", "A/b"} \cup Long
Lowered == [t \in Words |-> CASE t = "Bug" -> "bug" [] t = "A/b" -> "a/b" [] OTHER -> t]
Widths  == [t \in Words |-> CASE t = "" -> <<>>
                              [] t = "snow" -> <<3, 3>>
                              [] t = "scroll" -> <<4, 4>>
                              [] t = "mixed" -> <<1, 2, 3, 1>>
                              [] t = "edge" -> <<2, 2, 1>>
                              [] OTHER -> <<1, 1, 1>>]

Plain(t)  == [text |-> t, pad |-> FALSE]
Padded(t) == [text |-> t, pad |-> TRUE]

SmallRecords ==
  [observation : {Plain(t) : t \in Long}, class : {Plain("bug")}, kind : {"user"},
   ref : {Plain("")}] \cup
  [observation : {Plain("bug"), Padded("")}, class : {Plain("bug"), Padded("Bug"), Plain("")},
   kind : {"", "user", "team"}, ref : {Plain(""), Padded(""), Padded("A/b")}]

At(h, z) == [clock |-> h, offset |-> z]

SmallReviews ==
  [class : {Plain(""), Padded("Bug")}, kind : {"", "project", "user"},
   ref : {Plain(""), Plain("a/b")},
   since : {Absent, Garbled, At(2, 0), At(3, 1)}, before : {Absent, At(3, 0), At(2, -1)},
   beforeID : {NoID, <<2, 1>>}] \cup
  [class : {Plain("")}, kind : {""}, ref : {Plain("")},
   since : {Absent, At(0, 0), At(0, 1), At(4, -1), At(4, 0)},
   before : {Absent, At(0, 0), At(1, 1), At(4, -2)}, beforeID : {NoID, <<2, 1>>}]
=============================================================================
