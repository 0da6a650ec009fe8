----------------------------- MODULE MCSchemaSync ------------------------------
(* Instances of SchemaSync for TLC.                                         *)
EXTENDS SchemaSync

Task(t, n) == [kind |-> "task", task |-> t, name |-> "task", count |-> n]
Port(t, s, n) == [kind |-> "port", task |-> t, slot |-> s, name |-> n]

\* A function is added before the others: the ports of the first schema move,
\* chunks and entries are as many as before.
TwoLayouts ==
    << << <<Task(1, 2), Port(1, 0, "a")>>, <<Port(1, 1, "b")>> >>,
       << <<Task(1, 2), Port(1, 0, "b")>>, <<Port(1, 1, "b")>> >> >>
=============================================================================
