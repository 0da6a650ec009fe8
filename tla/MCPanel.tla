-------------------------------- MODULE MCPanel --------------------------------
(***************************************************************************)
(* Three schemas for the panel: two functions, one of them alone and with  *)
(* the other's number, and a file in which a variable has moved.           *)
(***************************************************************************)
EXTENDS Panel

Latency(v, s, task) ==
    [var |-> v, section |-> s, task |-> task, order |-> 0, latency |-> TRUE]
Port(v, s, task) ==
    [var |-> v, section |-> s, task |-> task, order |-> 0, latency |-> FALSE]
Plain(v, s, order) ==
    [var |-> v, section |-> s, task |-> 0, order |-> order, latency |-> FALSE]

TwoFunctions ==
    << Latency("F.lat", "Function/F", 1), Latency("G.lat", "Function/G", 2),
       Port("F.out", "Function/F", 1) >>
OneRenumbered == << Latency("G.lat", "Function/G", 1) >>
FileOne == << Plain("F.out", "Data", 0), Plain("x", "Data", 1) >>

AllSchemas == {TwoFunctions, OneRenumbered, FileOne}
AllSections == << "Data", "Derived", "Function/F", "Function/G" >>
================================================================================
