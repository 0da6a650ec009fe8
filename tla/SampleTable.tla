------------------------------ MODULE SampleTable ------------------------------
(***************************************************************************)
(* What a recording promises: a table that holds, for each variable, the   *)
(* samples in the order in which they came, each with the time at which    *)
(* its value was taken.  Samples are added at the end, together for the    *)
(* variables of one frame; the whole table is saved, dropped or replaced   *)
(* by what was saved; nothing else ever happens to a sample, and nothing   *)
(* is added to a table that was loaded.                                    *)
(***************************************************************************)
EXTENDS Integers, Sequences

CONSTANTS
    Names,      \* the variables
    Instants,   \* times of a source's clock
    Labels,     \* sessions of a clock
    NoFile      \* nothing was saved yet

VARIABLES
    table,      \* name -> its samples
    saved,      \* the table in the file
    loaded      \* the table is a loaded one

tableVars == <<table, saved, loaded>>

Blank == [v \in Names |-> <<>>]

TableInit == table = Blank /\ saved = NoFile /\ loaded = FALSE

\* The value of a variable at an instant is identified by the instant.
Record(ts, label) ==
    /\ ~loaded
    /\ \A v \in Names :
          table'[v] \in {table[v],
                        Append(table[v], [ts |-> ts, session |-> label, value |-> ts])}
    /\ UNCHANGED <<saved, loaded>>

Forget ==
    /\ table' = Blank
    /\ loaded' \in {loaded, FALSE}
    /\ UNCHANGED saved

Save == saved' = table /\ UNCHANGED <<table, loaded>>

Load ==
    /\ saved # NoFile
    /\ table' = saved /\ loaded' = TRUE
    /\ UNCHANGED saved

TableNext ==
    \/ \E ts \in Instants, label \in Labels : Record(ts, label)
    \/ Forget
    \/ Save
    \/ Load

TableSpec == TableInit /\ [][TableNext]_tableVars
=============================================================================
