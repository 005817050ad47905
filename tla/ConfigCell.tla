----------------------------- MODULE ConfigCell -----------------------------
(***************************************************************************)
(* What gateway_config.json is meant to be: a cell that holds one complete *)
(* image of the configuration in memory, replaced in one step, unharmed by *)
(* a crash, and read back when the gateway starts.                         *)
(***************************************************************************)
CONSTANTS
    Parts,      \* the parts of the configuration
    Values,     \* what a part can be
    Stored(_, _)  \* what a restart makes of a part's stored value

VARIABLES
    live,       \* the configuration in memory
    durable,    \* the image in the cell, as a restart would read it
    alive       \* the gateway runs

cellVars == <<live, durable, alive>>

Init ==
    /\ live \in [Parts -> Values]
    /\ durable = live
    /\ alive = TRUE

\* A request changes a part in memory.
Change(p, v) ==
    /\ alive
    /\ live' = [live EXCEPT ![p] = v]
    /\ UNCHANGED <<durable, alive>>

\* The whole configuration becomes the image.
Commit ==
    /\ alive
    /\ durable' = [p \in Parts |-> Stored(p, live[p])]
    /\ UNCHANGED <<live, alive>>

\* The gateway stops, with nothing in memory worth naming.
Stop ==
    /\ alive
    /\ alive' = FALSE
    /\ UNCHANGED <<live, durable>>

Start ==
    /\ ~alive
    /\ alive' = TRUE
    /\ live' = durable
    /\ UNCHANGED durable

Next ==
    \/ \E p \in Parts, v \in Values : Change(p, v)
    \/ Commit \/ Stop \/ Start

Spec == Init /\ [][Next]_cellVars
=============================================================================
