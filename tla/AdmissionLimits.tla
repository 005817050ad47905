-------------------------- MODULE AdmissionLimits --------------------------
(***************************************************************************)
(* What request admission promises, with no threads and no counters: at    *)
(* most MaxConnections clients are inside, the bodies they buffer are      *)
(* reserved from one budget of MaxInFlight bytes, and a client is turned   *)
(* away only while the limit it ran into is really exhausted.  Module      *)
(* Admission (two lock-free counters and guards that give back what they   *)
(* took) is shown to implement this one.                                   *)
(***************************************************************************)
EXTENDS Integers, FiniteSets, Functions

CONSTANTS Clients, MaxConnections, MaxInFlight, Requests

VARIABLES
    standing,   \* where each client stands
    asking,     \* the bytes a client asks for and has not been granted
    reserved    \* the bytes each client holds

absVars == <<standing, asking, reserved>>

Inside == {c \in Clients : standing[c] \in {"in", "leaving"}}

Init ==
    /\ standing = [c \in Clients |-> "out"]
    /\ asking = [c \in Clients |-> 0]
    /\ reserved = [c \in Clients |-> 0]

Admit(c) ==
    /\ standing[c] = "out"
    /\ Cardinality(Inside) < MaxConnections
    /\ standing' = [standing EXCEPT ![c] = "in"]
    /\ UNCHANGED <<asking, reserved>>

\* Turned away with 503 "too many connections": only when the house is full.
Refuse(c) ==
    /\ standing[c] = "out"
    /\ Cardinality(Inside) = MaxConnections
    /\ standing' = [standing EXCEPT ![c] = "refused"]
    /\ UNCHANGED <<asking, reserved>>

ForgetRefused(c) ==
    /\ standing[c] = "refused"
    /\ standing' = [standing EXCEPT ![c] = "out"]
    /\ UNCHANGED <<asking, reserved>>

Ask(c) ==
    /\ standing[c] = "in"
    /\ \E n \in Requests : asking' = [asking EXCEPT ![c] = n]
    /\ UNCHANGED <<standing, reserved>>

Grant(c) ==
    /\ standing[c] = "in"
    /\ SumFunction(reserved) + asking[c] <= MaxInFlight
    /\ reserved' = [reserved EXCEPT ![c] = @ + asking[c]]
    /\ asking' = [asking EXCEPT ![c] = 0]
    /\ UNCHANGED standing

\* Turned away with 503 "too many in-flight bytes": only when the request
\* really does not fit.
Overload(c) ==
    /\ standing[c] = "in"
    /\ SumFunction(reserved) + asking[c] > MaxInFlight
    /\ standing' = [standing EXCEPT ![c] = "leaving"]
    /\ asking' = [asking EXCEPT ![c] = 0]
    /\ UNCHANGED reserved

\* The request ended, or its body could not be read.
Finish(c) ==
    /\ standing[c] = "in"
    /\ asking[c] = 0
    /\ standing' = [standing EXCEPT ![c] = "leaving"]
    /\ UNCHANGED <<asking, reserved>>

GiveBack(c) ==
    /\ standing[c] = "leaving"
    /\ reserved' = [reserved EXCEPT ![c] = 0]
    /\ UNCHANGED <<standing, asking>>

Leave(c) ==
    /\ standing[c] = "leaving"
    /\ reserved[c] = 0
    /\ standing' = [standing EXCEPT ![c] = "out"]
    /\ UNCHANGED <<asking, reserved>>

Next ==
    \E c \in Clients :
        \/ Admit(c) \/ Refuse(c) \/ ForgetRefused(c)
        \/ Ask(c) \/ Grant(c) \/ Overload(c)
        \/ Finish(c) \/ GiveBack(c) \/ Leave(c)

Spec == Init /\ [][Next]_absVars
=============================================================================
