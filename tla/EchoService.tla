------------------------------ MODULE EchoService ------------------------------
(***************************************************************************)
(* What the five servers of ch07 promise, however they multiplex their     *)
(* connections: a client is admitted at most once or turned away, it is    *)
(* answered only for a request that was read from it, and its connection   *)
(* is given up only after it has left.  A server that stops admits nobody. *)
(***************************************************************************)
CONSTANT Clients

VARIABLES here,         \* "away", "here" or "left"
          phase,        \* "new", "served", "refused" or "over"
          owed,         \* a request of the client was read and not answered
          admitting     \* the server still takes connections

vars == <<here, phase, owed, admitting>>

Init == /\ here = [c \in Clients |-> "away"]
        /\ phase = [c \in Clients |-> "new"]
        /\ owed = [c \in Clients |-> FALSE]
        /\ admitting = TRUE

Arrive(c) == /\ here[c] = "away"
             /\ here' = [here EXCEPT ![c] = "here"]
             /\ UNCHANGED <<phase, owed, admitting>>

Leave(c) == /\ here[c] = "here"
            /\ here' = [here EXCEPT ![c] = "left"]
            /\ UNCHANGED <<phase, owed, admitting>>

Admit(c) == /\ admitting /\ here[c] # "away" /\ phase[c] = "new"
            /\ phase' = [phase EXCEPT ![c] = "served"]
            /\ UNCHANGED <<here, owed, admitting>>

Refuse(c) == /\ admitting /\ here[c] # "away" /\ phase[c] = "new"
             /\ phase' = [phase EXCEPT ![c] = "refused"]
             /\ UNCHANGED <<here, owed, admitting>>

Take(c) == /\ phase[c] = "served"
           /\ owed' = [owed EXCEPT ![c] = TRUE]
           /\ UNCHANGED <<here, phase, admitting>>

Answer(c) == /\ phase[c] = "served" /\ owed[c]
             /\ owed' = [owed EXCEPT ![c] = FALSE]
             /\ UNCHANGED <<here, phase, admitting>>

\* What is still owed to a client that has left is forgotten.
Release(c) == /\ here[c] = "left" /\ phase[c] = "served"
              /\ phase' = [phase EXCEPT ![c] = "over"]
              /\ owed' = [owed EXCEPT ![c] = FALSE]
              /\ UNCHANGED <<here, admitting>>

Stop == /\ admitting
        /\ admitting' = FALSE
        /\ UNCHANGED <<here, phase, owed>>

Next == \/ Stop
        \/ \E c \in Clients : \/ Arrive(c) \/ Leave(c)
                              \/ Admit(c) \/ Refuse(c)
                              \/ Take(c) \/ Answer(c) \/ Release(c)

Spec == Init /\ [][Next]_vars
===============================================================================
