-------------------------------- MODULE Transfers --------------------------------
(***************************************************************************)
(* The programs that find the end of a message in a stream: the HTTP       *)
(* server, its get_line by itself, and the framed transfers of ch04.  The  *)
(* program that runs is chosen at the start and never changes; the         *)
(* variables of the others keep their initial values.                      *)
(***************************************************************************)
EXTENDS Httpd, GetLine, FramedTransfer

CONSTANTS Programs,     \* the programs to check
          Smooth        \* the requests in whose company no call fails

ASSUME TransfersExist == Programs \subseteq {"httpd", "get_line", "framed"}

VARIABLE program

vars == <<program, httpVars, lineVars, framesVars>>

Init == /\ program \in Programs
        /\ HttpInit /\ LineInit /\ FramesInit
        /\ program # "httpd" => req = CHOOSE r \in Asked : TRUE
        /\ program # "framed" => variant = "close"

HttpRuns   == program = "httpd" /\ UNCHANGED <<program, lineVars, framesVars>>
LineRuns   == program = "get_line" /\ UNCHANGED <<program, httpVars, framesVars>>
FramesRuns == program = "framed" /\ UNCHANGED <<program, httpVars, lineVars>>

Next == \/ HttpRuns /\ HttpNext /\ (req \in Smooth => faults' = 0)
        \/ LineRuns /\ LineNext
        \/ FramesRuns /\ FramesNext

Spec == Init /\ [][Next]_vars

Fairness == /\ \A t \in Threads : /\ WF_vars(HttpRuns /\ Serves(t))
                                  /\ WF_vars(HttpRuns /\ Kid(t))
            /\ WF_vars(LineRuns /\ Reader)
            /\ WF_vars(FramesRuns /\ FramesServer)
            /\ WF_vars(FramesRuns /\ FramesClient)

\* Nothing is assumed of the HTTP server's clients ...
FairSpec == Spec /\ Fairness

\* ... and here, that they finish what they began, and give up what they cannot.
PatientSpec ==
    /\ FairSpec
    /\ \A t \in Threads : WF_vars(HttpRuns /\ Perseveres(t))

-----------------------------------------------------------------------------
(* The variables of each program have their types. *)
TypeOK == HttpTypeOK /\ LineTypeOK /\ FramesTypeOK
===============================================================================
