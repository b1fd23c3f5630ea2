--------------------------- MODULE MC_FtpDispatch ---------------------------
(* The dispatch of FtpDispatch, with names for the clients. *)
EXTENDS FtpDispatch

CONSTANTS c1, c2, c3

\* c2 and c3 are silent and interchangeable: it is enough to let c2 come first.
InTurn == cstate'[c3] # "idle" => cstate[c2] # "idle"

InTurnSpec == Init /\ [][Next /\ InTurn]_vars /\ Fairness
=============================================================================
