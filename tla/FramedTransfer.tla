------------------------------ MODULE FramedTransfer ------------------------------
(***************************************************************************)
(* The three pairs of programs of ch04/4.11 that differ in how a receiver  *)
(* learns the end of the data: 4.6 by the end of the stream ("close"), 4.7 *)
(* by a length both know ("fixed"), 4.9 by a length in front ("length").   *)
(* A recv returns any part of what has arrived, up to its buffer.  Data    *)
(* are counted in cells; only the client at hand is followed.              *)
(***************************************************************************)
EXTENDS Naturals

CONSTANTS Total,        \* cells the server has for a client
          Buf,          \* the client's BUF_LEN, in cells
          Extra,        \* cells the strlen of 4.7 runs past its buffer
          Answers,      \* cells the client sends at the end
          MaxClients    \* one after the other

ASSUME FramesAssumption ==
    /\ Total \in Nat /\ Extra \in Nat /\ Answers \in Nat /\ MaxClients \in Nat
    /\ Buf \in Nat \ {0}

VARIABLES variant,      \* "close", "fixed" or "length"
          srv,          \* the server: "accept", "send", "shutdown", "recv", "ask", or how
                        \* it ended: "exit", "failed" (return 1), "SIGPIPE", "killed"
          cli,          \* the client: "away", "header", "loop", "last", "drain", "tell",
                        \* "done", "failed" or "killed"
          calls, out,   \* send calls and cells sent by the server
          outEnd,       \* its direction: "open", "fin" or "rst"
          got, left,    \* cells read by the client, and its leftlen
          told, heard,  \* cells sent by the client, and read by the server
          back,         \* the client's direction: "open", "fin" or "rst"
          served

framesVars == <<variant, srv, cli, calls, out, outEnd, got, left, told, heard, back, served>>

Up == srv \in {"accept", "send", "shutdown", "recv", "ask"}
Connected == cli \in {"header", "loop", "last", "drain", "tell"}

FramesTypeOK == /\ variant \in {"close", "fixed", "length"}
                /\ Up \/ srv \in {"exit", "failed", "SIGPIPE", "killed"}
                /\ Connected \/ cli \in {"away", "done", "failed", "killed"}
                /\ calls \in 0 .. Total /\ out \in 0 .. Total + Extra
                /\ outEnd \in {"open", "fin", "rst"} /\ back \in {"open", "fin", "rst"}
                /\ got \in 0 .. out /\ left \in 0 .. Total
                /\ told \in 0 .. Answers /\ heard \in 0 .. told
                /\ served \in 0 .. MaxClients

FramesInit == /\ variant \in {"close", "fixed", "length"}
              /\ srv = "accept" /\ cli = "away"
              /\ calls = 0 /\ out = 0 /\ outEnd = "open" /\ got = 0 /\ left = 0
              /\ told = 0 /\ heard = 0 /\ back = "open" /\ served = 0

-----------------------------------------------------------------------------
(* The server. *)

\* The next client has connected: a connection of its own.
FramesAccept == /\ srv = "accept" /\ served < MaxClients /\ ~ Connected
                /\ served' = served + 1
                /\ srv' = "send"
                /\ cli' = CASE variant = "close" -> "drain"
                            [] variant = "fixed" -> "loop"
                            [] variant = "length" -> "header"
                /\ left' = IF variant = "fixed" THEN Total ELSE 0
                /\ calls' = 0 /\ out' = 0 /\ outEnd' = "open" /\ got' = 0
                /\ told' = 0 /\ heard' = 0 /\ back' = "open"
                /\ UNCHANGED variant

\* The data of one call: all of them where there is one call, and in 4.7 what
\* strlen finds in a buffer without a terminator.
Sent == CASE variant = "length" -> {Total}
          [] variant = "close"  -> {1}
          [] variant = "fixed"  -> {n \in {1, 2} : out - calls + (n - 1) <= Extra}

Send == /\ srv = "send" /\ calls < Total
        /\ calls' = IF variant = "length" THEN Total ELSE calls + 1
        /\ \/ back = "open" /\ (\E n \in Sent : out' = out + n) /\ UNCHANGED <<back, srv>>
           \/ back = "fin" /\ back' = "rst" /\ UNCHANGED <<out, srv>>
           \/ back = "rst" /\ srv' \in {"send", "SIGPIPE"} /\ UNCHANGED <<out, back>>
        /\ UNCHANGED <<variant, cli, outEnd, got, left, told, heard, served>>

SendDone == /\ srv = "send" /\ calls = Total
            /\ srv' = IF variant = "close" THEN "shutdown" ELSE "recv"
            /\ UNCHANGED <<variant, cli, calls, out, outEnd, got, left, told, heard, back, served>>

\* The server waits for the answer without ending its own direction.
Shutdown_Mutant == /\ srv = "shutdown"
                   /\ srv' = "recv"
                   /\ UNCHANGED <<variant, cli, calls, out, outEnd, got, left, told, heard, back, served>>

\* shutdown(SHUT_WR); -1 on a connection that was reset.
Shutdown == /\ srv = "shutdown"
            /\ IF back = "rst" THEN srv' = "failed" /\ outEnd' = "rst"
                               ELSE srv' = "recv" /\ outEnd' = "fin"
            /\ UNCHANGED <<variant, cli, calls, out, got, left, told, heard, back, served>>

Recv == /\ srv = "recv" /\ heard < told
        /\ heard' \in heard + 1 .. told
        /\ UNCHANGED <<variant, srv, cli, calls, out, outEnd, got, left, told, back, served>>

RecvEnds == /\ srv = "recv" /\ heard = told /\ back # "open"
            /\ srv' = IF back = "rst" THEN "failed" ELSE "ask"
            /\ outEnd' = IF outEnd = "open" THEN "fin" ELSE outEnd
            /\ UNCHANGED <<variant, cli, calls, out, got, left, told, heard, back, served>>

\* The operator types y, or anything else.
Ask == /\ srv = "ask"
       /\ srv' \in {"accept", "exit"}
       /\ UNCHANGED <<variant, cli, calls, out, outEnd, got, left, told, heard, back, served>>

FramesServer == FramesAccept \/ Send \/ SendDone \/ Shutdown \/ Recv \/ RecvEnds \/ Ask

-----------------------------------------------------------------------------
(* The client. *)

\* What a recv into n cells returns, with data.
Gets(n) == /\ got < out
           /\ \E k \in 1 .. n : got + k <= out /\ got' = got + k
                                /\ left' = IF left > k THEN left - k ELSE 0

AtEnd == got = out /\ outEnd = "fin"
RecvFails == got = out /\ outEnd = "rst"

\* The length is in the first segment, so it arrives whole and with data; the
\* result of this recv is not looked at.
Header == /\ cli = "header" /\ (out > 0 \/ outEnd # "open")
          /\ left' \in IF out > 0 THEN {Total} ELSE 0 .. Total
          /\ cli' = "loop"
          /\ UNCHANGED <<variant, srv, calls, out, outEnd, got, told, heard, back, served>>

\* while (leftlen > BUF_LEN): an end of file changes nothing, and comes again.
Loop == /\ cli = "loop" /\ left > Buf
        /\ \/ Gets(Buf) /\ UNCHANGED cli
           \/ RecvFails /\ cli' = "failed" /\ UNCHANGED <<got, left>>
        /\ UNCHANGED <<variant, srv, calls, out, outEnd, told, heard, back, served>>

LoopDone_Mutant == /\ cli = "loop" /\ left <= Buf + 1
                   /\ cli' = IF left > 0 THEN "last" ELSE "tell"
                   /\ UNCHANGED <<variant, srv, calls, out, outEnd, got, left, told, heard, back, served>>

LoopDone == /\ cli = "loop" /\ left <= Buf
            /\ cli' = IF left > 0 THEN "last" ELSE "tell"
            /\ UNCHANGED <<variant, srv, calls, out, outEnd, got, left, told, heard, back, served>>

\* One recv for the rest, whatever it returns.
LastRecv == /\ cli = "last"
            /\ \/ Gets(left) /\ cli' = "tell"
               \/ AtEnd /\ cli' = "tell" /\ UNCHANGED <<got, left>>
               \/ RecvFails /\ cli' = "failed" /\ UNCHANGED <<got, left>>
            /\ UNCHANGED <<variant, srv, calls, out, outEnd, told, heard, back, served>>

\* A recv that does not fill the buffer is taken for the end.
Drain_Mutant == /\ cli = "drain"
                /\ \/ Gets(Buf) /\ cli' = IF got' < got + Buf THEN "tell" ELSE "drain"
                   \/ AtEnd /\ cli' = "tell" /\ UNCHANGED <<got, left>>
                   \/ RecvFails /\ cli' = "failed" /\ UNCHANGED <<got, left>>
                /\ UNCHANGED <<variant, srv, calls, out, outEnd, told, heard, back, served>>

\* 4.6: until the end of the stream.
Drain == /\ cli = "drain"
         /\ \/ Gets(Buf) /\ UNCHANGED cli
            \/ AtEnd /\ cli' = "tell" /\ UNCHANGED <<got, left>>
            \/ RecvFails /\ cli' = "failed" /\ UNCHANGED <<got, left>>
         /\ UNCHANGED <<variant, srv, calls, out, outEnd, told, heard, back, served>>

\* A close over unread data, or on a connection the server has ended, resets it.
Closes == back' = IF got < out \/ ~ Up THEN "rst" ELSE "fin"

Tell == /\ cli = "tell" /\ told < Answers
        /\ told' = IF variant = "close" THEN told + 1 ELSE Answers
        /\ UNCHANGED <<variant, srv, cli, calls, out, outEnd, got, left, heard, back, served>>

\* 4.6 answers in several calls: SIGPIPE when the server is gone.
TellKills == /\ cli = "tell" /\ told \in 1 .. Answers - 1 /\ variant = "close"
             /\ ~ Up
             /\ cli' = "killed" /\ Closes
             /\ UNCHANGED <<variant, srv, calls, out, outEnd, got, left, told, heard, served>>

FramesLeave == /\ cli = "tell" /\ told = Answers
               /\ cli' = "done" /\ Closes
               /\ UNCHANGED <<variant, srv, calls, out, outEnd, got, left, told, heard, served>>

FramesClient == Header \/ Loop \/ LoopDone \/ LastRecv \/ Drain \/ Tell \/ TellKills \/ FramesLeave

-----------------------------------------------------------------------------
(* Either program may be killed; the kernel closes its socket. *)

KillClient == /\ Connected
              /\ cli' = "killed" /\ Closes
              /\ UNCHANGED <<variant, srv, calls, out, outEnd, got, left, told, heard, served>>

KillServer == /\ Up
              /\ srv' = "killed"
              /\ outEnd' = IF heard < told THEN "rst" ELSE "fin"
              /\ UNCHANGED <<variant, cli, calls, out, got, left, told, heard, back, served>>

FramesNext == FramesServer \/ FramesClient \/ KillClient \/ KillServer

FramesSpec == FramesInit /\ [][FramesNext]_framesVars

FramesFairness == WF_framesVars(FramesServer) /\ WF_framesVars(FramesClient)

FramesFairSpec == FramesSpec /\ FramesFairness

-----------------------------------------------------------------------------
Finished == cli \in {"tell", "done"}

(* A client that goes on to answer has all the data its server counted:    *)
(* what src/README.md:395 says of a receiver that knows the length, and    *)
(* the clients say themselves ("i've finished receiving the data").  False *)
(* of the code: in 4.7 and 4.9 the recv for the rest is not repeated.      *)
ReceivedAll == (Finished /\ srv # "killed") => got = Total

(* How short a client can come.  The end of the stream is not seen before  *)
(* the last cell, so with 4.6 it has all the data.  With a length its one  *)
(* last recv can leave it short, against ReceivedAll, but never by a whole *)
(* buffer, and it reads nothing beyond the length.                         *)
ReceivedEnough == (Finished /\ srv # "killed") =>
                     /\ variant = "close" => got = Total
                     /\ variant # "close" => Total - Buf < got /\ got <= Total

(* A server that fails has met a client that was killed.  Without the end  *)
(* of the stream to wait for there is one more cause: a client that closed *)
(* over data it had not read, or, where the server sends more than it      *)
(* counts, one that had its length before the server was through.          *)
FailsOnlyFor == srv \in {"failed", "SIGPIPE"} =>
                   \/ cli = "killed"
                   \/ cli = "done" /\ variant = "fixed"
                   \/ cli = "done" /\ variant = "length" /\ got < Total

(* The server is through with every client it takes on, and the client     *)
(* with its server unless that is killed; 4.6's even then, while the       *)
(* others spin on an end of file their loop does not expect.               *)
TransferEnds ==
    Connected ~> /\ srv \notin {"send", "shutdown", "recv"}
                 /\ ~ Connected \/ (srv = "killed" /\ variant # "close")
===============================================================================
