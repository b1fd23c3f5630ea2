--------------------------------- MODULE GetLine ---------------------------------
(***************************************************************************)
(* get_line of ch09 (httpSrv.cpp), one recv at a time, called as the loops *)
(* over the headers call it: until it returns nothing or an empty line.    *)
(* A carriage return makes it peek at the next byte, which may not be      *)
(* there yet.                                                              *)
(***************************************************************************)
EXTENDS Naturals, Sequences

CONSTANTS Size,         \* the size of the caller's buffer
          MaxInput      \* bytes the client sends

ASSUME LineAssumption == Size \in Nat \ {0} /\ MaxInput \in Nat

Bytes == {"a", "CR", "LF"}

VARIABLES stream,       \* what the client has sent
          closed,       \* the client has closed the connection
          pos,          \* bytes taken from the socket
          at,           \* "recv", "peek" or "stop"
          last, buf,    \* the last byte and the line so far
          lines         \* the lines returned

lineVars == <<stream, closed, pos, at, last, buf, lines>>

LineTypeOK == /\ stream \in Seq(Bytes) /\ Len(stream) <= MaxInput
              /\ closed \in BOOLEAN
              /\ pos \in 0 .. Len(stream)
              /\ at \in {"recv", "peek", "stop"}
              /\ last \in Bytes \union {""}
              /\ buf \in Seq({"a", "LF"}) /\ Len(buf) < Size
              /\ lines \in Seq(Seq({"a", "LF"}))

LineInit == /\ stream = << >> /\ closed = FALSE /\ pos = 0
            /\ at = "recv" /\ last = "" /\ buf = << >> /\ lines = << >>

Type == /\ ~ closed /\ Len(stream) < MaxInput
        /\ \E b \in Bytes : stream' = Append(stream, b)
        /\ UNCHANGED <<closed, pos, at, last, buf, lines>>

Hangup == /\ ~ closed
          /\ closed' = TRUE
          /\ UNCHANGED <<stream, pos, at, last, buf, lines>>

\* The end of the headers, or of the input.
Blank(line) == line \in {<< >>, <<"LF">>}

Arrived == pos < Len(stream)
Next1   == stream[pos + 1]
Store(b) == buf' = Append(buf, b) /\ last' = b

\* No room is kept for the terminator.
Reading_Mutant == at = "recv" /\ Len(buf) < Size /\ last # "LF"

\* The condition of the loop.
Reading == at = "recv" /\ Len(buf) < Size - 1 /\ last # "LF"

RecvByte == /\ Reading /\ Arrived
            /\ pos' = pos + 1
            /\ IF Next1 = "CR" THEN at' = "peek" /\ UNCHANGED <<buf, last>>
                               ELSE Store(Next1) /\ UNCHANGED at
            /\ UNCHANGED <<stream, closed, lines>>

RecvEnd == /\ Reading /\ ~ Arrived /\ closed
           /\ last' = "LF"
           /\ UNCHANGED <<stream, closed, pos, at, buf, lines>>

\* recv in place of the peek: the byte behind a carriage return is gone.
Peek_Mutant == /\ at = "peek" /\ (Arrived \/ closed)
               /\ pos' = IF Arrived THEN pos + 1 ELSE pos
               /\ Store("LF")
               /\ at' = "recv"
               /\ UNCHANGED <<stream, closed, lines>>

Peek == /\ at = "peek" /\ (Arrived \/ closed)
        /\ pos' = IF Arrived /\ Next1 = "LF" THEN pos + 1 ELSE pos
        /\ Store("LF")
        /\ at' = "recv"
        /\ UNCHANGED <<stream, closed, lines>>

\* A line ends when the next one begins.
Return_Mutant == /\ at = "recv" /\ (Len(buf) = Size - 1 \/ last = "LF")
                 /\ Arrived \/ closed
                 /\ lines' = Append(lines, buf)
                 /\ at' = IF Blank(buf) THEN "stop" ELSE "recv"
                 /\ buf' = << >> /\ last' = ""
                 /\ UNCHANGED <<stream, closed, pos>>

Return == /\ at = "recv" /\ (Len(buf) = Size - 1 \/ last = "LF")
          /\ lines' = Append(lines, buf)
          /\ at' = IF Blank(buf) THEN "stop" ELSE "recv"
          /\ buf' = << >> /\ last' = ""
          /\ UNCHANGED <<stream, closed, pos>>

Reader == RecvByte \/ RecvEnd \/ Peek \/ Return

LineNext == Type \/ Hangup \/ Reader

LineSpec == LineInit /\ [][LineNext]_lineVars

LineFairSpec == LineSpec /\ WF_lineVars(Reader)

-----------------------------------------------------------------------------
(* What the comment on get_line promises, as a relation between a line and *)
(* the bytes from + 1 .. to of the input: CR, LF and CRLF each end a line, *)
(* and are a line feed in it.  A line that does not fit is cut where the   *)
(* buffer ends, and the last one where the input ends.                     *)

Copies(n, line, from) == \A i \in 1 .. n : line[i] = "a" /\ stream[from + i] = "a"

Terminator(from, to) ==
    \/ stream[from] = "LF" /\ to = from
    \/ /\ stream[from] = "CR" /\ from < Len(stream)
       /\ to = IF stream[from + 1] = "LF" THEN from + 1 ELSE from
    \/ stream[from] = "CR" /\ from = Len(stream) /\ closed /\ to = from

Whole(line, from, to) == /\ Len(line) \in 1 .. Size - 1 /\ line[Len(line)] = "LF"
                         /\ from + Len(line) <= Len(stream)
                         /\ Copies(Len(line) - 1, line, from)
                         /\ Terminator(from + Len(line), to)

Part(line, from, to) == /\ from + Len(line) <= Len(stream) /\ to = from + Len(line)
                        /\ Copies(Len(line), line, from)
                        /\ \/ Len(line) = Size - 1
                           \/ Len(line) < Size - 1 /\ closed /\ to = Len(stream)

Piece(line, from, to) == Whole(line, from, to) \/ Part(line, from, to)

(* However the bytes arrive, the lines are the pieces of the input, in     *)
(* order, with nothing between them lost or taken twice: there are places  *)
(* at which the input can be cut into them.  Only the last one is blank.   *)
LinesMatch ==
    /\ \E ends \in [0 .. Len(lines) -> 0 .. pos] :
          /\ ends[0] = 0
          /\ \A k \in 1 .. Len(lines) : Piece(lines[k], ends[k - 1], ends[k])
    /\ \A k \in 1 .. Len(lines) - 1 : ~ Blank(lines[k])

LineFeedLast == stream # << >> /\ stream[Len(stream)] = "LF"

(* A line that has arrived with its line feed is returned, even if nothing *)
(* follows it: a client that waits for its answer sends nothing more.      *)
LineComesThrough ==
    LineFeedLast ~> \/ at = "recv" /\ pos = Len(stream) /\ buf = << >>
                    \/ at = "stop"
                    \/ ~ LineFeedLast
===============================================================================
