---------------------------- MODULE Transfers_proofs ----------------------------
(***************************************************************************)
(* Proofs about the programs that find the end of a message in a stream:   *)
(* the invariants of get_line and of the framed transfers, and, with that  *)
(* of the HTTP server (Httpd_proofs), the theorems about all of them.      *)
(***************************************************************************)
EXTENDS Transfers, Httpd_proofs

-----------------------------------------------------------------------------
(* get_line. *)

\* What a line is made of.
Line == Seq({"a", "LF"})

\* Where the bytes of the line at hand are, when the line begins behind the
\* first e bytes of the input.
AtHand(e) ==
    /\ at = "peek" => pos = e + Len(buf) + 1 /\ stream[pos] = "CR" /\ Copies(Len(buf), buf, e)
    /\ at # "peek" /\ last # "LF" => pos = e + Len(buf) /\ Copies(Len(buf), buf, e)
    /\ at # "peek" /\ last = "LF" => Piece(buf, e, pos)

Pieces(ends) == \A k \in 1 .. Len(lines) : Piece(lines[k], ends[k - 1], ends[k])

\* The input up to pos can be cut into the lines returned and the one at hand.
PiecesInv == \E ends \in [0 .. Len(lines) -> 0 .. pos] :
             ends[0] = 0 /\ Pieces(ends) /\ AtHand(ends[Len(lines)])

\* The caller goes on only as long as no line was blank.
BlankInv == /\ \A k \in 1 .. Len(lines) - 1 : ~ Blank(lines[k])
            /\ at # "stop" => \A k \in 1 .. Len(lines) : ~ Blank(lines[k])

\* There is room for the line feed of a carriage return.
LineIInv == /\ LineTypeOK /\ (at = "peek" => Len(buf) < Size - 1)
            /\ PiecesInv /\ BlankInv

\* What the client may do to the input: send one byte more, or close.
Grows == /\ closed => closed'
         /\ \/ stream' = stream
            \/ ~ closed /\ \E b \in Bytes : stream' = Append(stream, b)

\* get_line starts with an empty line.
LEMMA LineStarts == LineInit => LineIInv
<1> SUFFICES ASSUME LineInit PROVE LineIInv
  OBVIOUS
<1>1. << >> \in Seq(Seq({"a", "LF"})) /\ << >> \in Seq(Bytes) /\ << >> \in Seq({"a", "LF"})
  OBVIOUS
<1>2. stream = << >> /\ buf = << >> /\ lines = << >> /\ pos = 0
  BY DEF LineInit
<1>3. Len(stream) = 0 /\ Len(buf) = 0 /\ Len(lines) = 0
  BY <1>2
<1>4. 0 <= MaxInput /\ 0 < Size
  BY LineAssumption DEF LineAssumption
<1>5. Len(stream) <= MaxInput /\ Len(buf) < Size /\ pos \in 0 .. Len(stream)
  BY <1>2, <1>3, <1>4
<1>6. at = "recv" /\ closed = FALSE /\ last = ""
  BY DEF LineInit
<1>7. PiecesInv
  <2> DEFINE ends == [k \in 0 .. 0 |-> 0]
  <2>1. ends \in [0 .. Len(lines) -> 0 .. pos] /\ ends[0] = 0
    BY <1>2, <1>3
  <2>2. Pieces(ends)
    BY <1>3 DEF Pieces
  <2>3. AtHand(ends[Len(lines)])
    <3>1. ends[Len(lines)] = 0 /\ pos = 0 + Len(buf) /\ \A i \in 1 .. Len(buf) : FALSE
      BY <1>2, <1>3, <2>1
    <3>2. Copies(Len(buf), buf, 0)
      BY <3>1 DEF Copies
    <3> QED BY <1>6, <3>1, <3>2 DEF AtHand
  <2> QED BY <2>1, <2>2, <2>3 DEF PiecesInv
<1>8. BlankInv
  BY <1>3 DEF BlankInv
<1> QED BY <1>1, <1>2, <1>5, <1>6, <1>7, <1>8 DEF LineIInv, LineTypeOK

\* The types the proofs use, one by one.
LEMMA LineTyped ==
    LineTypeOK => /\ stream \in Seq(Bytes) /\ Len(stream) \in Nat
                  /\ pos \in 0 .. Len(stream)
                  /\ buf \in Line /\ Len(buf) \in 0 .. Size - 1
                  /\ lines \in Seq(Line) /\ Len(lines) \in Nat
<1> SUFFICES ASSUME LineTypeOK
             PROVE  /\ stream \in Seq(Bytes) /\ Len(stream) \in Nat
                    /\ pos \in 0 .. Len(stream)
                    /\ buf \in Line /\ Len(buf) \in 0 .. Size - 1
                    /\ lines \in Seq(Line) /\ Len(lines) \in Nat
  OBVIOUS
<1>1. /\ stream \in Seq(Bytes) /\ pos \in 0 .. Len(stream)
      /\ buf \in Line /\ Len(buf) < Size /\ lines \in Seq(Line)
  BY DEF LineTypeOK, Line
<1>2. Len(stream) \in Nat
  BY <1>1
<1>3. Len(lines) \in Nat
  BY <1>1
<1>4. Len(buf) \in Nat
  BY <1>1 DEF Line
<1>5. Len(buf) \in 0 .. Size - 1
  BY <1>1, <1>4, LineAssumption DEF LineAssumption
<1> QED BY <1>1, <1>2, <1>3, <1>5

\* What the client sends behind a piece of the input leaves it that piece: the
\* end of the input ends one only once nothing more can come.
LEMMA PieceStays ==
    LineTypeOK /\ Grows =>
       \A line \in Line, from, to \in 0 .. Len(stream) :
          Piece(line, from, to) => Piece(line, from, to)'
<1> SUFFICES ASSUME LineTypeOK, Grows, NEW line \in Line,
                    NEW from \in 0 .. Len(stream), NEW to \in 0 .. Len(stream)
             PROVE  Piece(line, from, to) => Piece(line, from, to)'
  OBVIOUS
<1>1. stream \in Seq(Bytes)
  BY LineTyped
<1>2. Len(line) \in Nat
  BY DEF Line
<1>3. Len(stream') \in Nat /\ Len(stream) <= Len(stream') /\ Len(stream) \in Nat
  BY <1>1 DEF Grows
<1>4. \A i \in 1 .. Len(stream) : stream'[i] = stream[i]
  BY <1>1 DEF Grows
<1>5. closed => closed' /\ stream' = stream
  BY DEF Grows
<1>6. Whole(line, from, to) => Whole(line, from, to)'
  <2> SUFFICES ASSUME Whole(line, from, to) PROVE Whole(line, from, to)'
    OBVIOUS
  <2> DEFINE end == from + Len(line)
  <2>1. /\ Len(line) \in 1 .. Size - 1 /\ line[Len(line)] = "LF" /\ end <= Len(stream)
        /\ Copies(Len(line) - 1, line, from) /\ Terminator(end, to)
    BY DEF Whole
  <2>2. end \in 1 .. Len(stream)
    BY <1>2, <1>3, <2>1
  <2>3. Copies(Len(line) - 1, line, from)'
    BY <1>2, <1>3, <1>4, <2>1, <2>2 DEF Copies
  <2>4. Terminator(end, to)'
    <3>1. stream'[end] = stream[end]
      BY <1>4, <2>2
    <3>2. end < Len(stream) => stream'[end + 1] = stream[end + 1] /\ end < Len(stream')
      BY <1>3, <1>4, <2>2
    <3> HIDE DEF end
    <3> QED BY <1>5, <2>1, <3>1, <3>2 DEF Terminator
  <2>5. end <= Len(stream')
    BY <1>3, <2>2
  <2> QED BY <2>1, <2>3, <2>4, <2>5 DEF Whole
<1>7. Part(line, from, to) => Part(line, from, to)'
  BY <1>2, <1>3, <1>4, <1>5, LineAssumption DEF LineAssumption, Part, Copies
<1> QED BY <1>6, <1>7, Zenon DEF Piece

\* So the lines returned stay the pieces they were.
LEMMA PiecesStay ==
    LineTypeOK /\ Grows /\ lines' = lines =>
       \A ends \in [0 .. Len(lines) -> 0 .. pos] : Pieces(ends) => Pieces(ends)'
<1> SUFFICES ASSUME LineTypeOK, Grows, lines' = lines,
                    NEW ends \in [0 .. Len(lines) -> 0 .. pos]
             PROVE  Pieces(ends) => Pieces(ends)'
  OBVIOUS
<1>1. /\ lines \in Seq(Line) /\ pos \in 0 .. Len(stream)
      /\ Len(stream) \in Nat /\ Len(lines) \in Nat
  BY LineTyped
<1>2. \A k \in 1 .. Len(lines) : /\ lines[k] \in Line /\ ends[k - 1] \in 0 .. Len(stream)
                                 /\ ends[k] \in 0 .. Len(stream)
  BY <1>1
<1>3. ASSUME NEW k \in 1 .. Len(lines), Piece(lines[k], ends[k - 1], ends[k])
      PROVE  Piece(lines[k], ends[k - 1], ends[k])'
  BY <1>2, <1>3, PieceStays
<1> QED BY <1>3 DEF Pieces

\* Types: get_line stores what it received, a line feed for a carriage return,
\* within the caller's buffer.
LEMMA LineTypesKept ==
    LineIInv /\ [LineNext]_lineVars => LineTypeOK' /\ (at = "peek" => Len(buf) < Size - 1)'
<1> SUFFICES ASSUME LineIInv, [LineNext]_lineVars
             PROVE  LineTypeOK' /\ (at = "peek" => Len(buf) < Size - 1)'
  OBVIOUS
<1> USE LineAssumption DEF LineAssumption
<1>1. /\ stream \in Seq(Bytes) /\ Len(stream) <= MaxInput /\ pos \in 0 .. Len(stream)
      /\ buf \in Seq({"a", "LF"}) /\ Len(buf) < Size /\ lines \in Seq(Seq({"a", "LF"}))
  BY DEF LineIInv, LineTypeOK
<1>2. CASE Type
  <2>1. PICK b \in Bytes : stream' = Append(stream, b)
    BY <1>2 DEF Type
  <2>2. stream' \in Seq(Bytes) /\ Len(stream') = Len(stream) + 1
    BY <1>1, <2>1
  <2>3. Len(stream') <= MaxInput /\ pos' \in 0 .. Len(stream')
    BY <1>1, <1>2, <2>2 DEF Type
  <2> QED BY <1>2, <2>2, <2>3 DEF Type, LineIInv, LineTypeOK
<1>3. CASE Hangup
  BY <1>3 DEF Hangup, LineIInv, LineTypeOK
<1>4. CASE RecvByte
  <2>1. Next1 \in Bytes /\ pos + 1 \in 0 .. Len(stream)
    BY <1>1, <1>4 DEF RecvByte, Arrived, Next1
  <2>2. CASE Next1 = "CR"
    BY <1>4, <2>1, <2>2 DEF RecvByte, Reading, LineIInv, LineTypeOK
  <2>3. CASE Next1 # "CR"
    <3>1. Next1 \in {"a", "LF"}
      BY <2>1, <2>3 DEF Bytes
    <3>2. buf' \in Seq({"a", "LF"}) /\ Len(buf') = Len(buf) + 1 /\ Len(buf) < Size - 1
      <4>1. buf' = Append(buf, Next1)
        BY <1>4, <2>3 DEF RecvByte, Store
      <4>2. Len(buf) < Size - 1
        BY <1>4 DEF RecvByte, Reading
      <4> QED BY <1>1, <3>1, <4>1, <4>2
    <3>3. Len(buf') < Size
      BY <1>1, <3>2
    <3>4. /\ last' \in Bytes /\ at' = "recv" /\ pos' = pos + 1
          /\ UNCHANGED <<stream, closed, lines>>
      BY <1>4, <2>1, <2>3 DEF RecvByte, Reading, Store
    <3> QED BY <1>1, <2>1, <3>2, <3>3, <3>4 DEF LineIInv, LineTypeOK
  <2> QED BY <2>2, <2>3
<1>5. CASE RecvEnd
  BY <1>5 DEF RecvEnd, Reading, Bytes, LineIInv, LineTypeOK
<1>6. CASE Peek
  <2>1. buf' \in Seq({"a", "LF"}) /\ Len(buf') = Len(buf) + 1 /\ Len(buf) < Size - 1
    BY <1>1, <1>6 DEF Peek, Store, LineIInv
  <2>2. pos' \in 0 .. Len(stream)
    BY <1>1, <1>6 DEF Peek, Arrived
  <2>3. Len(buf') < Size
    BY <1>1, <2>1
  <2>4. last' \in Bytes /\ at' = "recv" /\ UNCHANGED <<stream, closed, lines>>
    BY <1>6 DEF Peek, Store, Bytes
  <2> QED BY <1>1, <2>1, <2>2, <2>3, <2>4 DEF LineIInv, LineTypeOK
<1>7. CASE Return
  <2>1. lines' \in Seq(Seq({"a", "LF"}))
    <3>1. lines' = Append(lines, buf)
      BY <1>7 DEF Return
    <3> QED BY <1>1, <3>1, AppendProperties
  <2>2. at' \in {"recv", "stop"} /\ buf' = << >> /\ last' = ""
    BY <1>7 DEF Return
  <2>3. buf' \in Seq({"a", "LF"}) /\ Len(buf') < Size
    <3>1. << >> \in Seq({"a", "LF"}) /\ Len(<< >>) = 0 /\ 0 < Size
      OBVIOUS
    <3> QED BY <2>2, <3>1
  <2>4. UNCHANGED <<stream, closed, pos>> /\ closed \in BOOLEAN
    BY <1>7 DEF Return, LineIInv, LineTypeOK
  <2> QED BY <1>1, <2>1, <2>2, <2>3, <2>4 DEF LineIInv, LineTypeOK
<1>8. CASE UNCHANGED lineVars
  BY <1>8 DEF lineVars, LineIInv, LineTypeOK
<1> QED BY <1>2, <1>3, <1>4, <1>5, <1>6, <1>7, <1>8 DEF LineNext, Reader

\* Whatever the client does, the line at hand is where it was in the input.
LEMMA HandStays ==
    LineTypeOK /\ Grows /\ UNCHANGED <<pos, at, last, buf>> =>
       \A e \in 0 .. pos : AtHand(e) => AtHand(e)'
<1> SUFFICES ASSUME LineTypeOK, Grows, UNCHANGED <<pos, at, last, buf>>,
                    NEW e \in 0 .. pos, AtHand(e)
             PROVE  AtHand(e)'
  OBVIOUS
<1>1. /\ stream \in Seq(Bytes) /\ pos \in 0 .. Len(stream) /\ Len(stream) \in Nat
      /\ buf \in Line /\ Len(buf) \in Nat
  BY LineTyped, LineAssumption DEF LineAssumption
<1>2. \A i \in 1 .. Len(stream) : stream'[i] = stream[i]
  BY <1>1 DEF Grows
<1>3. CASE at # "peek" /\ last = "LF"
  <2>1. Piece(buf, e, pos)
    BY <1>3 DEF AtHand
  <2>2. e \in 0 .. Len(stream)
    BY <1>1
  <2>3. Piece(buf, e, pos)'
    BY <1>1, <2>1, <2>2, PieceStays
  <2> QED BY <1>3, <2>3 DEF AtHand
<1>4. CASE at = "peek"
  <2>1. pos = e + Len(buf) + 1 /\ stream[pos] = "CR" /\ Copies(Len(buf), buf, e)
    BY <1>4 DEF AtHand
  <2>2. pos \in 1 .. Len(stream) /\ \A i \in 1 .. Len(buf) : e + i \in 1 .. Len(stream)
    BY <1>1, <2>1
  <2>3. stream'[pos] = "CR"
    BY <1>2, <2>1, <2>2
  <2>4. Copies(Len(buf), buf, e)'
    BY <1>2, <2>1, <2>2 DEF Copies
  <2> QED BY <1>4, <2>1, <2>3, <2>4 DEF AtHand
<1>5. CASE at # "peek" /\ last # "LF"
  BY <1>1, <1>2, <1>5 DEF AtHand, Copies
<1> QED BY <1>3, <1>4, <1>5

\* A byte received is the next of the line, its line feed, or a carriage return.
LEMMA HandReceives ==
    LineTypeOK /\ RecvByte => \A e \in 0 .. pos : AtHand(e) => AtHand(e)'
<1> SUFFICES ASSUME LineTypeOK, RecvByte, NEW e \in 0 .. pos, AtHand(e)
             PROVE  AtHand(e)'
  OBVIOUS
<1>1. /\ stream \in Seq(Bytes) /\ pos \in 0 .. Len(stream) /\ Len(stream) \in Nat
      /\ buf \in Line /\ Len(buf) \in Nat
  BY LineTyped, LineAssumption DEF LineAssumption
<1>2. /\ at = "recv" /\ Len(buf) < Size - 1 /\ last # "LF" /\ pos < Len(stream)
      /\ pos' = pos + 1 /\ stream' = stream
  BY DEF RecvByte, Reading, Arrived
<1>3. pos = e + Len(buf) /\ Copies(Len(buf), buf, e)
  BY <1>2 DEF AtHand
<1>4. CASE Next1 = "CR"
  BY <1>1, <1>2, <1>3, <1>4 DEF RecvByte, AtHand, Next1, Copies
<1>5. CASE Next1 # "CR"
  <2>1. Next1 \in {"a", "LF"}
    BY <1>1, <1>2, <1>5 DEF Next1, Bytes
  <2>2. buf' = Append(buf, Next1) /\ last' = Next1 /\ at' = "recv"
    BY <1>2, <1>5 DEF RecvByte, Store
  <2>3. /\ Len(buf') = Len(buf) + 1 /\ buf'[Len(buf) + 1] = Next1
        /\ \A i \in 1 .. Len(buf) : buf'[i] = buf[i]
    BY <1>1, <2>1, <2>2 DEF Line
  <2>4. CASE Next1 = "a"
    BY <1>1, <1>2, <1>3, <2>2, <2>3, <2>4 DEF AtHand, Next1, Copies
  <2>5. CASE Next1 = "LF"
    <3>1. Copies(Len(buf) - 1, buf, e)'
      <4>1. Len(buf') - 1 = Len(buf)
        BY <1>1, <2>3
      <4> QED BY <1>2, <1>3, <2>3, <4>1 DEF Copies
    <3>2. Terminator(e + Len(buf), pos)'
      BY <1>1, <1>2, <1>3, <2>3, <2>5 DEF Terminator, Next1
    <3>3. Whole(buf, e, pos)'
      BY <1>1, <1>2, <1>3, <2>3, <2>5, <3>1, <3>2, LineAssumption DEF Whole, LineAssumption
    <3> QED BY <2>2, <2>5, <3>3 DEF AtHand, Piece
  <2> QED BY <2>1, <2>4, <2>5
<1> QED BY <1>4, <1>5

\* The end of the input ends the line.
LEMMA HandEnds ==
    LineTypeOK /\ RecvEnd => \A e \in 0 .. pos : AtHand(e) => AtHand(e)'
<1> SUFFICES ASSUME LineTypeOK, RecvEnd, NEW e \in 0 .. pos, AtHand(e)
             PROVE  AtHand(e)'
  OBVIOUS
<1>1. pos \in 0 .. Len(stream) /\ Len(stream) \in Nat /\ Len(buf) \in Nat
  BY LineTyped, LineAssumption DEF LineAssumption
<1>2. /\ at = "recv" /\ Len(buf) < Size - 1 /\ last # "LF" /\ pos = Len(stream) /\ closed
      /\ last' = "LF" /\ UNCHANGED <<stream, closed, pos, at, buf>>
  BY <1>1 DEF RecvEnd, Reading, Arrived
<1>3. pos = e + Len(buf) /\ Copies(Len(buf), buf, e)
  BY <1>2 DEF AtHand
<1>4. Part(buf, e, pos)'
  BY <1>1, <1>2, <1>3 DEF Part, Copies
<1> QED BY <1>2, <1>4 DEF AtHand, Piece

\* A carriage return ends the line, with the line feed behind it if there is one.
LEMMA HandPeeks ==
    LineTypeOK /\ Peek /\ Len(buf) < Size - 1 => \A e \in 0 .. pos : AtHand(e) => AtHand(e)'
<1> SUFFICES ASSUME LineTypeOK, Peek, Len(buf) < Size - 1, NEW e \in 0 .. pos, AtHand(e)
             PROVE  AtHand(e)'
  OBVIOUS
<1>1. /\ stream \in Seq(Bytes) /\ pos \in 0 .. Len(stream) /\ Len(stream) \in Nat
      /\ buf \in Line /\ Len(buf) \in Nat
  BY LineTyped, LineAssumption DEF LineAssumption
<1>2. /\ pos = e + Len(buf) + 1 /\ stream[pos] = "CR" /\ Copies(Len(buf), buf, e)
      /\ stream' = stream /\ closed' = closed
  BY DEF Peek, AtHand
<1>3. buf' = Append(buf, "LF") /\ last' = "LF" /\ at' = "recv"
  BY DEF Peek, Store
<1>4. /\ Len(buf') = Len(buf) + 1 /\ buf'[Len(buf) + 1] = "LF"
      /\ \A i \in 1 .. Len(buf) : buf'[i] = buf[i]
  BY <1>1, <1>3 DEF Line
<1>5. Copies(Len(buf) - 1, buf, e)'
  BY <1>1, <1>2, <1>4 DEF Copies
<1>6. e + Len(buf') = pos
  BY <1>1, <1>2, <1>4
<1>7. Terminator(e + Len(buf), pos)'
  <2>1. \/ pos < Len(stream) /\ pos' = IF stream[pos + 1] = "LF" THEN pos + 1 ELSE pos
        \/ pos = Len(stream) /\ closed /\ pos' = pos
    BY <1>1 DEF Peek, Arrived, Next1
  <2> QED BY <1>2, <1>6, <2>1 DEF Terminator
<1>8. Whole(buf, e, pos)'
  BY <1>1, <1>2, <1>4, <1>5, <1>6, <1>7, LineAssumption DEF Whole, LineAssumption
<1> QED BY <1>3, <1>8 DEF AtHand, Piece

\* Where the next line begins is where the one returned ends.
LEMMA HandReturned ==
    LineTypeOK /\ Return => \A e \in 0 .. pos : AtHand(e) => Piece(buf, e, pos) /\ AtHand(pos)'
<1> SUFFICES ASSUME LineTypeOK, Return, NEW e \in 0 .. pos, AtHand(e)
             PROVE  Piece(buf, e, pos) /\ AtHand(pos)'
  OBVIOUS
<1>1. /\ pos \in 0 .. Len(stream) /\ Len(stream) \in Nat /\ Len(buf) \in Nat
      /\ at = "recv" /\ (Len(buf) = Size - 1 \/ last = "LF")
  <2>1. at = "recv" /\ (Len(buf) = Size - 1 \/ last = "LF")
    BY DEF Return
  <2> QED BY <2>1, LineTyped, LineAssumption DEF LineAssumption
<1>2. Piece(buf, e, pos)
  <2>1. CASE last = "LF"
    BY <1>1, <2>1 DEF AtHand
  <2>2. CASE last # "LF"
    <3>1. pos = e + Len(buf) /\ Copies(Len(buf), buf, e) /\ Len(buf) = Size - 1
      BY <1>1, <2>2 DEF AtHand
    <3>2. Part(buf, e, pos)
      BY <1>1, <3>1 DEF Part
    <3> QED BY <3>2 DEF Piece
  <2> QED BY <2>1, <2>2
<1>3. at' # "peek" /\ last' = "" /\ buf' = << >> /\ pos' = pos
  BY DEF Return
<1>4. Len(buf') = 0
  BY <1>3
<1>5. pos' = pos + Len(buf') /\ Copies(Len(buf), buf, pos)'
  <2>1. pos' = pos
    BY <1>3
  <2>2. pos' = pos + Len(buf')
    BY <1>1, <1>4, <2>1
  <2>3. \A i \in 1 .. Len(buf') : FALSE
    BY <1>4
  <2> QED BY <2>2, <2>3 DEF Copies
<1> QED BY <1>2, <1>3, <1>5 DEF AtHand

\* As long as no line is returned, the cuts of the input stay where they are.
LEMMA PiecesStand ==
    /\ LineTypeOK /\ Grows /\ lines' = lines /\ pos <= pos' /\ pos' \in Nat /\ PiecesInv
    /\ \A e \in 0 .. pos : AtHand(e) => AtHand(e)'
    => PiecesInv'
<1> SUFFICES ASSUME LineTypeOK, Grows, lines' = lines, pos <= pos', pos' \in Nat, PiecesInv,
                    \A e \in 0 .. pos : AtHand(e) => AtHand(e)'
             PROVE  PiecesInv'
  OBVIOUS
<1>1. PICK ends \in [0 .. Len(lines) -> 0 .. pos] :
         ends[0] = 0 /\ Pieces(ends) /\ AtHand(ends[Len(lines)])
  BY DEF PiecesInv
<1>2. pos \in Nat /\ Len(lines) \in Nat
  BY LineTyped
<1>3. ends \in [0 .. Len(lines) -> 0 .. pos'] /\ ends[Len(lines)] \in 0 .. pos
  BY <1>2
<1>4. Pieces(ends)'
  BY <1>1, PiecesStay
<1>5. AtHand(ends[Len(lines)])'
  BY <1>1, <1>3
<1> QED BY <1>1, <1>3, <1>4, <1>5 DEF PiecesInv

\* A step of get_line cuts the input where it returns a line, and nowhere else.
LEMMA PiecesKept == LineIInv /\ [LineNext]_lineVars => PiecesInv'
<1> SUFFICES ASSUME LineIInv, [LineNext]_lineVars PROVE PiecesInv'
  OBVIOUS
<1>1. LineTypeOK /\ PiecesInv /\ pos \in Nat /\ pos \in 0 .. Len(stream) /\ Len(stream) \in Nat
  BY LineTyped DEF LineIInv
<1>2. CASE Type \/ Hangup \/ UNCHANGED lineVars
  <2>1. Grows /\ UNCHANGED <<pos, at, last, buf, lines>>
    BY <1>2 DEF Type, Hangup, lineVars, Grows
  <2> QED BY <1>1, <2>1, HandStays, PiecesStand
<1>3. CASE RecvByte \/ RecvEnd \/ Peek
  <2>1. Grows /\ lines' = lines /\ pos <= pos' /\ pos' \in Nat
    BY <1>1, <1>3 DEF RecvByte, RecvEnd, Peek, Grows
  <2>2. \A e \in 0 .. pos : AtHand(e) => AtHand(e)'
    <3>1. Peek => Len(buf) < Size - 1
      BY DEF Peek, LineIInv
    <3> QED BY <1>1, <1>3, <3>1, HandReceives, HandEnds, HandPeeks
  <2> QED BY <1>1, <2>1, <2>2, PiecesStand
<1>4. CASE Return
  <2>1. PICK ends \in [0 .. Len(lines) -> 0 .. pos] :
           ends[0] = 0 /\ Pieces(ends) /\ AtHand(ends[Len(lines)])
    BY <1>1 DEF PiecesInv
  <2>2. lines \in Seq(Line) /\ Len(lines) \in Nat /\ buf \in Line
    BY <1>1, LineTyped
  <2>3. lines' = Append(lines, buf) /\ pos' = pos /\ stream' = stream /\ closed' = closed
    BY <1>4 DEF Return
  <2>4. /\ Len(lines') = Len(lines) + 1 /\ lines'[Len(lines) + 1] = buf
        /\ \A k \in 1 .. Len(lines) : lines'[k] = lines[k]
    BY <2>2, <2>3
  <2>5. PICK new \in [0 .. Len(lines') -> 0 .. pos'] :
           new[Len(lines) + 1] = pos /\ \A k \in 0 .. Len(lines) : new[k] = ends[k]
    <3> DEFINE more == [k \in 0 .. Len(lines) + 1 |-> IF k <= Len(lines) THEN ends[k] ELSE pos]
    <3>1. more \in [0 .. Len(lines) + 1 -> 0 .. pos]
      BY <1>1, <2>2
    <3>2. more[Len(lines) + 1] = pos /\ \A k \in 0 .. Len(lines) : more[k] = ends[k]
      BY <2>2
    <3> HIDE DEF more
    <3> QED BY <2>3, <2>4, <3>1, <3>2
  <2>6. ends[Len(lines)] \in 0 .. pos
    BY <2>2
  <2>7. Piece(buf, ends[Len(lines)], pos) /\ AtHand(pos)'
    BY <1>1, <1>4, <2>1, <2>6, HandReturned
  <2>8. Pieces(new)'
    <3> SUFFICES ASSUME NEW k \in 1 .. Len(lines')
                 PROVE  Piece(lines[k], new[k - 1], new[k])'
      BY DEF Pieces
    <3>1. CASE k \in 1 .. Len(lines)
      <4>1. /\ lines[k] \in Line /\ ends[k - 1] \in 0 .. Len(stream)
            /\ ends[k] \in 0 .. Len(stream)
        <5>1. lines[k] \in Line
          BY <2>2, <3>1
        <5>2. k \in 0 .. Len(lines) /\ k - 1 \in 0 .. Len(lines)
          BY <2>2, <3>1
        <5>3. ends[k - 1] \in 0 .. pos /\ ends[k] \in 0 .. pos
          BY <5>2
        <5> QED BY <1>1, <5>1, <5>3
      <4>2. Piece(lines[k], ends[k - 1], ends[k])
        BY <2>1, <3>1 DEF Pieces
      <4>3. new[k - 1] = ends[k - 1] /\ new[k] = ends[k] /\ lines'[k] = lines[k]
        BY <2>2, <2>4, <2>5, <3>1
      <4> QED BY <1>1, <2>3, <4>1, <4>2, <4>3, PieceStays DEF Grows
    <3>2. CASE k = Len(lines) + 1
      <4>1. new[k - 1] = ends[Len(lines)] /\ new[k] = pos /\ lines'[k] = buf
        BY <2>2, <2>4, <2>5, <3>2
      <4>2. ends[Len(lines)] \in 0 .. Len(stream)
        BY <1>1, <2>6
      <4> QED BY <1>1, <2>2, <2>3, <2>7, <4>1, <4>2, PieceStays DEF Grows
    <3> QED BY <2>2, <2>4, <3>1, <3>2
  <2>9. AtHand(new[Len(lines)])' /\ new[0] = 0
    <3>1. new[Len(lines')] = pos
      BY <2>4, <2>5
    <3>2. AtHand(new[Len(lines)])'
      BY <2>3, <2>7, <3>1
    <3>3. new[0] = ends[0]
      BY <2>2, <2>5
    <3> QED BY <2>1, <3>2, <3>3
  <2> QED BY <2>5, <2>8, <2>9 DEF PiecesInv
<1> QED BY <1>2, <1>3, <1>4 DEF LineNext, Reader

\* The caller stops at a blank line.
LEMMA BlankKept == LineIInv /\ [LineNext]_lineVars => BlankInv'
<1> SUFFICES ASSUME LineIInv, [LineNext]_lineVars PROVE BlankInv'
  OBVIOUS
<1>1. LineTypeOK /\ BlankInv /\ lines \in Seq(Line) /\ Len(lines) \in Nat /\ buf \in Line
  BY LineTyped DEF LineIInv
<1>2. CASE Return
  <2>1. /\ at = "recv" /\ lines' = Append(lines, buf)
        /\ at' = IF Blank(buf) THEN "stop" ELSE "recv"
    BY <1>2 DEF Return
  <2>2. /\ Len(lines') = Len(lines) + 1 /\ lines'[Len(lines) + 1] = buf
        /\ \A k \in 1 .. Len(lines) : lines'[k] = lines[k]
    BY <1>1, <2>1
  <2>3. \A k \in 1 .. Len(lines) : ~ Blank(lines'[k])
    BY <1>1, <2>1, <2>2 DEF BlankInv
  <2>4. at' # "stop" => ~ Blank(lines'[Len(lines) + 1])
    BY <2>1, <2>2
  <2> QED BY <1>1, <2>2, <2>3, <2>4 DEF BlankInv
<1>3. CASE ~ Return
  <2>1. lines' = lines /\ (at = "stop" => at' = "stop")
    <3>1. CASE Type \/ Hangup \/ UNCHANGED lineVars
      BY <3>1 DEF Type, Hangup, lineVars
    <3>2. CASE RecvByte \/ RecvEnd \/ Peek
      BY <3>2 DEF RecvByte, Reading, RecvEnd, Peek
    <3> QED BY <1>3, <3>1, <3>2 DEF LineNext, Reader
  <2> QED BY <1>1, <2>1 DEF BlankInv
<1> QED BY <1>2, <1>3

\* Every step of get_line and of its client keeps the invariant.
LEMMA LineKept == LineIInv /\ [LineNext]_lineVars => LineIInv'
BY LineTypesKept, PiecesKept, BlankKept DEF LineIInv

\* The input can be cut into the lines returned.
LEMMA LinesAreCut == LineIInv => LinesMatch
BY DEF LineIInv, PiecesInv, BlankInv, Pieces, LinesMatch

\* The guards of the reader's steps.
ReaderMoves == \/ (Reading \/ at = "peek") /\ (Arrived \/ closed)
               \/ at = "recv" /\ (Len(buf) = Size - 1 \/ last = "LF")

\* Behind a line feed the reader waits for nothing before it has returned the line.
ReaderNeverWaits ==
    LineFeedLast => \/ ReaderMoves \/ at = "stop"
                    \/ at = "recv" /\ pos = Len(stream) /\ buf = << >>

\* What the reader waits for is a byte behind the last one, with that one in a line
\* that has not ended, or behind a carriage return.
LEMMA LinesMove == LineIInv => ReaderNeverWaits
<1> SUFFICES ASSUME LineIInv, LineFeedLast, ~ ReaderMoves, at # "stop",
                    ~ (at = "recv" /\ pos = Len(stream) /\ buf = << >>)
             PROVE  FALSE
  BY DEF ReaderNeverWaits
<1>1. PICK ends \in [0 .. Len(lines) -> 0 .. pos] : AtHand(ends[Len(lines)])
  BY DEF LineIInv, PiecesInv
<1>2. Len(lines) \in Nat
  BY LineTyped DEF LineIInv
<1>3. PICK e \in 0 .. pos : AtHand(e)
  BY <1>1, <1>2
<1>4. /\ pos \in Nat /\ Len(stream) \in Nat /\ pos <= Len(stream) /\ Len(buf) \in Nat
      /\ Len(buf) < Size /\ at \in {"recv", "peek"} /\ e \in Nat /\ Size \in Nat
  <2>1. at \in {"recv", "peek"}
    BY DEF LineIInv, LineTypeOK
  <2> QED BY <2>1, LineTyped, LineAssumption DEF LineIInv, LineAssumption
<1>5. stream[Len(stream)] = "LF"
  BY DEF LineFeedLast
<1>6. CASE at = "peek"
  <2>1. pos = Len(stream)
    BY <1>4, <1>6 DEF ReaderMoves, Arrived
  <2> QED BY <1>3, <1>5, <1>6, <2>1 DEF AtHand
<1>7. CASE at = "recv"
  <2>1. Len(buf) # Size - 1 /\ last # "LF"
    BY <1>7 DEF ReaderMoves
  <2>2. Reading
    BY <1>4, <1>7, <2>1 DEF Reading
  <2>3. pos = Len(stream)
    BY <1>4, <2>2 DEF ReaderMoves, Arrived
  <2>4. buf # << >> /\ pos = e + Len(buf) /\ Copies(Len(buf), buf, e)
    BY <1>3, <1>7, <2>1, <2>3 DEF AtHand
  <2>5. Len(buf) # 0
    <3>1. buf \in Line
      BY DEF LineIInv, LineTypeOK, Line
    <3> QED BY <2>4, <3>1 DEF Line
  <2>6. stream[e + Len(buf)] = "a"
    BY <1>4, <2>4, <2>5 DEF Copies
  <2> QED BY <1>5, <2>3, <2>4, <2>6
<1> QED BY <1>4, <1>6, <1>7

\* What the reader can do with what has arrived.
LineRank == CASE at = "stop" -> 0
              [] at = "recv" /\ buf = << >> -> IF last = "LF" THEN 1 ELSE 2
              [] at = "recv" /\ buf # << >> -> IF last = "LF" \/ Len(buf) = Size - 1 THEN 3 ELSE 4
              [] at = "peek" -> 5

LineWork == 6 * (Len(stream) - pos) + LineRank

\* Every step of the reader leaves less of it.
LEMMA LinesRunOut ==
    ASSUME LineIInv, LineIInv', [LineNext]_lineVars, Reader
    PROVE  LineWork \in Nat /\ LineWork' \in Nat /\ LineWork' < LineWork
<1>1. /\ pos \in Nat /\ Len(stream) \in Nat /\ pos <= Len(stream) /\ Len(buf) \in Nat
      /\ Len(buf) < Size /\ Size \in Nat /\ buf \in Line
  BY LineTyped, LineAssumption DEF LineIInv, LineAssumption
<1>2. LineRank \in 0 .. 5 /\ LineRank' \in 0 .. 5
  <2>1. at \in {"recv", "peek", "stop"} /\ at' \in {"recv", "peek", "stop"}
    BY DEF LineIInv, LineTypeOK
  <2> QED BY <2>1 DEF LineRank
<1>3. stream' = stream
  BY DEF Reader, RecvByte, RecvEnd, Peek, Return
<1>4. pos' \in {pos, pos + 1} /\ pos' <= Len(stream)
  <2>1. pos' \in 0 .. Len(stream')
    BY DEF LineIInv, LineTypeOK
  <2>2. pos' \in {pos, pos + 1}
    BY DEF Reader, RecvByte, RecvEnd, Peek, Return
  <2> QED BY <1>1, <1>3, <2>1, <2>2
<1>5. \A b \in {"a", "LF"} : Append(buf, b) # << >>
  <2> TAKE b \in {"a", "LF"}
  <2>1. Len(Append(buf, b)) = Len(buf) + 1
    BY <1>1 DEF Line
  <2>2. Len(<< >>) = 0
    OBVIOUS
  <2>3. Len(buf) + 1 # 0
    BY <1>1
  <2> QED BY <2>1, <2>2, <2>3
<1>6. CASE RecvByte
  <2>1. pos' = pos + 1 /\ at = "recv"
    BY <1>6 DEF RecvByte, Reading
  <2>2. LineRank >= 2
    BY <1>6 DEF RecvByte, Reading, LineRank
  <2>3. PICK s \in 0 .. 5 : s = LineRank'
    BY <1>2
  <2>4. LineWork' = 6 * (Len(stream) - (pos + 1)) + s
    BY <1>3, <2>1, <2>3 DEF LineWork
  <2>5. pos + 1 <= Len(stream)
    BY <1>4, <2>1
  <2> QED BY <1>1, <1>2, <2>2, <2>4, <2>5 DEF LineWork
<1>7. ASSUME pos' \in {pos, pos + 1}, LineRank' < LineRank
      PROVE  LineWork \in Nat /\ LineWork' \in Nat /\ LineWork' < LineWork
  <2>1. PICK s \in 0 .. 5 : s = LineRank'
    BY <1>2
  <2>2. PICK p \in Nat : p = pos' /\ p \in {pos, pos + 1} /\ p <= Len(stream)
    BY <1>1, <1>4
  <2>3. LineWork' = 6 * (Len(stream) - p) + s /\ s < LineRank
    BY <1>3, <1>7, <2>1, <2>2 DEF LineWork
  <2>4. p = pos \/ p = pos + 1
    BY <2>2
  <2>5. LineWork = 6 * (Len(stream) - pos) + LineRank
    BY DEF LineWork
  <2>6. CASE p = pos
    BY <1>1, <1>2, <2>2, <2>3, <2>5, <2>6
  <2>7. CASE p = pos + 1
    BY <1>1, <1>2, <2>2, <2>3, <2>5, <2>7
  <2> QED BY <2>4, <2>6, <2>7
<1>8. CASE RecvEnd
  <2>1. at = "recv" /\ last # "LF" /\ Len(buf) # Size - 1 /\ at' = at /\ buf' = buf /\ last' = "LF"
    BY <1>1, <1>8 DEF RecvEnd, Reading
  <2>2. LineRank' < LineRank
    <3>1. CASE buf = << >>
      BY <2>1, <3>1 DEF LineRank
    <3>2. CASE buf # << >>
      BY <2>1, <3>2 DEF LineRank
    <3> QED BY <3>1, <3>2
  <2> QED BY <1>4, <1>7, <2>2
<1>9. CASE Peek
  <2>1. at = "peek" /\ at' = "recv" /\ last' = "LF" /\ buf' # << >>
    BY <1>5, <1>9 DEF Peek, Store
  <2>2. LineRank = 5 /\ LineRank' = 3
    BY <2>1 DEF LineRank
  <2> QED BY <1>4, <1>7, <2>2
<1>10. CASE Return
  <2>1. at = "recv" /\ (Len(buf) = Size - 1 \/ last = "LF") /\ buf' = << >> /\ last' = ""
    BY <1>10 DEF Return
  <2>2. CASE buf = << >>
    <3>1. at' = "stop"
      BY <1>10, <2>2 DEF Return, Blank
    <3>2. LineRank' = 0 /\ LineRank \in {1, 2}
      BY <2>1, <2>2, <3>1 DEF LineRank
    <3> QED BY <1>4, <1>7, <3>2
  <2>3. CASE buf # << >>
    <3>1. LineRank = 3
      BY <2>1, <2>3 DEF LineRank
    <3>2. at' \in {"recv", "stop"}
      BY <1>10 DEF Return
    <3>3. LineRank' \in {0, 2}
      BY <2>1, <3>2 DEF LineRank
    <3> QED BY <1>4, <1>7, <3>1, <3>3
  <2> QED BY <2>2, <2>3
<1> QED BY <1>6, <1>8, <1>9, <1>10 DEF Reader

-----------------------------------------------------------------------------
(* The framed transfers. *)

\* The cells sent are those of the calls made, but for what strlen adds to them
\* in 4.7, and for the calls that met the end of the client.
SentInv == /\ out <= calls + Extra
           /\ variant # "fixed" => out <= calls
           /\ variant = "length" => calls \in {0, Total}
           /\ (variant # "fixed" /\ Connected) => out = calls
           /\ srv \notin {"accept", "send"} /\ Up => calls = Total

\* The client is heard to end only when it has, and the server's direction ends
\* before that only in 4.6, behind the last cell, or when the server is killed.
EndsInv == /\ Connected => back = "open"
           /\ srv = "send" \/ srv = "shutdown" => outEnd = "open"
           /\ srv = "shutdown" => variant = "close"
           /\ (Connected /\ outEnd # "open") => srv = "killed" \/ variant = "close"
           /\ (Connected /\ outEnd = "rst") => srv = "killed"
           /\ (Connected /\ outEnd # "open" /\ srv # "killed") => calls = Total
           /\ (Connected /\ srv \notin {"send", "shutdown", "recv"}) => srv = "killed"
           /\ cli = "failed" => srv = "killed"

\* What the client still expects, as long as its server lives.
LeftInv == srv # "killed" =>
              /\ cli = "header" => variant = "length" /\ got = 0
              /\ cli \in {"loop", "last"} => variant # "close" /\ got + left = Total
              /\ cli = "last" => left \in 1 .. Buf
              /\ cli = "drain" => variant = "close"

\* A client whose end makes the server fail.
Cause == \/ cli = "killed"
         \/ cli = "done" /\ variant = "fixed"
         \/ cli = "done" /\ variant = "length" /\ got < Total

ResetInv == Up => /\ back = "rst" => Cause
                  /\ (srv = "send" /\ calls < Total /\ back # "open") => Cause

\* Neither program waits for what the other has done or will not do: every call
\* put a cell into the stream, 4.6 has ended it where it listens, and a server
\* without its client sees the connection end.
PairInv == /\ Connected => calls <= out
           /\ (variant = "close" /\ srv = "recv" /\ Connected) => outEnd # "open"
           /\ (srv \in {"send", "shutdown", "recv"} /\ ~ Connected) => back # "open"

FramesIInv == /\ FramesTypeOK /\ SentInv /\ EndsInv /\ LeftInv /\ ReceivedEnough /\ FailsOnlyFor
              /\ ResetInv /\ PairInv

-----------------------------------------------------------------------------
(* The parts of that invariant, one after the other.  The steps named      *)
(* first change nothing the part depends on but itself.                    *)

\* The types.
LEMMA TypeKept == ASSUME FramesIInv, [FramesNext]_framesVars PROVE FramesTypeOK'
<1>1. FramesTypeOK /\ SentInv
  BY DEF FramesIInv
<1>2. CASE \/ SendDone \/ Shutdown \/ Recv \/ RecvEnds \/ Ask \/ LoopDone \/ TellKills
           \/ FramesLeave \/ KillClient \/ KillServer
  BY <1>1, <1>2 DEF SendDone, Shutdown, Recv, RecvEnds, Ask, LoopDone, TellKills,
       Closes, Up, FramesLeave, KillClient, KillServer, FramesTypeOK, Connected
<1>3. CASE FramesAccept
  BY <1>1, <1>3, FramesAssumption DEF FramesAccept, Connected, FramesAssumption, FramesTypeOK, Up
<1>4. CASE Send
  BY <1>1, <1>4, FramesAssumption DEF Send, Sent, FramesAssumption, FramesTypeOK, SentInv,
       Up, Connected
<1>5. CASE Header
  BY <1>1, <1>5, FramesAssumption DEF Header, FramesAssumption, FramesTypeOK, Up, Connected
<1>6. CASE Loop
  BY <1>1, <1>6, FramesAssumption DEF Loop, Gets, RecvFails, FramesAssumption, FramesTypeOK, Up,
       Connected
<1>7. CASE LastRecv
  BY <1>1, <1>7, FramesAssumption DEF LastRecv, Gets, AtEnd, RecvFails, FramesAssumption,
       FramesTypeOK, Up, Connected
<1>8. CASE Drain
  BY <1>1, <1>8, FramesAssumption DEF Drain, Gets, AtEnd, RecvFails, FramesAssumption,
       FramesTypeOK, Up, Connected
<1>9. CASE Tell
  BY <1>1, <1>9, FramesAssumption DEF Tell, FramesAssumption, FramesTypeOK, Up, Connected
<1>10. CASE UNCHANGED framesVars
  BY <1>1, <1>10 DEF framesVars, FramesTypeOK, Up, Connected
<1> QED BY <1>2, <1>3, <1>4, <1>5, <1>6, <1>7, <1>8, <1>9, <1>10 DEF FramesNext, FramesServer,
           FramesClient

\* The count of what was sent: only Send moves it, and SendDone ends it.
LEMMA SentKept == ASSUME FramesIInv, [FramesNext]_framesVars PROVE SentInv'
<1>1. FramesTypeOK /\ SentInv /\ EndsInv
  BY DEF FramesIInv
<1>2. CASE \/ SendDone \/ Shutdown \/ Recv \/ RecvEnds \/ Ask \/ Header \/ Loop
           \/ LoopDone \/ LastRecv \/ Drain \/ Tell \/ TellKills \/ FramesLeave
           \/ KillClient \/ KillServer
  BY <1>1, <1>2 DEF SendDone, Shutdown, Recv, RecvEnds, Ask, Header, Loop, Gets,
       RecvFails, LoopDone, LastRecv, AtEnd, Drain, Tell, TellKills, Closes, Up, FramesLeave,
       KillClient, KillServer, SentInv, Connected
<1>3. CASE FramesAccept
  BY <1>1, <1>3, FramesAssumption DEF FramesAccept, Connected, FramesAssumption, FramesTypeOK,
       SentInv, Up
<1>4. CASE Send
  BY <1>1, <1>4, FramesAssumption DEF Send, Sent, FramesAssumption, FramesTypeOK, SentInv,
       EndsInv, Up, Connected
<1>5. CASE UNCHANGED framesVars
  BY <1>1, <1>5 DEF framesVars, SentInv, Up, Connected
<1> QED BY <1>2, <1>3, <1>4, <1>5 DEF FramesNext, FramesServer, FramesClient

\* Which end is closed: by the client's end, by 4.6's shutdown, or by a killed server.
LEMMA EndsKept == ASSUME FramesIInv, [FramesNext]_framesVars PROVE EndsInv'
<1>1. FramesTypeOK /\ SentInv /\ EndsInv
  BY DEF FramesIInv
<1>2. CASE \/ Send \/ SendDone \/ Recv \/ RecvEnds \/ Ask \/ Header \/ Loop
           \/ LoopDone \/ LastRecv \/ Drain \/ Tell \/ TellKills \/ FramesLeave
           \/ KillClient \/ KillServer
  BY <1>1, <1>2 DEF Send, Sent, SendDone, Recv, RecvEnds, Ask, Header, Loop, Gets,
       RecvFails, LoopDone, LastRecv, AtEnd, Drain, Tell, TellKills, Closes, Up, FramesLeave,
       KillClient, KillServer, EndsInv, Connected
<1>3. CASE FramesAccept
  BY <1>1, <1>3, FramesAssumption DEF FramesAccept, Connected, FramesAssumption, FramesTypeOK,
       EndsInv, Up
<1>4. CASE Shutdown
  BY <1>1, <1>4, FramesAssumption DEF Shutdown, FramesAssumption, FramesTypeOK, EndsInv,
       SentInv, Up, Connected
<1>5. CASE UNCHANGED framesVars
  BY <1>1, <1>5 DEF framesVars, EndsInv, Connected
<1> QED BY <1>2, <1>3, <1>4, <1>5 DEF FramesNext, FramesServer, FramesClient

\* What the client still expects: each recv takes from leftlen what it adds to the data.
LEMMA LeftKept == ASSUME FramesIInv, [FramesNext]_framesVars PROVE LeftInv'
<1>1. FramesTypeOK /\ EndsInv /\ LeftInv
  BY DEF FramesIInv
<1>2. CASE \/ Send \/ SendDone \/ Shutdown \/ Recv \/ RecvEnds \/ Ask \/ LastRecv
           \/ Drain \/ Tell \/ TellKills \/ FramesLeave \/ KillClient \/ KillServer
  BY <1>1, <1>2 DEF Send, Sent, SendDone, Shutdown, Recv, RecvEnds, Ask, LastRecv,
       Gets, AtEnd, RecvFails, Drain, Tell, TellKills, Closes, Up, FramesLeave, KillClient,
       KillServer, LeftInv
<1>3. CASE FramesAccept
  BY <1>1, <1>3, FramesAssumption DEF FramesAccept, Connected, FramesAssumption, FramesTypeOK,
       LeftInv, Up
<1>4. CASE Header
  <2>1. cli' = "loop" /\ got' = got /\ variant' = variant /\ srv' = srv
    BY <1>4 DEF Header
  <2>2. srv # "killed" => variant = "length" /\ got = 0
    BY <1>1, <1>4 DEF Header, LeftInv
  <2>3. srv # "killed" => out > 0
    BY <2>2, <1>1, <1>4 DEF Header, EndsInv, Connected
  <2>4. srv # "killed" => left' = Total
    BY <2>3, <1>4 DEF Header
  <2> QED BY <2>1, <2>2, <2>4, FramesAssumption DEF LeftInv, FramesAssumption
<1>5. CASE Loop
  BY <1>1, <1>5, FramesAssumption DEF Loop, Gets, RecvFails, FramesAssumption, FramesTypeOK,
       LeftInv, Up, Connected
<1>6. CASE LoopDone
  BY <1>1, <1>6, FramesAssumption DEF LoopDone, FramesAssumption, FramesTypeOK, LeftInv, Up,
       Connected
<1>7. CASE UNCHANGED framesVars
  BY <1>1, <1>7 DEF framesVars, LeftInv
<1> QED BY <1>2, <1>3, <1>4, <1>5, <1>6, <1>7 DEF FramesNext, FramesServer, FramesClient

\* What a client has when it goes on to answer.
LEMMA EnoughKept == ASSUME FramesIInv, [FramesNext]_framesVars PROVE ReceivedEnough'
<1>1. FramesTypeOK /\ SentInv /\ EndsInv /\ LeftInv /\ ReceivedEnough
  BY DEF FramesIInv
<1>2. CASE \/ Send \/ SendDone \/ Shutdown \/ Recv \/ RecvEnds \/ Ask \/ Header
           \/ Loop \/ Tell \/ TellKills \/ FramesLeave \/ KillClient \/ KillServer
  BY <1>1, <1>2 DEF Send, Sent, SendDone, Shutdown, Recv, RecvEnds, Ask, Header, Loop,
       Gets, RecvFails, Tell, TellKills, Closes, Up, FramesLeave, KillClient, KillServer,
       ReceivedEnough, Finished
<1>3. CASE FramesAccept
  BY <1>1, <1>3, FramesAssumption DEF FramesAccept, Connected, FramesAssumption, FramesTypeOK,
       ReceivedEnough, Up, Finished
<1>4. CASE LoopDone
  BY <1>1, <1>4, FramesAssumption DEF LoopDone, FramesAssumption, FramesTypeOK,
       ReceivedEnough, LeftInv, Up, Connected, Finished
<1>5. CASE LastRecv
  BY <1>1, <1>5, FramesAssumption DEF LastRecv, Gets, AtEnd, RecvFails, FramesAssumption,
       FramesTypeOK, ReceivedEnough, EndsInv, LeftInv, Up, Connected, Finished
<1>6. CASE Drain
  BY <1>1, <1>6, FramesAssumption DEF Drain, Gets, AtEnd, RecvFails, FramesAssumption,
       FramesTypeOK, ReceivedEnough, SentInv, EndsInv, Up, Connected, Finished
<1>7. CASE UNCHANGED framesVars
  BY <1>1, <1>7 DEF framesVars, ReceivedEnough, Finished
<1> QED BY <1>2, <1>3, <1>4, <1>5, <1>6, <1>7 DEF FramesNext, FramesServer, FramesClient

\* A server that failed keeps its cause, since no client is taken on any more.
LEMMA CausesKept == ASSUME FramesIInv, [FramesNext]_framesVars PROVE FailsOnlyFor'
<1>1. FramesTypeOK /\ FailsOnlyFor /\ ResetInv
  BY DEF FramesIInv
<1>2. CASE \/ FramesAccept \/ SendDone \/ Recv \/ Ask \/ Header \/ Loop \/ LoopDone
           \/ LastRecv \/ Drain \/ Tell \/ TellKills \/ FramesLeave \/ KillClient
           \/ KillServer
  BY <1>1, <1>2 DEF FramesAccept, Connected, SendDone, Recv, Ask, Header, Loop, Gets, RecvFails,
       LoopDone, LastRecv, AtEnd, Drain, Tell, TellKills, Closes, Up, FramesLeave,
       KillClient, KillServer, FailsOnlyFor, Cause
<1>3. CASE Send
  BY <1>1, <1>3, FramesAssumption DEF Send, Sent, FramesAssumption, FramesTypeOK,
       FailsOnlyFor, ResetInv, Up, Connected, Cause
<1>4. CASE Shutdown
  BY <1>1, <1>4, FramesAssumption DEF Shutdown, FramesAssumption, FramesTypeOK,
       FailsOnlyFor, ResetInv, Up, Connected, Cause
<1>5. CASE RecvEnds
  BY <1>1, <1>5, FramesAssumption DEF RecvEnds, FramesAssumption, FramesTypeOK,
       FailsOnlyFor, ResetInv, Up, Connected, Cause
<1>6. CASE UNCHANGED framesVars
  BY <1>1, <1>6 DEF framesVars, FailsOnlyFor, Cause
<1> QED BY <1>2, <1>3, <1>4, <1>5, <1>6 DEF FramesNext, FramesServer, FramesClient

\* A client's end leaves the cause with the connection.
LEMMA ResetKept == ASSUME FramesIInv, [FramesNext]_framesVars PROVE ResetInv'
<1>1. FramesTypeOK /\ SentInv /\ ReceivedEnough /\ ResetInv
  BY DEF FramesIInv
<1>2. CASE \/ FramesAccept \/ Send \/ SendDone \/ Shutdown \/ Recv \/ RecvEnds \/ Ask
           \/ Header \/ Loop \/ LoopDone \/ LastRecv \/ Drain \/ Tell \/ TellKills
           \/ KillClient \/ KillServer
  BY <1>1, <1>2 DEF FramesAccept, Connected, Send, Sent, SendDone, Shutdown, Recv, RecvEnds,
       Ask, Header, Loop, Gets, RecvFails, LoopDone, LastRecv, AtEnd, Drain, Tell,
       TellKills, Closes, Up, KillClient, KillServer, ResetInv, Cause
<1>3. CASE FramesLeave
  BY <1>1, <1>3, FramesAssumption DEF FramesLeave, Closes, Up, FramesAssumption, FramesTypeOK,
       ResetInv, SentInv, ReceivedEnough, Connected, Cause, Finished
<1>4. CASE UNCHANGED framesVars
  BY <1>1, <1>4 DEF framesVars, ResetInv, Up, Cause
<1> QED BY <1>2, <1>3, <1>4 DEF FramesNext, FramesServer, FramesClient

\* No data have been sent yet.
LEMMA FramesStart == FramesInit => FramesIInv
BY FramesAssumption DEF FramesInit, FramesIInv, FramesTypeOK, SentInv, EndsInv, LeftInv,
   ReceivedEnough, FailsOnlyFor, ResetInv, PairInv, Up, Connected, Finished, FramesAssumption

\* What one program relies on of the other.
LEMMA PairKept == ASSUME FramesIInv, [FramesNext]_framesVars PROVE PairInv'
<1> USE FramesAssumption DEF FramesAssumption
<1>1. FramesTypeOK /\ SentInv /\ EndsInv /\ LeftInv /\ PairInv
  BY DEF FramesIInv
<1>2. CASE FramesAccept
  <2>1. cli' \in {"drain", "loop", "header"} /\ calls' = 0 /\ out' = 0 /\ srv' = "send"
    BY <1>1, <1>2 DEF FramesAccept, FramesTypeOK
  <2> QED BY <2>1 DEF PairInv, Connected
<1>3. CASE Send
  BY <1>1, <1>3 DEF Send, Sent, PairInv, EndsInv, SentInv, FramesTypeOK, Connected
<1>4. CASE SendDone \/ Shutdown \/ Recv \/ RecvEnds \/ Ask \/ KillServer
  BY <1>1, <1>4 DEF SendDone, Shutdown, Recv, RecvEnds, Ask, KillServer, PairInv, Connected
<1>5. CASE Header \/ Loop \/ LoopDone \/ LastRecv \/ Drain \/ Tell
  BY <1>1, <1>5 DEF Header, Loop, LoopDone, LastRecv, Drain, Tell, RecvFails, AtEnd, PairInv,
                    EndsInv, Connected
<1>6. CASE TellKills \/ FramesLeave \/ KillClient
  BY <1>1, <1>6 DEF TellKills, FramesLeave, KillClient, Closes, PairInv, Connected
<1>7. CASE UNCHANGED framesVars
  BY <1>1, <1>7 DEF framesVars, PairInv, Connected
<1> QED BY <1>2, <1>3, <1>4, <1>5, <1>6, <1>7 DEF FramesNext, FramesServer, FramesClient

\* The invariant of the framed transfers.
LEMMA FramesKept == FramesIInv /\ [FramesNext]_framesVars => FramesIInv'
BY TypeKept, SentKept, EndsKept, LeftKept, EnoughKept, CausesKept, ResetKept, PairKept
   DEF FramesIInv

-----------------------------------------------------------------------------
(* Why a transfer ends: somebody can always go on, and nobody goes on for  *)
(* ever.                                                                   *)

\* The guards of the server's and of the client's next steps with each other.
ServerMoves == \/ srv \in {"send", "shutdown", "ask"}
               \/ srv = "recv" /\ (heard < told \/ back # "open")

Readable == got < out \/ outEnd = "rst"

ClientMoves == \/ cli = "header" /\ (out > 0 \/ outEnd # "open")
               \/ cli = "loop" /\ (left <= Buf \/ Readable)
               \/ cli \in {"last", "drain"} /\ (Readable \/ outEnd = "fin")
               \/ cli = "tell"

\* Unless the server is killed, no client and server wait for each other, however
\* the end of the data is told.
NeitherWaits ==
    Total > 0 /\ srv # "killed" /\ (Connected \/ srv \in {"send", "shutdown", "recv"})
        => ServerMoves \/ ClientMoves

\* It follows from the counts: where the client has read all that came, the server
\* still sends, or has sent all that the client waits for.
LEMMA FramesMove == FramesIInv => NeitherWaits
<1> SUFFICES ASSUME FramesIInv, Total > 0, srv # "killed", ~ ServerMoves, ~ ClientMoves,
                    Connected \/ srv \in {"send", "shutdown", "recv"}
             PROVE  FALSE
  BY DEF NeitherWaits
<1>1. FramesTypeOK /\ SentInv /\ EndsInv /\ LeftInv /\ PairInv
  BY DEF FramesIInv
<1>2. srv = "recv" /\ back = "open" /\ Connected
  BY <1>1 DEF ServerMoves, EndsInv, PairInv
<1>3. calls = Total /\ Total <= out
  BY <1>1, <1>2 DEF SentInv, PairInv, Up
<1>4. got <= out /\ got \in Nat /\ out \in Nat /\ left \in Nat
  BY <1>1, FramesAssumption DEF FramesTypeOK, FramesAssumption
<1>5. cli # "header"
  BY <1>3, <1>4, FramesAssumption DEF ClientMoves, FramesAssumption
<1>6. cli \notin {"loop", "last"}
  <2>1. cli \in {"loop", "last"} => got + left = Total /\ left > 0 /\ got = out
    BY <1>1, <1>2, <1>4, FramesAssumption DEF LeftInv, ClientMoves, Readable, FramesAssumption
  <2> QED BY <1>3, <1>4, <2>1, FramesAssumption DEF FramesAssumption
<1>7. cli # "drain"
  BY <1>1, <1>2, <1>4 DEF LeftInv, PairInv, FramesTypeOK, ClientMoves, Readable
<1> QED BY <1>2, <1>5, <1>6, <1>7 DEF Connected, ClientMoves

\* What is left to do for the client at hand.
SrvRank == CASE srv = "send" -> 5 [] srv = "shutdown" -> 4 [] srv = "recv" -> 3
             [] srv = "ask" -> 2 [] srv = "accept" -> 1 [] OTHER -> 0
CliRank == CASE cli = "header" -> 4 [] cli = "loop" -> 3 [] cli \in {"last", "drain"} -> 2
             [] cli = "tell" -> 1 [] OTHER -> 0

FramesWork == SrvRank + CliRank + (Total - calls) + (Total + Extra - got)
              + (Answers - told) + (Answers - heard)

\* Every step but the next accept leaves less of it.
LEMMA FramesRunOut ==
    ASSUME FramesIInv, FramesIInv', FramesNext, ~ FramesAccept
    PROVE  FramesWork \in Nat /\ FramesWork' \in Nat /\ FramesWork' < FramesWork
<1> USE FramesAssumption DEF FramesAssumption
<1>1. FramesTypeOK /\ FramesTypeOK' /\ SentInv /\ EndsInv
  BY DEF FramesIInv
<1>2. /\ calls \in 0 .. Total /\ got \in 0 .. Total + Extra /\ told \in 0 .. Answers
      /\ heard \in 0 .. Answers /\ SrvRank \in 0 .. 5 /\ CliRank \in 0 .. 4
  BY <1>1 DEF FramesTypeOK, SrvRank, CliRank
<1>3. /\ calls' \in 0 .. Total /\ got' \in 0 .. Total + Extra /\ told' \in 0 .. Answers
      /\ heard' \in 0 .. Answers /\ SrvRank' \in 0 .. 5 /\ CliRank' \in 0 .. 4
  BY <1>1 DEF FramesTypeOK, SrvRank, CliRank
<1>4. /\ calls <= calls' /\ got <= got' /\ told <= told' /\ heard <= heard'
      /\ SrvRank' <= SrvRank /\ CliRank' <= CliRank
      /\ \/ calls < calls' \/ got < got' \/ told < told' \/ heard < heard'
         \/ SrvRank' < SrvRank \/ CliRank' < CliRank
  <2>1. CASE Send
    BY <1>2, <2>1 DEF Send, SrvRank, CliRank
  <2>2. CASE SendDone \/ Shutdown \/ RecvEnds \/ Ask \/ KillServer
    <3>1. UNCHANGED <<calls, got, told, heard, cli>>
      BY <2>2 DEF SendDone, Shutdown, RecvEnds, Ask, KillServer
    <3>2. SrvRank' < SrvRank
      <4>1. CASE SendDone \/ Shutdown \/ RecvEnds
        BY <4>1 DEF SendDone, Shutdown, RecvEnds, SrvRank
      <4>2. CASE Ask
        BY <4>2 DEF Ask, SrvRank
      <4>3. CASE KillServer
        BY <4>3 DEF KillServer, Up, SrvRank
      <4> QED BY <2>2, <4>1, <4>2, <4>3
    <3> QED BY <1>2, <1>3, <3>1, <3>2 DEF CliRank
  <2>3. CASE Recv
    BY <1>1, <1>2, <2>3 DEF Recv, FramesTypeOK, SrvRank, CliRank
  <2>4. CASE Header \/ LoopDone \/ TellKills \/ FramesLeave \/ KillClient
    BY <1>2, <2>4 DEF Header, LoopDone, TellKills, FramesLeave, KillClient, Connected, SrvRank,
                      CliRank
  <2>5. CASE Loop \/ LastRecv \/ Drain
    BY <1>2, <2>5 DEF Loop, LastRecv, Drain, Gets, AtEnd, RecvFails, SrvRank, CliRank
  <2>6. CASE Tell
    BY <1>2, <2>6 DEF Tell, SrvRank, CliRank
  <2> QED BY <2>1, <2>2, <2>3, <2>4, <2>5, <2>6 DEF FramesNext, FramesServer, FramesClient
<1>5. PICK s \in 0 .. 5, c \in 0 .. 4, n \in 0 .. Total, g \in 0 .. Total + Extra,
           t \in 0 .. Answers, h \in 0 .. Answers :
         /\ s = SrvRank' /\ c = CliRank' /\ n = calls' /\ g = got' /\ t = told'
         /\ h = heard'
  BY <1>3
<1>6. FramesWork' = s + c + (Total - n) + (Total + Extra - g) + (Answers - t) + (Answers - h)
  BY <1>5 DEF FramesWork
<1>7. /\ calls <= n /\ got <= g /\ told <= t /\ heard <= h /\ s <= SrvRank /\ c <= CliRank
      /\ \/ calls < n \/ got < g \/ told < t \/ heard < h \/ s < SrvRank \/ c < CliRank
  BY <1>4, <1>5
<1>8. FramesWork \in Nat
  BY <1>2 DEF FramesWork
<1>9. FramesWork' \in Nat
  BY <1>6
<1>10. FramesWork' < FramesWork
  BY <1>2, <1>6, <1>7 DEF FramesWork
<1> QED BY <1>8, <1>9, <1>10

-----------------------------------------------------------------------------
(* All of them.  Each program has its own variables, so that the invariant *)
(* of each is that of the program that runs, and of those that do not.     *)

IInv == HttpIInv /\ LineIInv /\ FramesIInv

\* A step of one program is no step of the others.
LEMMA StepsApart ==
    [Next]_vars => [HttpNext]_httpVars /\ [LineNext]_lineVars /\ [FramesNext]_framesVars
BY DEF Next, vars, HttpRuns, LineRuns, FramesRuns

\* The invariant of all the programs.
THEOREM Inductive == Spec => []IInv
<1>1. Init => IInv
  BY HttpStarts, LineStarts, FramesStart DEF Init, IInv
<1>2. IInv /\ [Next]_vars => IInv'
  BY StepsApart, HttpKept, LineKept, FramesKept DEF IInv
<1> QED BY <1>1, <1>2, PTL DEF Spec

\* Every variable of every program has its type: nobody reads more than was
\* sent, no pipe holds more than it can, no line outgrows the caller's buffer,
\* and leftlen stays between 0 and the length.
THEOREM TypesCorrect == Spec => []TypeOK
<1>1. IInv => TypeOK
  BY HttpTyped DEF IInv, LineIInv, FramesIInv, TypeOK
<1> QED BY <1>1, Inductive, PTL

\* Whatever the threads, pipes and scripts of the other connections do, a client
\* of the HTTP server that stays gets the whole reply its request calls for, and
\* nothing else.
THEOREM RepliesAreDue == Spec => []ReplyFits
<1>1. IInv => ReplyFits
  BY HttpReplies DEF IInv
<1> QED BY <1>1, Inductive, PTL

\* A script reads the body of its own request, in order, and only repeats a byte
\* where its client left before it had sent all of it.
THEOREM BodyIsOwn == Spec => []BodyReachesScript
<1>1. IInv => BodyReachesScript
  BY HttpFeeds DEF IInv
<1> QED BY <1>1, Inductive, PTL

\* Without failures every copy of a connection's and a pipe's descriptor that a
\* fork made is gone when the threads and scripts are through.
THEOREM NothingStaysOpen == Spec => []NothingLeaks
<1>1. IInv => NothingLeaks
  BY HttpCloses DEF IInv
<1> QED BY <1>1, Inductive, PTL

\* A connection is reset over unread input only for a request that is refused,
\* or for a body that is not read to its end.
THEOREM CutsHaveCauses == Spec => []CutOnlyFor
<1>1. IInv => CutOnlyFor
  BY DEF IInv, HttpIInv
<1> QED BY <1>1, Inductive, PTL

\* The HTTP server goes down only for a client that left, a failed accept, a file
\* it could not open, or a script that ended before its input.
THEOREM StopsHaveCauses == Spec => []StopsOnlyFor
<1>1. IInv => StopsOnlyFor
  BY DEF IInv, HttpIInv
<1> QED BY <1>1, Inductive, PTL

\* No connection of the HTTP server is ever stuck: its thread or its script can go
\* on, unless its client keeps it waiting, or a script of another connection that
\* inherited its pipe, and which goes on itself or is kept waiting by its client.
THEOREM RepliesGoOn == Spec => []NobodyIsStuck
<1>1. IInv => NobodyIsStuck
  BY ThreadsGoOn DEF IInv
<1> QED BY <1>1, Inductive, PTL

\* And no connection goes on for ever: each step of main, the thread or the script
\* for it leaves less to do for it, and as much as before for the others.  The two
\* are the core of EveryReplyEnds.
THEOREM RepliesRunOut == Spec => [][StepsRunOut]_httpVars
<1>1. IInv /\ IInv' /\ [Next]_vars => [StepsRunOut]_httpVars
  BY HttpRunsOut, StepsApart DEF IInv
<1> QED BY <1>1, Inductive, PTL DEF Spec

\* However the bytes of a request arrive, and wherever the client closes, the
\* lines get_line returned are the pieces of the input one after the other, each
\* ended by CR, LF or CRLF, by the buffer or by the end of the input, and none is
\* returned behind a blank one.
THEOREM InputIsCut == Spec => []LinesMatch
<1>1. IInv => LinesMatch
  BY LinesAreCut DEF IInv
<1> QED BY <1>1, Inductive, PTL

\* A line that has arrived with its line feed is returned without waiting for a
\* byte behind it: the byte get_line peeks at after a carriage return is there.
THEOREM LinesGoOn == Spec => []ReaderNeverWaits
<1>1. IInv => ReaderNeverWaits
  BY LinesMove DEF IInv
<1> QED BY <1>1, Inductive, PTL

\* And the reader makes only so many steps with what has arrived.  The two are the
\* core of LineComesThrough.
THEOREM ReaderRunsOut ==
    Spec => [][Reader => LineWork' \in Nat /\ LineWork' < LineWork]_lineVars
<1>1. IInv /\ IInv' /\ [Next]_vars
         => [Reader => LineWork' \in Nat /\ LineWork' < LineWork]_lineVars
  BY LinesRunOut, StepsApart DEF IInv
<1> QED BY <1>1, Inductive, PTL DEF Spec

\* A client of ch04 that goes on to answer has all the data where it waits for
\* the end of the stream, and all but less than a buffer where it counts.
THEOREM EnoughIsReceived == Spec => []ReceivedEnough
<1>1. IInv => ReceivedEnough
  BY DEF IInv, FramesIInv
<1> QED BY <1>1, Inductive, PTL

\* A server of ch04 fails, or is killed by SIGPIPE, only for a client that was
\* killed or that left before the server was through.
THEOREM FailuresHaveCauses == Spec => []FailsOnlyFor
<1>1. IInv => FailsOnlyFor
  BY DEF IInv, FramesIInv
<1> QED BY <1>1, Inductive, PTL

\* While its server lives, a client of ch04 and the server never wait for each
\* other: the core of TransferEnds.
THEOREM TransferGoesOn == Spec => []NeitherWaits
<1>1. IInv => NeitherWaits
  BY FramesMove DEF IInv
<1> QED BY <1>1, Inductive, PTL

\* And no transfer goes on for ever: every step of a client, of the server, or of
\* who kills them leaves less to do until the next client is accepted.
THEOREM TransferRunsOut ==
    Spec => [][(FramesNext /\ ~ FramesAccept) =>
                  FramesWork' \in Nat /\ FramesWork' < FramesWork]_framesVars
<1>1. IInv /\ IInv' /\ [Next]_vars
         => [(FramesNext /\ ~ FramesAccept) =>
                FramesWork' \in Nat /\ FramesWork' < FramesWork]_framesVars
  BY FramesRunOut DEF IInv
<1> QED BY <1>1, Inductive, PTL DEF Spec
===============================================================================
