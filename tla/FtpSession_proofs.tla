--------------------------- MODULE FtpSession_proofs ---------------------------
(***************************************************************************)
(* Theorems about an FTP session and its data connections, for files and   *)
(* buffers of any size and any number of commands.                         *)
(***************************************************************************)
EXTENDS FtpSession, TLAPS

Cells == 0 .. MaxCells
Ports == {"none", "listening", "refusing"}

\* The handlers' records.
Record == [bev : {"none", "connecting", "open"}, to : Ports,
           out : Seq(Cells), wire : Seq(Cells), fp : BOOLEAN, len : Cells, pos : Cells,
           buf : [1 .. BufCells -> Cells], peer : {"open", "closed", "reset"},
           up : Cells, sock : Cells, ebuf : Cells, written : Cells, kept : Cells,
           told : {"none", "owed", "226"}, stray : BOOLEAN, mixed : BOOLEAN,
           lost : Nat, due : Nat, over : Nat]

\* Of the cells the client has sent, those the server knows of are accounted
\* for, and only STOR has any.
CountsInv(h, r) == /\ r.pos <= r.len
                   /\ r.written + r.sock + r.ebuf <= r.up
                   /\ h # "STOR" => r.written = 0

\* While a connection exists its command is open, so that whatever ends it may
\* send a 226; and the file goes with the connection, what was written to it on
\* disk, but for one that fp was taken from.
RepliesInv(r) == /\ ~ r.stray
                 /\ r.bev # "none" => r.told = "owed"
                 /\ r.told = "owed" => r.due > 0
                 /\ r.fp => r.bev # "none"
                 /\ ~ r.fp /\ r.lost = 0 => r.kept = r.written

\* The cells on the socket and those that wait behind them: that there are n,
\* and that the first n are those of the file, in order.
Spans(wire, out, n) == n = Len(wire) + Len(out)
Begins(wire, n)  == n <= Len(wire) /\ \A i \in 1 .. n : wire[i] = i
InOrder(wire, out, n) == /\ n <= Len(wire) + Len(out)
                         /\ \A i \in 1 .. n : i <= Len(wire) => wire[i] = i
                         /\ \A i \in 1 .. n : i > Len(wire) => out[i - Len(wire)] = i

\* What has been read of the file is on its way in order; more than that is
\* only there behind the last, short read.
DownloadInv(r) ==
    ~ r.mixed => /\ r.bev # "none" => r.fp
                 /\ r.fp => /\ InOrder(r.wire, r.out, r.pos)
                            /\ r.pos = r.len \/ Spans(r.wire, r.out, r.pos)
                 /\ r.told = "226" => Begins(r.wire, r.len)

\* What the client sent is in the file, in the input or still on the socket.
UploadInv(r) ==
    /\ r.bev = "connecting" => r.up = 0
    /\ ~ r.mixed => /\ r.bev # "none" => r.fp
                    /\ (r.bev # "none" /\ r.peer # "reset") => r.written + r.sock + r.ebuf = r.up
                    /\ (r.told = "226" /\ r.peer = "closed") => r.kept = r.up

\* Nothing waits in the input of a handler that has a file.
DrainedInv(r) == r.fp => r.ebuf = 0

\* The replies of a STOR: one is due while it runs, and one for each of those it
\* came over.
ConcludedInv(r) == /\ r.bev = "none" => r.told # "owed"
                   /\ r.due = r.over + (IF r.bev = "none" THEN 0 ELSE 1)

HandlerInv(h, r) == /\ r \in Record
                    /\ CountsInv(h, r)
                    /\ RepliesInv(r)
                    /\ h = "RETR" => DownloadInv(r)
                    /\ h = "STOR" => UploadInv(r) /\ DrainedInv(r)

SessionInv == /\ ctl \in {"open", "closing", "gone"}
              /\ cmd \in Handlers \union {"SIMPLE", "PORT", ""}
              /\ sent \in 0 .. MaxCmds
              /\ port \in Ports
              /\ crash \in BOOLEAN

HandlersInv == /\ hd \in [Handlers -> Record]
               /\ \A h \in Handlers : HandlerInv(h, hd[h])

UploadsInv == Up => ConcludedInv(hd["STOR"])

IInv == SessionInv /\ HandlersInv /\ SessionEndReleasesAll /\ UploadsInv

\* What a step does to the files: fp is overwritten by a command of its handler only.
FilesStep == \A h \in Handlers : hd'[h].lost > hd[h].lost => cmd = h /\ hd[h].fp

-----------------------------------------------------------------------------
(* The helpers of XFtpTask and the callbacks, one record at a time. *)

\* What the provers need to know of cells.
LEMMA CellsFacts == /\ 0 \in Cells /\ 1 \in Cells /\ Cells \subseteq Nat /\ << >> \in Seq(Cells)
                    /\ \A n \in Cells : n \in Nat /\ n <= MaxCells
                    /\ \A n \in Nat : n <= MaxCells => n \in Cells
BY SessionAssumption DEF Cells

\* ClosePORT drops the connection, its queues and the file, and nothing else.
LEMMA ClosePORTFields ==
    ASSUME NEW r \in Record, NEW q, q = ClosePORT(r)
    PROVE  /\ q \in Record
           /\ q.bev = "none" /\ q.out = << >> /\ q.sock = 0 /\ q.ebuf = 0 /\ ~ q.fp
           /\ q.kept = IF r.fp THEN r.written ELSE r.kept
           /\ q.wire = r.wire /\ q.len = r.len /\ q.pos = r.pos /\ q.peer = r.peer /\ q.up = r.up
           /\ q.written = r.written /\ q.told = r.told /\ q.stray = r.stray /\ q.mixed = r.mixed
           /\ q.lost = r.lost /\ q.due = r.due /\ q.over = r.over
<1>1. q \in Record
  BY CellsFacts DEF ClosePORT, Record
<1>2. /\ q.bev = "none" /\ q.out = << >> /\ q.sock = 0 /\ q.ebuf = 0 /\ ~ q.fp
      /\ q.kept = IF r.fp THEN r.written ELSE r.kept
  BY DEF ClosePORT, Record
<1>3. /\ q.wire = r.wire /\ q.len = r.len /\ q.pos = r.pos /\ q.peer = r.peer /\ q.up = r.up
      /\ q.written = r.written /\ q.told = r.told /\ q.stray = r.stray /\ q.mixed = r.mixed
      /\ q.lost = r.lost /\ q.due = r.due /\ q.over = r.over
  BY DEF ClosePORT, Record
<1>4. QED
  BY <1>1, <1>2, <1>3

\* A 226 that is owed is not a stray one.
LEMMA CompleteFields ==
    ASSUME NEW r \in Record, ~ r.stray, r.told = "owed", r.due > 0, NEW q, q = Complete(r)
    PROVE  /\ q \in Record
           /\ q.told = "226" /\ ~ q.stray
           /\ q.bev = r.bev /\ q.out = r.out /\ q.sock = r.sock /\ q.ebuf = r.ebuf /\ q.fp = r.fp
           /\ q.wire = r.wire /\ q.len = r.len /\ q.pos = r.pos /\ q.peer = r.peer /\ q.up = r.up
           /\ q.written = r.written /\ q.kept = r.kept /\ q.mixed = r.mixed
           /\ q.lost = r.lost /\ q.due = r.due - 1 /\ q.over = r.over
<1>1. q = [r EXCEPT !.told = "226", !.stray = FALSE, !.due = r.due - 1]
  <2>1. (r.stray \/ r.told # "owed") = FALSE
    OBVIOUS
  <2>2. (IF r.told = "owed" THEN r.due - 1 ELSE r.due) = r.due - 1
    OBVIOUS
  <2>3. QED
    BY <2>1, <2>2, Zenon DEF Complete
<1>2. q \in Record /\ q.told = "226" /\ ~ q.stray
  <2>1. r.due - 1 \in Nat
    BY DEF Record
  <2>2. QED
    BY <1>1, <2>1 DEF Record
<1>3. /\ q.bev = r.bev /\ q.out = r.out /\ q.sock = r.sock /\ q.ebuf = r.ebuf /\ q.fp = r.fp
      /\ q.wire = r.wire /\ q.len = r.len /\ q.pos = r.pos /\ q.peer = r.peer /\ q.up = r.up
      /\ q.written = r.written /\ q.kept = r.kept /\ q.mixed = r.mixed
      /\ q.lost = r.lost /\ q.due = r.due - 1 /\ q.over = r.over
  BY <1>1 DEF Record
<1>4. QED
  BY <1>2, <1>3

\* XFtpTask::ClosePORT may be called in any state of the handler.
LEMMA ClosePORTKeeps ==
    ASSUME NEW h \in Handlers, NEW r, HandlerInv(h, r), NEW q, q = ClosePORT(r)
    PROVE  /\ HandlerInv(h, q) /\ q.bev = "none" /\ ~ q.fp /\ q.sock = 0
           /\ q.lost = r.lost /\ (q.lost = 0 => q.kept = q.written)
<1>1. r \in Record
  BY DEF HandlerInv
<1>2. /\ q \in Record
      /\ q.bev = "none" /\ q.out = << >> /\ q.sock = 0 /\ q.ebuf = 0 /\ ~ q.fp
      /\ q.kept = IF r.fp THEN r.written ELSE r.kept
      /\ q.wire = r.wire /\ q.len = r.len /\ q.pos = r.pos /\ q.peer = r.peer /\ q.up = r.up
      /\ q.written = r.written /\ q.told = r.told /\ q.stray = r.stray /\ q.mixed = r.mixed
      /\ q.lost = r.lost /\ q.due = r.due /\ q.over = r.over
  BY <1>1, ClosePORTFields, Zenon
<1>3. r.written \in Nat /\ r.sock \in Nat /\ r.ebuf \in Nat /\ r.up \in Nat
  BY <1>1, CellsFacts DEF Record
<1>4. CountsInv(h, q)
  BY <1>2, <1>3 DEF HandlerInv, CountsInv
<1>8. RepliesInv(q)
  BY <1>2 DEF HandlerInv, RepliesInv
<1>5. h = "RETR" => DownloadInv(q)
  BY <1>2 DEF HandlerInv, DownloadInv, RepliesInv
<1>6. h = "STOR" => UploadInv(q) /\ DrainedInv(q)
  BY <1>2 DEF HandlerInv, UploadInv, DrainedInv, RepliesInv
<1>9. q.lost = 0 => q.kept = q.written
  BY <1>2, <1>8 DEF RepliesInv
<1>7. QED
  BY <1>2, <1>4, <1>5, <1>6, <1>8, <1>9 DEF HandlerInv

\* The 226 goes out with the connection: the reply was still owed, and what it
\* reports is done.
LEMMA CompleteClosed ==
    ASSUME NEW h \in Handlers, NEW r, HandlerInv(h, r), r.bev # "none",
           h = "RETR" => (~ r.mixed => r.pos = r.len /\ r.out = << >>),
           h = "STOR" => r.sock = 0,
           NEW q, q = ClosePORT(Complete(r)) \/ q = Complete(ClosePORT(r))
    PROVE  /\ HandlerInv(h, q) /\ q.told = "226" /\ q.bev = "none"
           /\ q.lost = r.lost /\ q.due = r.due - 1 /\ q.over = r.over
<1>1. r \in Record /\ ~ r.stray /\ r.told = "owed" /\ r.due > 0
  BY DEF HandlerInv, RepliesInv
<1>2. /\ q \in Record
      /\ q.bev = "none" /\ q.out = << >> /\ q.sock = 0 /\ q.ebuf = 0 /\ ~ q.fp
      /\ q.kept = IF r.fp THEN r.written ELSE r.kept
      /\ q.wire = r.wire /\ q.len = r.len /\ q.pos = r.pos /\ q.peer = r.peer /\ q.up = r.up
      /\ q.written = r.written /\ q.told = "226" /\ ~ q.stray /\ q.mixed = r.mixed
      /\ q.lost = r.lost /\ q.due = r.due - 1 /\ q.over = r.over
  <2>1. CASE q = ClosePORT(Complete(r))
    <3>1. PICK p : p = Complete(r)
      OBVIOUS
    <3>2. /\ p \in Record
          /\ p.told = "226" /\ ~ p.stray /\ p.fp = r.fp /\ p.kept = r.kept
          /\ p.wire = r.wire /\ p.len = r.len /\ p.pos = r.pos /\ p.peer = r.peer /\ p.up = r.up
          /\ p.written = r.written /\ p.mixed = r.mixed
          /\ p.lost = r.lost /\ p.due = r.due - 1 /\ p.over = r.over
      BY <1>1, <3>1, CompleteFields, Zenon
    <3>3. q = ClosePORT(p)
      BY <2>1, <3>1
    <3>4. QED
      BY <3>2, <3>3, ClosePORTFields
  <2>2. CASE q = Complete(ClosePORT(r))
    <3>1. PICK p : p = ClosePORT(r)
      OBVIOUS
    <3>2. /\ p \in Record
          /\ p.bev = "none" /\ p.out = << >> /\ p.sock = 0 /\ p.ebuf = 0 /\ ~ p.fp
          /\ p.kept = IF r.fp THEN r.written ELSE r.kept
          /\ p.wire = r.wire /\ p.len = r.len /\ p.pos = r.pos /\ p.peer = r.peer /\ p.up = r.up
          /\ p.written = r.written /\ p.told = "owed" /\ ~ p.stray /\ p.mixed = r.mixed
          /\ p.lost = r.lost /\ p.due = r.due /\ p.over = r.over
      BY <1>1, <3>1, ClosePORTFields
    <3>3. q = Complete(p)
      BY <2>2, <3>1
    <3>4. QED
      BY <1>1, <3>2, <3>3, CompleteFields
  <2>3. QED
    BY <2>1, <2>2
<1>3. r.written \in Nat /\ r.sock \in Nat /\ r.ebuf \in Nat /\ r.up \in Nat
  BY <1>1, CellsFacts DEF Record
<1>4. CountsInv(h, q)
  BY <1>2, <1>3 DEF HandlerInv, CountsInv
<1>8. RepliesInv(q)
  BY <1>2 DEF HandlerInv, RepliesInv
<1>5. h = "RETR" => DownloadInv(q)
  <2> SUFFICES ASSUME h = "RETR", ~ r.mixed
               PROVE  Begins(r.wire, r.len)
    BY <1>2 DEF DownloadInv
  <2>1. r.fp /\ InOrder(r.wire, r.out, r.len) /\ Len(r.out) = 0
    BY DEF HandlerInv, DownloadInv
  <2>2. r.wire \in Seq(Cells) /\ r.len \in Nat
    BY <1>1, CellsFacts DEF Record
  <2>3. QED
    BY <2>1, <2>2 DEF InOrder, Begins
<1>6. h = "STOR" => UploadInv(q) /\ DrainedInv(q)
  BY <1>2, <1>3 DEF HandlerInv, UploadInv, DrainedInv
<1>7. QED
  BY <1>2, <1>4, <1>5, <1>6, <1>8 DEF HandlerInv

\* The end of a data connection, whatever brings it about.
LEMMA EventKeeps ==
    ASSUME NEW h \in Handlers, NEW r, HandlerInv(h, r), r.bev # "none",
           h = "STOR" => r.sock = 0,
           NEW q, q = EventCB(h, r)
    PROVE  /\ HandlerInv(h, q) /\ q.bev = "none" /\ q.lost = r.lost
           /\ h = "STOR" => q.told = "226" /\ q.due = r.due - 1 /\ q.over = r.over
<1>1. CASE h = "STOR"
  <2>1. q = Complete(ClosePORT(r))
    BY <1>1 DEF EventCB, StorEvent
  <2>2. QED
    BY <1>1, <2>1, CompleteClosed
<1>2. CASE h # "STOR"
  <2>1. q = ClosePORT(r)
    BY <1>2 DEF Handlers, EventCB, ListEvent, RetrEvent
  <2>2. QED
    BY <1>2, <2>1, ClosePORTKeeps
<1>3. QED
  BY <1>1, <1>2

\* A cell that goes from the output to the socket keeps its place.
LEMMA MoveCell ==
    ASSUME NEW S, NEW wire \in Seq(S), NEW out \in Seq(S), out # << >>,
           NEW w, NEW o, w = Append(wire, Head(out)), o = Tail(out)
    PROVE  /\ \A n \in Nat : Spans(wire, out, n) => Spans(w, o, n)
           /\ \A n \in Nat : InOrder(wire, out, n) => InOrder(w, o, n)
           /\ \A n \in Nat : Begins(wire, n) => Begins(w, n)
<1>1. /\ Len(wire) \in Nat /\ Len(out) \in Nat \ {0}
      /\ Len(w) = Len(wire) + 1 /\ Len(o) = Len(out) - 1
  OBVIOUS
<1>2. /\ \A i \in 1 .. Len(wire) : w[i] = wire[i]
      /\ w[Len(wire) + 1] = out[1]
      /\ \A i \in 1 .. Len(o) : o[i] = out[i + 1]
  OBVIOUS
<1>3. ASSUME NEW n \in Nat, InOrder(wire, out, n) PROVE InOrder(w, o, n)
  <2>1. n <= Len(w) + Len(o)
    BY <1>1, <1>3 DEF InOrder
  <2>2. ASSUME NEW i \in 1 .. n, i <= Len(w) PROVE w[i] = i
    BY <1>1, <1>2, <1>3, <2>2 DEF InOrder
  <2>3. ASSUME NEW i \in 1 .. n, i > Len(w) PROVE o[i - Len(w)] = i
    <3>1. i > Len(wire) /\ out[i - Len(wire)] = i
      BY <1>1, <1>3, <2>3 DEF InOrder
    <3>2. i - Len(w) \in 1 .. Len(o) /\ (i - Len(w)) + 1 = i - Len(wire)
      BY <1>1, <2>1, <2>3
    <3>3. QED
      BY <1>2, <3>1, <3>2
  <2>4. QED
    BY <2>1, <2>2, <2>3 DEF InOrder
<1>4. \A n \in Nat : Spans(wire, out, n) => Spans(w, o, n)
  BY <1>1 DEF Spans
<1>5. \A n \in Nat : Begins(wire, n) => Begins(w, n)
  BY <1>1, <1>2 DEF Begins
<1>6. QED
  BY <1>3, <1>4, <1>5

\* A cell goes from the output to the socket.
LEMMA CellOut ==
    ASSUME NEW h \in Handlers, NEW r, HandlerInv(h, r), r.out # << >>,
           NEW q, q = [r EXCEPT !.wire = Append(@, Head(r.out)), !.out = Tail(@)]
    PROVE  /\ HandlerInv(h, q) /\ q.bev = r.bev /\ q.told = r.told
           /\ q.lost = r.lost /\ q.due = r.due /\ q.over = r.over
<1>1. r \in Record
  BY DEF HandlerInv
<1>2. /\ r.out \in Seq(Cells) /\ r.wire \in Seq(Cells)
  BY <1>1 DEF Record
<1>3. /\ Append(r.wire, Head(r.out)) \in Seq(Cells) /\ Tail(r.out) \in Seq(Cells)
  BY <1>2
<1>4. q \in Record
  BY <1>1, <1>3 DEF Record
<1>5. /\ q.wire = Append(r.wire, Head(r.out)) /\ q.out = Tail(r.out)
      /\ q.bev = r.bev /\ q.sock = r.sock /\ q.ebuf = r.ebuf /\ q.fp = r.fp /\ q.kept = r.kept
      /\ q.len = r.len /\ q.pos = r.pos /\ q.peer = r.peer /\ q.up = r.up
      /\ q.written = r.written /\ q.told = r.told /\ q.stray = r.stray /\ q.mixed = r.mixed
      /\ q.lost = r.lost /\ q.due = r.due /\ q.over = r.over
  BY <1>1 DEF Record
<1>6. CountsInv(h, q)
  BY <1>5 DEF HandlerInv, CountsInv
<1>7. RepliesInv(q)
  BY <1>5 DEF HandlerInv, RepliesInv
<1>8. h = "RETR" => DownloadInv(q)
  <2> SUFFICES ASSUME h = "RETR", ~ r.mixed PROVE DownloadInv(q)
    BY <1>5 DEF DownloadInv
  <2>1. /\ r.pos \in Nat /\ r.len \in Nat
    BY <1>1, CellsFacts DEF Record
  <2>2. q.wire = Append(r.wire, Head(r.out)) /\ q.out = Tail(r.out)
    BY <1>5
  <2>3. Spans(r.wire, r.out, r.pos) => Spans(q.wire, q.out, r.pos)
    BY <1>2, <2>1, <2>2, MoveCell, Zenon
  <2>4. InOrder(r.wire, r.out, r.pos) => InOrder(q.wire, q.out, r.pos)
    BY <1>2, <2>1, <2>2, MoveCell, Zenon
  <2>5. Begins(r.wire, r.len) => Begins(q.wire, r.len)
    BY <1>2, <2>1, <2>2, MoveCell, Zenon
  <2>6. QED
    BY <1>5, <2>3, <2>4, <2>5 DEF HandlerInv, DownloadInv
<1>9. h = "STOR" => UploadInv(q) /\ DrainedInv(q)
  BY <1>5 DEF HandlerInv, UploadInv, DrainedInv
<1>10. QED
  BY <1>4, <1>5, <1>6, <1>7, <1>8, <1>9 DEF HandlerInv

\* A buffer that has just been read continues what is on the socket.
LEMMA BufferContinues ==
    ASSUME NEW S, NEW wire \in Seq(S), NEW pos \in Nat, NEW len \in Nat, pos < len,
           InOrder(wire, << >>, pos), Spans(wire, << >>, pos),
           NEW n \in Nat, n = IF len - pos < BufCells THEN len - pos ELSE BufCells,
           NEW b \in Seq(S), Len(b) = BufCells,
           \A i \in 1 .. BufCells : i <= n => b[i] = pos + i
    PROVE  /\ InOrder(wire, b, pos + n)
           /\ pos + n = len \/ Spans(wire, b, pos + n)
<1>1. /\ Len(wire) = pos /\ n <= BufCells /\ BufCells \in Nat
      /\ \A i \in 1 .. pos : wire[i] = i
  BY SessionAssumption DEF InOrder, Spans
<1>2. pos + n <= Len(wire) + Len(b)
  BY <1>1
<1>3. ASSUME NEW i \in 1 .. pos + n, i <= Len(wire) PROVE wire[i] = i
  BY <1>1, <1>3
<1>4. ASSUME NEW i \in 1 .. pos + n, i > Len(wire) PROVE b[i - Len(wire)] = i
  <2>1. i - pos \in 1 .. BufCells /\ i - pos <= n
    BY <1>1, <1>4
  <2>2. b[i - pos] = pos + (i - pos)
    BY <2>1
  <2>3. QED
    BY <1>1, <2>1, <2>2
<1>5. pos + n = len \/ Spans(wire, b, pos + n)
  BY <1>1 DEF Spans
<1>6. QED
  BY <1>2, <1>3, <1>4, <1>5 DEF InOrder

\* XFtpRETR::Write, when the output has run empty: the end of the file closes
\* everything, and a read keeps the order.
LEMMA RetrWriteKeeps ==
    ASSUME NEW r, HandlerInv("RETR", r), r.out = << >>, NEW q, q = RetrWrite(r)
    PROVE  HandlerInv("RETR", q) /\ q.lost = r.lost
<1>1. r \in Record
  BY DEF HandlerInv
<1>2. CASE ~ r.fp
  BY <1>2 DEF RetrWrite
<1>3. CASE r.fp
  <2> DEFINE n == IF r.len - r.pos < BufCells THEN r.len - r.pos ELSE BufCells
             b == [i \in 1 .. BufCells |-> IF i <= n THEN r.pos + i ELSE r.buf[i]]
  <2>1. /\ r.len \in Nat /\ r.pos \in Nat /\ r.pos <= r.len /\ r.len <= MaxCells
        /\ BufCells \in Nat \ {0} /\ MaxCells \in Nat
    BY <1>1, CellsFacts, SessionAssumption DEF Record, HandlerInv, CountsInv
  <2>2. n \in Nat /\ n <= BufCells /\ r.pos + n <= r.len
    BY <2>1
  <2>3. r.bev # "none"
    BY <1>3 DEF HandlerInv, RepliesInv
  <2>4. CASE n = 0
    <3>1. q = ClosePORT(Complete(r))
      BY <1>3, <2>4 DEF RetrWrite
    <3>2. r.pos = r.len
      BY <2>1, <2>4
    <3>3. QED
      BY <2>3, <3>1, <3>2, CompleteClosed DEF Handlers
  <2>5. CASE n # 0
    <3>1. q = Send([r EXCEPT !.buf = b, !.pos = @ + n], b)
      BY <1>3, <2>5 DEF RetrWrite
    <3>2. PICK p : p = [r EXCEPT !.buf = b, !.pos = @ + n]
      OBVIOUS
    <3>3. b \in [1 .. BufCells -> Cells] /\ r.pos + n \in Cells
      <4>1. r.buf \in [1 .. BufCells -> Cells]
        BY <1>1 DEF Record
      <4>2. ASSUME NEW i \in 1 .. BufCells PROVE b[i] \in Cells
        <5>1. CASE i <= n
          <6>1. r.pos + i \in Nat /\ r.pos + i <= MaxCells
            BY <2>1, <2>2, <5>1
          <6>2. QED
            BY <5>1, <6>1, CellsFacts
        <5>2. CASE ~ i <= n
          BY <4>1, <5>2
        <5>3. QED
          BY <5>1, <5>2
      <4>3. r.pos + n \in Nat /\ r.pos + n <= MaxCells
        BY <2>1, <2>2
      <4>4. QED
        BY <4>2, <4>3, CellsFacts
    <3> HIDE DEF b, n
    <3>4. p \in Record
      BY <1>1, <3>2, <3>3 DEF Record
    <3>5. /\ p.buf = b /\ p.pos = r.pos + n
          /\ p.bev = r.bev /\ p.out = << >> /\ p.fp = r.fp /\ p.wire = r.wire /\ p.len = r.len
          /\ p.written = r.written /\ p.sock = r.sock /\ p.ebuf = r.ebuf /\ p.up = r.up
          /\ p.kept = r.kept /\ p.told = r.told /\ p.stray = r.stray /\ p.mixed = r.mixed
          /\ p.lost = r.lost /\ p.due = r.due /\ p.over = r.over
      BY <1>1, <3>2 DEF Record
    <3>6. b \in Seq(Cells) /\ Len(b) = BufCells
      BY <2>1, <3>3
    <3>7. q = [p EXCEPT !.out = b]
      <4>1. << >> \o b = b
        BY <3>6
      <4>2. QED
        BY <2>3, <3>1, <3>2, <3>5, <4>1 DEF Send
    <3>8. q \in Record /\ q.out = b
      BY <3>4, <3>6, <3>7 DEF Record
    <3>9. /\ q.pos = r.pos + n
          /\ q.bev = r.bev /\ q.fp = r.fp /\ q.wire = r.wire /\ q.len = r.len
          /\ q.written = r.written /\ q.sock = r.sock /\ q.ebuf = r.ebuf /\ q.up = r.up
          /\ q.kept = r.kept /\ q.told = r.told /\ q.stray = r.stray /\ q.mixed = r.mixed
          /\ q.lost = r.lost /\ q.due = r.due /\ q.over = r.over
      BY <3>4, <3>5, <3>7 DEF Record
    <3>10. CountsInv("RETR", q)
      BY <2>2, <3>9 DEF HandlerInv, CountsInv
    <3>11. RepliesInv(q)
      BY <3>9 DEF HandlerInv, RepliesInv
    <3>12. DownloadInv(q)
      <4> SUFFICES ASSUME ~ r.mixed
                   PROVE  /\ InOrder(r.wire, b, r.pos + n)
                          /\ r.pos + n = r.len \/ Spans(r.wire, b, r.pos + n)
        BY <1>3, <2>3, <3>8, <3>9 DEF HandlerInv, RepliesInv, DownloadInv
      <4>1. r.pos < r.len
        BY <2>1, <2>5 DEF n
      <4>2. InOrder(r.wire, << >>, r.pos) /\ Spans(r.wire, << >>, r.pos)
        BY <1>3, <2>1, <4>1 DEF HandlerInv, DownloadInv
      <4>3. \A i \in 1 .. BufCells : i <= n => b[i] = r.pos + i
        BY DEF b
      <4>4. n = IF r.len - r.pos < BufCells THEN r.len - r.pos ELSE BufCells
        BY DEF n
      <4>5. r.wire \in Seq(Cells)
        BY <1>1 DEF Record
      <4>6. QED
        BY <2>1, <2>2, <3>6, <4>1, <4>2, <4>3, <4>4, <4>5, BufferContinues
    <3>13. QED
      BY <3>8, <3>9, <3>10, <3>11, <3>12 DEF HandlerInv
  <2>6. QED
    BY <2>4, <2>5
<1>4. QED
  BY <1>2, <1>3

\* The write callbacks, after a cell has left the output and was the last.
LEMMA WriteKeeps ==
    ASSUME NEW h \in Handlers, NEW r, HandlerInv(h, r), r.bev # "none", r.out = << >>,
           NEW q, q = WriteCB(h, r)
    PROVE  /\ HandlerInv(h, q) /\ q.lost = r.lost
           /\ h = "STOR" => q = r
<1>1. CASE h = "LIST"
  <2>1. q = ClosePORT(Complete(r))
    BY <1>1 DEF WriteCB, ListWrite
  <2>2. QED
    BY <1>1, <2>1, CompleteClosed
<1>2. CASE h = "RETR"
  BY <1>2, RetrWriteKeeps DEF WriteCB
<1>3. CASE h = "STOR"
  BY <1>3 DEF WriteCB
<1>4. QED
  BY <1>1, <1>2, <1>3 DEF Handlers

\* XFtpSTOR::Read empties the input into the file, if there is one.
LEMMA StorReadKeeps ==
    ASSUME NEW r \in Record, CountsInv("STOR", r), RepliesInv(r), UploadInv(r),
           NEW q, q = StorRead(r)
    PROVE  /\ HandlerInv("STOR", q) /\ q.bev = r.bev /\ q.told = r.told
           /\ q.lost = r.lost /\ q.due = r.due /\ q.over = r.over
<1>1. CASE ~ r.fp
  BY <1>1 DEF StorRead, HandlerInv, DrainedInv
<1>2. CASE r.fp
  <2>1. q = [r EXCEPT !.written = @ + r.ebuf, !.ebuf = 0]
    BY <1>2 DEF StorRead
  <2>2. /\ r.written \in Nat /\ r.ebuf \in Nat /\ r.sock \in Nat /\ r.up \in Nat /\ r.up <= MaxCells
        /\ MaxCells \in Nat
    BY CellsFacts, SessionAssumption DEF Record
  <2>3. r.written + r.ebuf \in Nat /\ r.written + r.ebuf <= MaxCells
    BY <2>2 DEF CountsInv
  <2>4. r.written + r.ebuf \in Cells
    BY <2>3, CellsFacts
  <2>5. q \in Record
    BY <2>1, <2>4, CellsFacts DEF Record
  <2>6. /\ q.written = r.written + r.ebuf /\ q.ebuf = 0
        /\ q.bev = r.bev /\ q.fp = r.fp /\ q.sock = r.sock /\ q.up = r.up /\ q.peer = r.peer
        /\ q.len = r.len /\ q.pos = r.pos /\ q.kept = r.kept
        /\ q.told = r.told /\ q.stray = r.stray /\ q.mixed = r.mixed
        /\ q.lost = r.lost /\ q.due = r.due /\ q.over = r.over
    BY <2>1 DEF Record
  <2>7. CountsInv("STOR", q)
    BY <2>2, <2>6 DEF CountsInv
  <2>8. RepliesInv(q)
    BY <1>2, <2>6 DEF RepliesInv
  <2>9. UploadInv(q) /\ DrainedInv(q)
    BY <2>2, <2>6 DEF UploadInv, DrainedInv
  <2>10. QED
    BY <2>5, <2>6, <2>7, <2>8, <2>9 DEF HandlerInv
<1>3. QED
  BY <1>1, <1>2

\* libevent moves the socket's cells to the input.
LEMMA CellsIn ==
    ASSUME NEW r, HandlerInv("STOR", r), r.bev = "open",
           NEW q, q = [r EXCEPT !.ebuf = @ + r.sock, !.sock = 0]
    PROVE  /\ q \in Record /\ CountsInv("STOR", q) /\ RepliesInv(q) /\ UploadInv(q)
           /\ q.bev = "open" /\ q.told = r.told
           /\ q.lost = r.lost /\ q.due = r.due /\ q.over = r.over
<1>1. r \in Record
  BY DEF HandlerInv
<1>2. /\ r.written \in Nat /\ r.ebuf \in Nat /\ r.sock \in Nat /\ r.up \in Nat /\ r.up <= MaxCells
      /\ MaxCells \in Nat
  BY <1>1, CellsFacts, SessionAssumption DEF Record
<1>3. r.ebuf + r.sock \in Nat /\ r.ebuf + r.sock <= MaxCells
  BY <1>2 DEF HandlerInv, CountsInv
<1>4. r.ebuf + r.sock \in Cells
  BY <1>3, CellsFacts
<1>5. q \in Record
  BY <1>1, <1>4, CellsFacts DEF Record
<1>6. /\ q.ebuf = r.ebuf + r.sock /\ q.sock = 0
      /\ q.bev = r.bev /\ q.fp = r.fp /\ q.written = r.written /\ q.up = r.up /\ q.peer = r.peer
      /\ q.len = r.len /\ q.pos = r.pos /\ q.kept = r.kept
      /\ q.told = r.told /\ q.stray = r.stray /\ q.mixed = r.mixed
      /\ q.lost = r.lost /\ q.due = r.due /\ q.over = r.over
  BY <1>1 DEF Record
<1>7. CountsInv("STOR", q)
  BY <1>2, <1>6 DEF HandlerInv, CountsInv
<1>8. RepliesInv(q)
  BY <1>6 DEF HandlerInv, RepliesInv
<1>9. UploadInv(q)
  BY <1>2, <1>6 DEF HandlerInv, UploadInv
<1>10. QED
  BY <1>5, <1>6, <1>7, <1>8, <1>9

\* fopen fails: the handler is left as it was, but for a file it forgets.
LEMMA OpenFailedKeeps ==
    ASSUME NEW h \in Handlers, NEW r, HandlerInv(h, r), NEW q, q = OpenFailed(r)
    PROVE  /\ HandlerInv(h, q) /\ q.bev = r.bev /\ q.told = r.told
           /\ q.due = r.due /\ q.over = r.over /\ (q.lost > r.lost => r.fp)
<1>1. r \in Record
  BY DEF HandlerInv
<1>2. PICK m \in BOOLEAN : m = (r.mixed \/ r.bev # "none")
  OBVIOUS
<1>12. PICK l : l = IF r.fp THEN r.lost + 1 ELSE r.lost
  OBVIOUS
<1>13. l \in Nat /\ (~ r.fp => l = r.lost) /\ (r.fp => l # 0)
  BY <1>1, <1>12 DEF Record
<1>3. q = [r EXCEPT !.lost = l, !.fp = FALSE, !.mixed = m]
  BY <1>2, <1>12, Zenon DEF OpenFailed, Lose
<1>4. q \in Record
  BY <1>1, <1>3, <1>13 DEF Record
<1>5. /\ ~ q.fp /\ q.mixed = m /\ q.lost = l /\ q.due = r.due /\ q.over = r.over
      /\ q.bev = r.bev /\ q.out = r.out /\ q.wire = r.wire /\ q.len = r.len /\ q.pos = r.pos
      /\ q.written = r.written /\ q.sock = r.sock /\ q.ebuf = r.ebuf /\ q.up = r.up
      /\ q.peer = r.peer /\ q.kept = r.kept /\ q.told = r.told /\ q.stray = r.stray
  BY <1>1, <1>3 DEF Record
<1>6. ~ q.mixed => ~ r.mixed /\ r.bev = "none"
  BY <1>2, <1>5
<1>7. CountsInv(h, q)
  BY <1>5 DEF HandlerInv, CountsInv
<1>8. RepliesInv(q)
  BY <1>5, <1>13 DEF HandlerInv, RepliesInv
<1>9. h = "RETR" => DownloadInv(q)
  BY <1>5, <1>6 DEF HandlerInv, DownloadInv
<1>10. h = "STOR" => UploadInv(q) /\ DrainedInv(q)
  BY <1>5, <1>6 DEF HandlerInv, UploadInv, DrainedInv
<1>11. QED
  BY <1>4, <1>5, <1>7, <1>8, <1>9, <1>10, <1>12 DEF HandlerInv, Record

\* A data connection is begun: the old one, with all it held, is gone.
LEMMA ConnectFields ==
    ASSUME NEW r \in Record, port \in Ports, port # "none", NEW p, p = ConnectoPORT(r)
    PROVE  /\ p \in Record
           /\ p.bev = "connecting" /\ p.out = << >> /\ p.wire = << >>
           /\ p.up = 0 /\ p.sock = 0 /\ p.ebuf = 0
           /\ p.fp = r.fp /\ p.len = r.len /\ p.pos = r.pos /\ p.written = r.written
           /\ p.kept = r.kept /\ p.told = r.told /\ p.stray = r.stray /\ p.mixed = r.mixed
           /\ p.lost = r.lost /\ p.due = r.due /\ p.over = r.over
<1>1. p = [r EXCEPT !.bev = "connecting", !.to = port, !.out = << >>, !.wire = << >>,
                    !.peer = "open", !.up = 0, !.sock = 0, !.ebuf = 0]
  BY DEF ConnectoPORT
<1>2. p \in Record
  <2>1. 0 \in Cells /\ << >> \in Seq(Cells)
    BY CellsFacts
  <2>2. PICK a : a = [r EXCEPT !.bev = "connecting", !.to = port, !.out = << >>, !.wire = << >>]
    OBVIOUS
  <2>3. a \in Record
    BY <2>1, <2>2 DEF Record
  <2>4. p = [a EXCEPT !.peer = "open", !.up = 0, !.sock = 0, !.ebuf = 0]
    BY <1>1, <2>2
  <2>5. QED
    BY <2>1, <2>3, <2>4 DEF Record
<1>3. /\ p.bev = "connecting" /\ p.out = << >> /\ p.wire = << >>
      /\ p.up = 0 /\ p.sock = 0 /\ p.ebuf = 0
  BY <1>1 DEF Record
<1>4. /\ p.fp = r.fp /\ p.len = r.len /\ p.pos = r.pos /\ p.written = r.written
      /\ p.kept = r.kept /\ p.told = r.told /\ p.stray = r.stray /\ p.mixed = r.mixed
      /\ p.lost = r.lost /\ p.due = r.due /\ p.over = r.over
  BY <1>1 DEF Record
<1>5. QED
  BY <1>2, <1>3, <1>4

\* The start of a RETR or STOR: what a handler's record is once the file is open,
\* the connection is begun or kept, and the 150 or 125 is out.
LEMMA StartFields ==
    ASSUME NEW r \in Record, port \in Ports, NEW n \in Cells,
           NEW q, q = Preliminary(ConnectoPORT(Open(r, n))), q.bev # "none"
    PROVE  /\ q \in Record
           /\ q.fp /\ q.len = n /\ q.pos = 0 /\ q.written = 0 /\ q.told = "owed"
           /\ q.lost = (IF r.fp THEN r.lost + 1 ELSE r.lost) /\ q.due = r.due + 1
           /\ q.over = IF r.bev = "none" THEN r.over ELSE r.over + 1
           /\ q.stray = r.stray /\ (~ q.mixed => r.bev = "none")
           /\ \/ /\ q.bev = "connecting" /\ q.out = << >> /\ q.wire = << >>
                 /\ q.up = 0 /\ q.sock = 0 /\ q.ebuf = 0
              \/ /\ q.bev = r.bev /\ q.out = r.out /\ q.wire = r.wire
                 /\ q.up = r.up /\ q.sock = r.sock /\ q.ebuf = r.ebuf
                 /\ q.peer = r.peer /\ q.mixed
<1>1. PICK m \in BOOLEAN : m = (r.bev # "none")
  OBVIOUS
<1>2. PICK o : o = Open(r, n)
  OBVIOUS
<1>10. PICK l : l = IF r.fp THEN r.lost + 1 ELSE r.lost
  OBVIOUS
<1>11. PICK v : v = IF r.bev = "none" THEN r.over ELSE r.over + 1
  OBVIOUS
<1>12. l \in Nat /\ v \in Nat
  BY <1>10, <1>11 DEF Record
<1>3. o = [r EXCEPT !.lost = l, !.fp = TRUE, !.len = n, !.pos = 0, !.written = 0, !.kept = 0,
                    !.mixed = m, !.over = v]
  <2>1. PICK z : z = Lose(r)
    OBVIOUS
  <2>2. z = [r EXCEPT !.lost = l]
    BY <1>10, <2>1, Zenon DEF Lose
  <2>3. o = [z EXCEPT !.fp = TRUE, !.len = n, !.pos = 0, !.written = 0, !.kept = 0,
                      !.mixed = m, !.over = IF r.bev = "none" THEN @ ELSE @ + 1]
    BY <1>1, <1>2, <2>1, Zenon DEF Open
  <2>4. z.over = r.over
    BY <2>2 DEF Record
  <2>5. (IF r.bev = "none" THEN z.over ELSE z.over + 1) = v
    BY <1>11, <2>4
  <2>6. o = [z EXCEPT !.fp = TRUE, !.len = n, !.pos = 0, !.written = 0, !.kept = 0,
                      !.mixed = m, !.over = v]
    BY <2>3, <2>5, Zenon
  <2>7. QED
    BY <2>2, <2>6
<1>4. o \in Record
  BY <1>3, <1>12, CellsFacts DEF Record
<1>5. /\ o.lost = l /\ o.due = r.due /\ o.over = v
      /\ o.fp /\ o.len = n /\ o.pos = 0 /\ o.written = 0 /\ o.mixed = m
      /\ o.bev = r.bev /\ o.out = r.out /\ o.wire = r.wire /\ o.up = r.up /\ o.sock = r.sock
      /\ o.ebuf = r.ebuf /\ o.peer = r.peer /\ o.stray = r.stray
  BY <1>3 DEF Record
<1>6. q = Preliminary(ConnectoPORT(o))
  BY <1>2
<1>7. CASE port = "none"
  <2>1. q = [o EXCEPT !.told = "owed", !.due = o.due + 1]
    BY <1>6, <1>7 DEF Preliminary, ConnectoPORT
  <2>2. /\ q \in Record
        /\ q.fp = o.fp /\ q.len = o.len /\ q.pos = o.pos /\ q.written = o.written
        /\ q.mixed = o.mixed /\ q.told = "owed" /\ q.bev = o.bev /\ q.out = o.out
        /\ q.lost = o.lost /\ q.due = o.due + 1 /\ q.over = o.over
        /\ q.wire = o.wire /\ q.up = o.up /\ q.sock = o.sock /\ q.ebuf = o.ebuf
        /\ q.peer = o.peer /\ q.stray = o.stray
    <3>1. o.due + 1 \in Nat
      BY <1>4 DEF Record
    <3>2. q \in Record
      BY <1>4, <2>1, <3>1 DEF Record
    <3>3. QED
      BY <1>4, <2>1, <3>2 DEF Record
  <2>3. m
    BY <1>1, <1>5, <2>2
  <2>4. QED
    BY <1>5, <1>10, <1>11, <2>2, <2>3
<1>8. CASE port # "none"
  <2>1. PICK p : p = ConnectoPORT(o)
    OBVIOUS
  <2>4. /\ p \in Record
        /\ p.fp = o.fp /\ p.len = o.len /\ p.pos = o.pos /\ p.written = o.written
        /\ p.mixed = o.mixed /\ p.stray = o.stray /\ p.bev = "connecting" /\ p.out = << >>
        /\ p.lost = o.lost /\ p.due = o.due /\ p.over = o.over
        /\ p.wire = << >> /\ p.up = 0 /\ p.sock = 0 /\ p.ebuf = 0
    BY <1>4, <1>8, <2>1, ConnectFields
  <2>5. q = [p EXCEPT !.told = "owed", !.due = p.due + 1]
    BY <1>6, <2>1 DEF Preliminary
  <2>6. /\ q \in Record
        /\ q.fp = p.fp /\ q.len = p.len /\ q.pos = p.pos /\ q.written = p.written
        /\ q.mixed = p.mixed /\ q.told = "owed" /\ q.stray = p.stray /\ q.bev = p.bev
        /\ q.lost = p.lost /\ q.due = p.due + 1 /\ q.over = p.over
        /\ q.out = p.out /\ q.wire = p.wire /\ q.up = p.up /\ q.sock = p.sock /\ q.ebuf = p.ebuf
    <3>1. p.due + 1 \in Nat
      BY <2>4 DEF Record
    <3>2. q \in Record
      BY <2>4, <2>5, <3>1 DEF Record
    <3>3. QED
      BY <2>4, <2>5, <3>2 DEF Record
  <2>7. ~ m => r.bev = "none"
    BY <1>1
  <2>8. QED
    BY <1>5, <1>10, <1>11, <2>4, <2>6, <2>7
<1>9. QED
  BY <1>7, <1>8

\* A RETR begins with nothing read, and with nothing on its way unless it runs
\* over another.
LEMMA RetrStarts ==
    ASSUME NEW r, HandlerInv("RETR", r), port \in Ports, NEW n \in Cells,
           NEW q, q = Preliminary(ConnectoPORT(Open(r, n))), q.bev # "none"
    PROVE  HandlerInv("RETR", q) /\ (q.lost > r.lost => r.fp)
<1>1. r \in Record /\ ~ r.stray
  BY DEF HandlerInv, RepliesInv
<1>2. /\ q \in Record
      /\ q.fp /\ q.len = n /\ q.pos = 0 /\ q.written = 0 /\ q.told = "owed" /\ ~ q.stray
      /\ q.due > 0 /\ (q.lost > r.lost => r.fp)
      /\ q.sock + q.ebuf <= q.up
      /\ ~ q.mixed => q.out = << >> /\ q.wire = << >>
  <2>1. r.sock + r.ebuf <= r.up
    <3>1. r.written = 0 /\ r.written + r.sock + r.ebuf <= r.up
      BY DEF HandlerInv, CountsInv
    <3>2. r.sock \in Nat /\ r.ebuf \in Nat /\ r.up \in Nat
      BY <1>1, CellsFacts DEF Record
    <3>3. QED
      BY <3>1, <3>2
  <2>2. r.due \in Nat /\ r.lost \in Nat
    BY <1>1 DEF Record
  <2>3. QED
    BY <1>1, <2>1, <2>2, StartFields
<1>3. n \in Nat /\ q.sock \in Nat /\ q.ebuf \in Nat /\ q.up \in Nat
  BY <1>2, CellsFacts DEF Record
<1>4. CountsInv("RETR", q)
  BY <1>2, <1>3 DEF CountsInv
<1>5. RepliesInv(q)
  BY <1>2 DEF RepliesInv
<1>6. DownloadInv(q)
  <2>1. ASSUME ~ q.mixed PROVE InOrder(q.wire, q.out, q.pos) /\ Spans(q.wire, q.out, q.pos)
    <3>1. q.pos = 0 /\ q.out = << >> /\ q.wire = << >>
      BY <1>2, <2>1
    <3>2. InOrder(<< >>, << >>, 0) /\ Spans(<< >>, << >>, 0)
      BY ONLY DEF InOrder, Spans
    <3>3. QED
      BY <3>1, <3>2
  <2>2. QED
    BY <1>2, <2>1 DEF DownloadInv
<1>7. QED
  BY <1>2, <1>4, <1>5, <1>6 DEF HandlerInv

\* A STOR begins with nothing written; over a running connection what waits in its
\* input is still to be read.
LEMMA StorStarts ==
    ASSUME NEW r, HandlerInv("STOR", r), port \in Ports,
           NEW q, q = Preliminary(ConnectoPORT(Open(r, 0))), q.bev # "none"
    PROVE  /\ q \in Record /\ CountsInv("STOR", q) /\ RepliesInv(q) /\ UploadInv(q)
           /\ (q.lost > r.lost => r.fp) /\ q.due = r.due + 1
           /\ q.over = IF r.bev = "none" THEN r.over ELSE r.over + 1
<1>1. r \in Record /\ ~ r.stray
  BY DEF HandlerInv, RepliesInv
<1>2. /\ r.written \in Nat /\ r.ebuf \in Nat /\ r.sock \in Nat /\ r.up \in Nat
      /\ r.due \in Nat /\ r.lost \in Nat
  BY <1>1, CellsFacts DEF Record
<1>3. /\ q \in Record
      /\ q.fp /\ q.len = 0 /\ q.pos = 0 /\ q.written = 0 /\ q.told = "owed"
      /\ q.lost = (IF r.fp THEN r.lost + 1 ELSE r.lost) /\ q.due = r.due + 1
      /\ q.over = IF r.bev = "none" THEN r.over ELSE r.over + 1
      /\ q.stray = r.stray
      /\ \/ /\ q.bev = "connecting" /\ q.up = 0 /\ q.sock = 0 /\ q.ebuf = 0
         \/ /\ q.bev = r.bev /\ q.up = r.up /\ q.sock = r.sock /\ q.ebuf = r.ebuf /\ q.mixed
  BY <1>1, CellsFacts, StartFields
<1>4. CountsInv("STOR", q)
  BY <1>2, <1>3 DEF HandlerInv, CountsInv
<1>5. RepliesInv(q)
  BY <1>1, <1>2, <1>3 DEF RepliesInv
<1>6. UploadInv(q)
  BY <1>3 DEF HandlerInv, UploadInv
<1>7. QED
  BY <1>2, <1>3, <1>4, <1>5, <1>6

\* LIST keeps no file, so it has only the connection and the reply to begin.
LEMMA ListStarts ==
    ASSUME NEW r, HandlerInv("LIST", r), port \in Ports, NEW listing \in {<< >>, << 1 >>},
           NEW q, q = Send(Preliminary(ConnectoPORT(r)), listing)
    PROVE  HandlerInv("LIST", q) /\ q.lost = r.lost
<1>1. r \in Record /\ ~ r.stray /\ r.written = 0 /\ (~ r.fp /\ r.lost = 0 => r.kept = 0)
  BY DEF HandlerInv, RepliesInv, CountsInv
<1>2. listing \in Seq(Cells)
  <2>1. << >> \in Seq(Cells) /\ << 1 >> \in Seq(Cells)
    BY CellsFacts
  <2>2. QED
    BY <2>1
<1>3. PICK p : p = ConnectoPORT(r)
  OBVIOUS
<1>4. /\ p \in Record
      /\ p.written = 0 /\ p.sock + p.ebuf <= p.up /\ p.stray = r.stray /\ p.fp = r.fp
      /\ p.len = r.len /\ p.pos = r.pos /\ (r.fp => p.bev # "none")
      /\ p.lost = r.lost /\ p.due = r.due /\ p.kept = r.kept
  <2>1. CASE port = "none"
    <3>1. p = r
      BY <1>3, <2>1 DEF ConnectoPORT
    <3>2. r.sock + r.ebuf <= r.up
      <4>1. r.written = 0 /\ r.written + r.sock + r.ebuf <= r.up
        BY DEF HandlerInv, CountsInv
      <4>2. r.sock \in Nat /\ r.ebuf \in Nat /\ r.up \in Nat
        BY <1>1, CellsFacts DEF Record
      <4>3. QED
        BY <4>1, <4>2
    <3>3. QED
      BY <1>1, <3>1, <3>2 DEF HandlerInv, RepliesInv
  <2>2. CASE port # "none"
    <3>1. /\ p \in Record
          /\ p.written = r.written /\ p.sock = 0 /\ p.ebuf = 0 /\ p.up = 0 /\ p.stray = r.stray
          /\ p.fp = r.fp /\ p.len = r.len /\ p.pos = r.pos /\ p.bev = "connecting"
          /\ p.lost = r.lost /\ p.due = r.due /\ p.kept = r.kept
      BY <1>1, <1>3, <2>2, ConnectFields
    <3>2. QED
      BY <1>1, <3>1
  <2>3. QED
    BY <2>1, <2>2
<1>5. PICK s : s = [p EXCEPT !.told = "owed", !.due = p.due + 1]
  OBVIOUS
<1>6. /\ s \in Record
      /\ s.written = 0 /\ s.sock = p.sock /\ s.ebuf = p.ebuf /\ s.up = p.up /\ s.stray = r.stray
      /\ s.fp = r.fp /\ s.len = r.len /\ s.pos = r.pos /\ s.bev = p.bev /\ s.told = "owed"
      /\ s.lost = r.lost /\ s.due = r.due + 1 /\ s.kept = r.kept
  <2>1. p.due + 1 \in Nat
    BY <1>4 DEF Record
  <2>2. s \in Record
    BY <1>4, <1>5, <2>1 DEF Record
  <2>3. QED
    BY <1>4, <1>5, <2>2 DEF Record
<1>7. q = IF s.bev = "none" THEN s ELSE [s EXCEPT !.out = @ \o listing]
  BY <1>3, <1>5 DEF Send, Preliminary
<1>8. s.out \o listing \in Seq(Cells)
  <2>1. s.out \in Seq(Cells)
    BY <1>6 DEF Record
  <2>2. QED
    BY ONLY <1>2, <2>1
<1>9. /\ q \in Record
      /\ q.written = 0 /\ q.sock = s.sock /\ q.ebuf = s.ebuf /\ q.up = s.up /\ q.stray = s.stray
      /\ q.fp = s.fp /\ q.len = s.len /\ q.pos = s.pos /\ q.bev = s.bev /\ q.told = "owed"
      /\ q.lost = s.lost /\ q.due = s.due /\ q.kept = s.kept
  <2>1. CASE s.bev = "none"
    BY <1>6, <1>7, <2>1
  <2>2. CASE s.bev # "none"
    <3>1. q = [s EXCEPT !.out = s.out \o listing]
      BY <1>7, <2>2
    <3>2. QED
      BY <1>6, <1>8, <3>1 DEF Record
  <2>3. QED
    BY <2>1, <2>2
<1>10. /\ q.sock \in Nat /\ q.ebuf \in Nat
  BY <1>9, CellsFacts DEF Record
<1>11. CountsInv("LIST", q)
  BY <1>4, <1>6, <1>9, <1>10 DEF HandlerInv, CountsInv
<1>12. RepliesInv(q)
  <2>1. r.due \in Nat
    BY <1>1 DEF Record
  <2>2. QED
    BY <1>1, <1>4, <1>6, <1>9, <2>1 DEF RepliesInv
<1>13. QED
  BY <1>6, <1>9, <1>11, <1>12 DEF HandlerInv

-----------------------------------------------------------------------------
(* The session. *)

\* A step on one handler's record.
LEMMA HandlerStep ==
    ASSUME IInv, Up, NEW h \in Handlers, NEW q, HandlerInv(h, q),
           h = "STOR" => ConcludedInv(q), q.lost > hd[h].lost => cmd = h /\ hd[h].fp,
           hd' = [hd EXCEPT ![h] = q], ctl' = ctl
    PROVE  HandlersInv' /\ SessionEndReleasesAll' /\ UploadsInv' /\ FilesStep
<1>1. hd \in [Handlers -> Record] /\ q \in Record
  BY DEF IInv, HandlersInv, HandlerInv
<1>2. hd' \in [Handlers -> Record]
  BY <1>1
<1>3. hd'[h] = q /\ \A g \in Handlers : g # h => hd'[g] = hd[g]
  BY <1>1
<1>4. ASSUME NEW g \in Handlers PROVE HandlerInv(g, hd'[g])
  <2>1. HandlerInv(g, hd[g])
    BY DEF IInv, HandlersInv
  <2>2. QED
    BY <1>3, <2>1
<1>5. HandlersInv'
  BY <1>2, <1>4 DEF HandlersInv, HandlerInv, CountsInv, RepliesInv, DownloadInv, UploadInv,
                    DrainedInv, InOrder, Spans, Begins
<1>6. SessionEndReleasesAll'
  BY DEF Up, SessionEndReleasesAll
<1>7. UploadsInv'
  <2>1. "STOR" \in Handlers /\ ConcludedInv(hd["STOR"])
    BY DEF IInv, UploadsInv, Handlers
  <2>2. PICK s : s = hd'["STOR"]
    OBVIOUS
  <2>3. ConcludedInv(s)
    BY <1>3, <2>1, <2>2
  <2>4. QED
    BY <2>2, <2>3 DEF UploadsInv, ConcludedInv
<1>9. FilesStep
  <2>1. ASSUME NEW g \in Handlers, hd'[g].lost > hd[g].lost PROVE cmd = g /\ hd[g].fp
    <3>1. CASE g = h
      BY <1>3, <2>1, <3>1
    <3>2. CASE g # h
      <4>1. hd'[g] = hd[g] /\ hd[g].lost \in Nat
        BY <1>1, <1>3, <3>2 DEF Record
      <4>2. QED
        BY <2>1, <4>1
    <3>3. QED
      BY <3>1, <3>2
  <2>2. QED
    BY <2>1 DEF FilesStep
<1>8. QED
  BY <1>5, <1>6, <1>7, <1>9

\* A new session's handlers have done nothing.
LEMMA InitInv == Init => IInv
<1> SUFFICES ASSUME Init PROVE IInv
  OBVIOUS
<1>1. SessionInv
  <2>1. 0 \in 0 .. MaxCmds
    BY SessionAssumption
  <2>2. QED
    BY <2>1, Zenon DEF Init, SessionInv, Ports
<1>2. [i \in 1 .. BufCells |-> 0] \in [1 .. BufCells -> Cells]
  BY CellsFacts
<1>3. Fresh \in Record
  BY <1>2, CellsFacts DEF Fresh, Record, Ports
<1>4. /\ Fresh.pos = 0 /\ Fresh.len = 0 /\ Fresh.written = 0 /\ Fresh.sock = 0 /\ Fresh.ebuf = 0
      /\ Fresh.up = 0 /\ ~ Fresh.stray /\ Fresh.bev = "none" /\ ~ Fresh.fp /\ Fresh.told = "none"
      /\ Fresh.kept = 0 /\ Fresh.lost = 0 /\ Fresh.due = 0 /\ Fresh.over = 0
  BY DEF Fresh
<1>5. ASSUME NEW h \in Handlers PROVE HandlerInv(h, Fresh)
  BY <1>3, <1>4 DEF HandlerInv, CountsInv, RepliesInv, DownloadInv, UploadInv, DrainedInv
<1>6. hd \in [Handlers -> Record] /\ \A h \in Handlers : hd[h] = Fresh
  BY <1>3 DEF Init
<1>7. HandlersInv
  BY <1>5, <1>6 DEF HandlersInv
<1>8. SessionEndReleasesAll
  BY DEF Init, SessionEndReleasesAll
<1>9. UploadsInv
  BY <1>4, <1>6 DEF UploadsInv, ConcludedInv, Handlers
<1>10. QED
  BY <1>1, <1>7, <1>8, <1>9 DEF IInv

\* Steps that touch no handler.
LEMMA QuietStep ==
    ASSUME IInv, UNCHANGED hd, ctl' # "gone" \/ UNCHANGED ctl, Up' => Up
    PROVE  HandlersInv' /\ SessionEndReleasesAll' /\ UploadsInv' /\ FilesStep
<1>1. HandlersInv'
  BY DEF IInv, HandlersInv, HandlerInv, CountsInv, RepliesInv, DownloadInv, UploadInv,
         DrainedInv, InOrder, Spans, Begins
<1>2. SessionEndReleasesAll'
  BY DEF IInv, SessionEndReleasesAll
<1>3. UploadsInv'
  BY DEF IInv, UploadsInv, ConcludedInv
<1>5. FilesStep
  <2>1. \A h \in Handlers : hd'[h].lost = hd[h].lost /\ hd[h].lost \in Nat
    BY DEF IInv, HandlersInv, Record
  <2>2. QED
    BY <2>1 DEF FilesStep
<1>4. QED
  BY <1>1, <1>2, <1>3, <1>5

\* The transfer commands, XFtpLIST::Parse, XFtpRETR::Parse and XFtpSTOR::Parse, with
\* the callbacks they trigger.
LEMMA ParseStep ==
    ASSUME IInv, ParseList \/ ParseRetr \/ ParseStor
    PROVE  IInv' /\ FilesStep
<1> USE DEF Handlers
<1>1. /\ Up /\ ctl' = ctl /\ sent' = sent /\ cmd' = "" /\ port \in Ports
      /\ (ParseList => cmd = "LIST") /\ (ParseRetr => cmd = "RETR") /\ (ParseStor => cmd = "STOR")
  BY DEF ParseList, ParseRetr, ParseStor, Parse, IInv, SessionInv
<1>2. SessionInv'
  BY <1>1 DEF ParseList, ParseRetr, ParseStor, IInv, SessionInv
<1>3. \A h \in Handlers : HandlerInv(h, hd[h]) /\ hd[h].lost \in Nat /\ hd[h].due \in Nat
                           /\ hd[h].over \in Nat
  BY DEF IInv, HandlersInv, Record
<1>4. SUFFICES HandlersInv' /\ SessionEndReleasesAll' /\ UploadsInv' /\ FilesStep
  BY <1>2 DEF IInv
<1>5. ASSUME crash' = TRUE, UNCHANGED hd
      PROVE  HandlersInv' /\ SessionEndReleasesAll' /\ UploadsInv' /\ FilesStep
  BY <1>1, <1>5, QuietStep DEF Up
<1>6. CASE ParseList
  <2>1. PICK listing \in {<< >>, << 1 >>} :
           hd' = [hd EXCEPT !["LIST"] = Send(Preliminary(ConnectoPORT(@)), listing)]
    BY <1>6 DEF ParseList
  <2>2. PICK q : q = Send(Preliminary(ConnectoPORT(hd["LIST"])), listing)
    OBVIOUS
  <2>3. HandlerInv("LIST", q) /\ q.lost = hd["LIST"].lost
    BY <1>1, <1>3, <2>2, ListStarts
  <2>4. hd' = [hd EXCEPT !["LIST"] = q]
    BY <2>1, <2>2
  <2>5. ~ q.lost > hd["LIST"].lost
    BY <1>3, <2>3
  <2>6. QED
    BY <1>1, <2>3, <2>4, <2>5, HandlerStep
<1>7. CASE ParseRetr
  <2>1. CASE hd' = [hd EXCEPT !["RETR"] = OpenFailed(@)]
    <3>1. PICK q : q = OpenFailed(hd["RETR"])
      OBVIOUS
    <3>2. HandlerInv("RETR", q) /\ (q.lost > hd["RETR"].lost => hd["RETR"].fp)
      BY <1>3, <3>1, OpenFailedKeeps
    <3>3. hd' = [hd EXCEPT !["RETR"] = q]
      BY <2>1, <3>1
    <3>4. QED
      BY <1>1, <1>7, <3>2, <3>3, HandlerStep
  <2>2. CASE \E n \in 0 .. MaxCells :
                LET r == Preliminary(ConnectoPORT(Open(hd["RETR"], n)))
                IN  IF r.bev = "none" THEN crash' = TRUE /\ UNCHANGED hd
                    ELSE hd' = [hd EXCEPT !["RETR"] = TriggerWrite(r)] /\ UNCHANGED crash
    <3>1. PICK n \in 0 .. MaxCells :
                LET r == Preliminary(ConnectoPORT(Open(hd["RETR"], n)))
                IN  IF r.bev = "none" THEN crash' = TRUE /\ UNCHANGED hd
                    ELSE hd' = [hd EXCEPT !["RETR"] = TriggerWrite(r)] /\ UNCHANGED crash
      BY <2>2
    <3>2. PICK r : r = Preliminary(ConnectoPORT(Open(hd["RETR"], n)))
      OBVIOUS
    <3>3. CASE r.bev = "none"
      BY <1>5, <3>1, <3>2, <3>3
    <3>4. CASE r.bev # "none"
      <4>1. hd' = [hd EXCEPT !["RETR"] = TriggerWrite(r)]
        BY <3>1, <3>2, <3>4
      <4>2. HandlerInv("RETR", r) /\ (r.lost > hd["RETR"].lost => hd["RETR"].fp)
        <5>1. n \in Cells
          BY DEF Cells
        <5>2. QED
          BY <1>1, <1>3, <3>2, <3>4, <5>1, RetrStarts
      <4>3. PICK q : q = TriggerWrite(r)
        OBVIOUS
      <4>4. HandlerInv("RETR", q) /\ q.lost = r.lost
        BY <4>2, <4>3, RetrWriteKeeps DEF TriggerWrite
      <4>5. QED
        BY <1>1, <1>7, <4>1, <4>2, <4>3, <4>4, HandlerStep
    <3>5. QED
      BY <3>3, <3>4
  <2>3. QED
    BY <1>7, <2>1, <2>2 DEF ParseRetr
<1>8. CASE ParseStor
  <2>1. CASE hd' = [hd EXCEPT !["STOR"] = OpenFailed(@)]
    <3>1. PICK q : q = OpenFailed(hd["STOR"])
      OBVIOUS
    <3>2. /\ HandlerInv("STOR", q) /\ q.bev = hd["STOR"].bev /\ q.told = hd["STOR"].told
          /\ q.due = hd["STOR"].due /\ q.over = hd["STOR"].over
          /\ (q.lost > hd["STOR"].lost => hd["STOR"].fp)
      BY <1>3, <3>1, OpenFailedKeeps
    <3>3. hd' = [hd EXCEPT !["STOR"] = q]
      BY <2>1, <3>1
    <3>4. ConcludedInv(q)
      BY <1>1, <3>2 DEF IInv, UploadsInv, ConcludedInv
    <3>5. QED
      BY <1>1, <1>8, <3>2, <3>3, <3>4, HandlerStep
  <2>2. PICK r : r = Preliminary(ConnectoPORT(Open(hd["STOR"], 0)))
    OBVIOUS
  <2>3. CASE r.bev = "none" /\ crash' = TRUE /\ UNCHANGED hd
    BY <1>5, <2>3
  <2>4. CASE r.bev # "none" /\ hd' = [hd EXCEPT !["STOR"] = TriggerRead(r)]
    <3>1. /\ r \in Record /\ CountsInv("STOR", r) /\ RepliesInv(r) /\ UploadInv(r)
          /\ (r.lost > hd["STOR"].lost => hd["STOR"].fp) /\ r.due = hd["STOR"].due + 1
          /\ r.over = IF hd["STOR"].bev = "none" THEN hd["STOR"].over ELSE hd["STOR"].over + 1
      BY <1>1, <1>3, <2>2, <2>4, StorStarts
    <3>2. PICK q : q = TriggerRead(r)
      OBVIOUS
    <3>3. /\ HandlerInv("STOR", q) /\ q.bev # "none" /\ q.lost = r.lost
          /\ q.due = r.due /\ q.over = r.over
      BY <2>4, <3>1, <3>2, StorReadKeeps DEF TriggerRead
    <3>4. hd' = [hd EXCEPT !["STOR"] = q]
      BY <2>4, <3>2
    <3>5. ConcludedInv(q)
      <4>1. ConcludedInv(hd["STOR"]) /\ hd["STOR"].due \in Nat /\ hd["STOR"].over \in Nat
        BY <1>1, <1>3 DEF IInv, UploadsInv
      <4>2. q.due = q.over + 1
        BY <3>1, <3>3, <4>1 DEF ConcludedInv
      <4>3. QED
        BY <3>3, <4>2 DEF ConcludedInv
    <3>6. QED
      BY <1>1, <1>8, <3>1, <3>3, <3>4, <3>5, HandlerStep
  <2>5. QED
    BY <1>8, <2>1, <2>2, <2>3, <2>4 DEF ParseStor
<1>9. QED
  BY <1>6, <1>7, <1>8

\* The end of a data connection, as a step of the session.
LEMMA EventStep ==
    ASSUME IInv, NEW h \in Handlers, Up, hd[h].bev # "none", hd[h].sock = 0 \/ hd[h].bev = "connecting",
           Data(h, EventCB(h, hd[h]))
    PROVE  HandlersInv' /\ SessionEndReleasesAll' /\ UploadsInv' /\ FilesStep
<1>1. HandlerInv(h, hd[h])
  BY DEF IInv, HandlersInv
<1>2. h = "STOR" => hd[h].sock = 0
  <2> SUFFICES ASSUME h = "STOR", hd[h].bev = "connecting" PROVE hd[h].sock = 0
    OBVIOUS
  <2>1. /\ hd[h].written \in Nat /\ hd[h].sock \in Nat /\ hd[h].ebuf \in Nat
        /\ hd[h].up = 0 /\ hd[h].written + hd[h].sock + hd[h].ebuf <= hd[h].up
    BY <1>1, CellsFacts DEF HandlerInv, CountsInv, UploadInv, Record
  <2>2. QED
    BY <2>1
<1>3. PICK q : q = EventCB(h, hd[h])
  OBVIOUS
<1>4. /\ HandlerInv(h, q) /\ q.bev = "none" /\ q.lost = hd[h].lost
      /\ h = "STOR" => q.told = "226" /\ q.due = hd[h].due - 1 /\ q.over = hd[h].over
  BY <1>1, <1>2, <1>3, EventKeeps
<1>5. hd' = [hd EXCEPT ![h] = q] /\ ctl' = ctl
  BY <1>3 DEF Data
<1>6. hd[h].lost \in Nat /\ hd[h].due \in Nat /\ hd[h].over \in Nat
  BY DEF IInv, HandlersInv, Record
<1>7. h = "STOR" => ConcludedInv(q)
  BY <1>4, <1>6 DEF IInv, UploadsInv, ConcludedInv
<1>8. ~ q.lost > hd[h].lost
  BY <1>4, <1>6
<1>9. QED
  BY <1>4, <1>5, <1>7, <1>8, HandlerStep

\* The callbacks of any handler's data connection.
LEMMA DataStep ==
    ASSUME IInv, NEW h \in Handlers,
           DataConnected(h) \/ DataRefused(h) \/ DataOut(h) \/ DataEnd(h) \/ DataTimeout(h)
    PROVE  IInv' /\ FilesStep
<1>1. Up /\ UNCHANGED <<ctl, cmd, sent, port, crash>>
  BY DEF DataConnected, DataRefused, DataOut, DataEnd, DataTimeout, Data
<1>2. SessionInv'
  BY <1>1 DEF IInv, SessionInv
<1>3. HandlerInv(h, hd[h]) /\ hd[h] \in Record /\ (h = "STOR" => ConcludedInv(hd[h]))
  BY <1>1 DEF IInv, HandlersInv, UploadsInv
<1>11. hd[h].lost \in Nat
  BY <1>3 DEF Record
<1>4. SUFFICES HandlersInv' /\ SessionEndReleasesAll' /\ UploadsInv' /\ FilesStep
  BY <1>2 DEF IInv
<1>5. CASE DataConnected(h)
  <2>1. PICK q : q = [hd[h] EXCEPT !.bev = "open"]
    OBVIOUS
  <2>2. q \in Record
    BY <1>3, <2>1 DEF Record
  <2>3. /\ q.bev = "open"
        /\ q.out = hd[h].out /\ q.wire = hd[h].wire /\ q.fp = hd[h].fp /\ q.len = hd[h].len
        /\ q.pos = hd[h].pos /\ q.peer = hd[h].peer /\ q.up = hd[h].up /\ q.sock = hd[h].sock
        /\ q.ebuf = hd[h].ebuf /\ q.written = hd[h].written /\ q.kept = hd[h].kept
        /\ q.told = hd[h].told /\ q.stray = hd[h].stray /\ q.mixed = hd[h].mixed
        /\ q.lost = hd[h].lost /\ q.due = hd[h].due /\ q.over = hd[h].over
    BY <1>3, <2>1 DEF Record
  <2>4. CountsInv(h, q)
    BY <1>3, <2>3 DEF HandlerInv, CountsInv
  <2>5. hd[h].bev = "connecting"
    BY <1>5 DEF DataConnected
  <2>6. RepliesInv(q)
    BY <1>3, <2>3, <2>5 DEF HandlerInv, RepliesInv
  <2>7. h = "RETR" => DownloadInv(q)
    BY <1>3, <2>3, <2>5 DEF HandlerInv, DownloadInv
  <2>8. h = "STOR" => UploadInv(q) /\ DrainedInv(q)
    BY <1>3, <2>3, <2>5 DEF HandlerInv, UploadInv, DrainedInv
  <2>9. HandlerInv(h, q)
    BY <2>2, <2>4, <2>6, <2>7, <2>8 DEF HandlerInv
  <2>10. hd' = [hd EXCEPT ![h] = q]
    BY <1>5, <2>1 DEF DataConnected, Data
  <2>11. h = "STOR" => ConcludedInv(q)
    BY <1>3, <2>3, <2>5 DEF ConcludedInv
  <2>12. ~ q.lost > hd[h].lost
    BY <1>11, <2>3
  <2>13. QED
    BY <1>1, <2>9, <2>10, <2>11, <2>12, HandlerStep
<1>6. CASE DataRefused(h)
  BY <1>6, EventStep DEF DataRefused
<1>7. CASE DataOut(h)
  <2>1. hd[h].bev # "none" /\ hd[h].out # << >>
    BY <1>7 DEF DataOut, Connected
  <2>2. PICK p : p = [hd[h] EXCEPT !.wire = Append(@, Head(hd[h].out)), !.out = Tail(@)]
    OBVIOUS
  <2>3. /\ HandlerInv(h, p) /\ p.bev = hd[h].bev /\ p.told = hd[h].told
        /\ p.lost = hd[h].lost /\ p.due = hd[h].due /\ p.over = hd[h].over
    <3>1. PICK r : r = hd[h]
      OBVIOUS
    <3>2. /\ HandlerInv(h, r) /\ r.out # << >>
          /\ p = [r EXCEPT !.wire = Append(@, Head(r.out)), !.out = Tail(@)]
      BY <1>3, <2>1, <2>2, <3>1
    <3>3. /\ HandlerInv(h, p) /\ p.bev = r.bev /\ p.told = r.told
          /\ p.lost = r.lost /\ p.due = r.due /\ p.over = r.over
      BY <3>2, CellOut, Zenon
    <3>4. QED
      BY <3>1, <3>3
  <2>4. PICK q : q = IF p.out = << >> THEN WriteCB(h, p) ELSE p
    OBVIOUS
  <2>5. HandlerInv(h, q) /\ q.lost = p.lost /\ (h = "STOR" => q = p)
    BY <2>1, <2>3, <2>4, WriteKeeps
  <2>6. hd' = [hd EXCEPT ![h] = q]
    BY <1>7, <2>2, <2>4 DEF DataOut, Data
  <2>7. h = "STOR" => ConcludedInv(q)
    BY <1>3, <2>1, <2>3, <2>5 DEF ConcludedInv
  <2>8. ~ q.lost > hd[h].lost
    BY <1>11, <2>3, <2>5
  <2>9. QED
    BY <1>1, <2>5, <2>6, <2>7, <2>8, HandlerStep
<1>8. CASE DataEnd(h)
  <2>1. hd[h].bev # "none" /\ hd[h].sock = 0 /\ Data(h, EventCB(h, hd[h]))
    BY <1>8 DEF DataEnd
  <2>2. QED
    BY <1>1, <2>1, EventStep
<1>9. CASE DataTimeout(h)
  BY <1>9, EventStep DEF DataTimeout
<1>10. QED
  BY <1>5, <1>6, <1>7, <1>8, <1>9

\* XFtpSTOR::Read with what the socket held.
LEMMA DataInStep ==
    ASSUME IInv, DataIn
    PROVE  IInv' /\ FilesStep
<1>1. Up /\ UNCHANGED <<ctl, cmd, sent, port, crash>> /\ hd["STOR"].bev = "open"
  BY DEF DataIn, Data
<1>2. SessionInv'
  BY <1>1 DEF IInv, SessionInv
<1>3. /\ "STOR" \in Handlers /\ HandlerInv("STOR", hd["STOR"])
      /\ hd["STOR"].lost \in Nat /\ ConcludedInv(hd["STOR"])
  BY <1>1 DEF IInv, HandlersInv, Handlers, UploadsInv, Record
<1>4. PICK p : p = [hd["STOR"] EXCEPT !.ebuf = @ + hd["STOR"].sock, !.sock = 0]
  OBVIOUS
<1>5. /\ p \in Record /\ CountsInv("STOR", p) /\ RepliesInv(p) /\ UploadInv(p)
      /\ p.bev = "open" /\ p.told = hd["STOR"].told
      /\ p.lost = hd["STOR"].lost /\ p.due = hd["STOR"].due /\ p.over = hd["STOR"].over
  BY <1>1, <1>3, <1>4, CellsIn
<1>6. PICK q : q = StorRead(p)
  OBVIOUS
<1>7. /\ HandlerInv("STOR", q) /\ q.bev = "open" /\ q.told = p.told
      /\ q.lost = p.lost /\ q.due = p.due /\ q.over = p.over
  BY <1>5, <1>6, StorReadKeeps
<1>8. hd' = [hd EXCEPT !["STOR"] = q]
  BY <1>4, <1>6 DEF DataIn, Data
<1>9. HandlersInv' /\ SessionEndReleasesAll' /\ UploadsInv' /\ FilesStep
  <2>1. ConcludedInv(q)
    BY <1>1, <1>3, <1>5, <1>7 DEF ConcludedInv
  <2>2. ~ q.lost > hd["STOR"].lost
    BY <1>3, <1>5, <1>7
  <2>3. QED
    BY <1>1, <1>3, <1>7, <1>8, <2>1, <2>2, HandlerStep
<1>10. QED
  BY <1>2, <1>9 DEF IInv

\* The client sends, or ends its side of a data connection.
LEMMA ClientDataStep ==
    ASSUME IInv, NEW h \in Handlers, ClientUpload \/ ClientDataEnd(h)
    PROVE  IInv' /\ FilesStep
<1>1. Up /\ UNCHANGED <<ctl, cmd, sent, port, crash>>
  BY DEF ClientUpload, ClientDataEnd
<1>2. SessionInv'
  BY <1>1 DEF IInv, SessionInv
<1>3. hd \in [Handlers -> Record] /\ \A g \in Handlers : HandlerInv(g, hd[g])
  BY DEF IInv, HandlersInv
<1>4. SUFFICES HandlersInv' /\ SessionEndReleasesAll' /\ UploadsInv' /\ FilesStep
  BY <1>2 DEF IInv
<1>5. CASE ClientUpload
  <2>1. PICK r : r = hd["STOR"]
    OBVIOUS
  <2>2. /\ "STOR" \in Handlers /\ HandlerInv("STOR", r) /\ r \in Record
        /\ r.bev = "open" /\ r.peer = "open" /\ r.up < MaxCells
    BY <1>3, <1>5, <2>1 DEF Handlers, ClientUpload, Connected
  <2>3. PICK q : q = [r EXCEPT !.up = @ + 1, !.sock = @ + 1]
    OBVIOUS
  <2>4. /\ r.written \in Nat /\ r.sock \in Nat /\ r.ebuf \in Nat /\ r.up \in Nat /\ MaxCells \in Nat
        /\ r.written + r.sock + r.ebuf <= r.up
    BY <2>2, CellsFacts, SessionAssumption DEF HandlerInv, CountsInv, Record
  <2>5. r.up + 1 \in Cells /\ r.sock + 1 \in Cells
    BY <2>2, <2>4 DEF Cells
  <2>6. q \in Record
    BY <2>2, <2>3, <2>5 DEF Record
  <2>7. /\ q.up = r.up + 1 /\ q.sock = r.sock + 1
        /\ q.bev = r.bev /\ q.fp = r.fp /\ q.written = r.written /\ q.peer = r.peer
        /\ q.len = r.len /\ q.pos = r.pos /\ q.kept = r.kept /\ q.ebuf = r.ebuf
        /\ q.told = r.told /\ q.stray = r.stray /\ q.mixed = r.mixed
        /\ q.lost = r.lost /\ q.due = r.due /\ q.over = r.over
    BY <2>2, <2>3 DEF Record
  <2>8. CountsInv("STOR", q)
    BY <2>2, <2>4, <2>7 DEF HandlerInv, CountsInv
  <2>9. RepliesInv(q)
    BY <2>2, <2>7 DEF HandlerInv, RepliesInv
  <2>10. UploadInv(q) /\ DrainedInv(q)
    BY <2>2, <2>4, <2>7 DEF HandlerInv, UploadInv, DrainedInv
  <2>11. HandlerInv("STOR", q)
    BY <2>6, <2>8, <2>9, <2>10 DEF HandlerInv, Handlers
  <2>12. hd' = [hd EXCEPT !["STOR"] = q]
    BY <1>3, <1>5, <2>1, <2>2, <2>3 DEF ClientUpload
  <2>13. ConcludedInv(q)
    BY <1>1, <2>1, <2>2, <2>7 DEF IInv, UploadsInv, ConcludedInv
  <2>14. r.lost \in Nat
    BY <2>2 DEF Record
  <2>15. ~ q.lost > hd["STOR"].lost
    BY <2>1, <2>7, <2>14
  <2>16. QED
    BY <1>1, <2>2, <2>11, <2>12, <2>13, <2>15, HandlerStep
<1>6. CASE ClientDataEnd(h)
  <2>1. PICK r : r = hd[h]
    OBVIOUS
  <2>2. HandlerInv(h, r) /\ r \in Record /\ r.bev = "open"
    BY <1>3, <1>6, <2>1 DEF ClientDataEnd, Connected
  <2>3. PICK q : /\ q = [r EXCEPT !.peer = "closed"] \/ q = [r EXCEPT !.peer = "reset", !.sock = 0]
                 /\ hd' = [hd EXCEPT ![h] = q]
    BY <1>3, <1>6, <2>1 DEF ClientDataEnd
  <2>4. q \in Record
    <3>1. r.peer \in {"open", "closed", "reset"} /\ r \in Record /\ 0 \in Cells
      BY <2>2, CellsFacts DEF Record
    <3>2. CASE q = [r EXCEPT !.peer = "closed"]
      BY <3>1, <3>2 DEF Record
    <3>3. CASE q = [r EXCEPT !.peer = "reset", !.sock = 0]
      BY <3>1, <3>3 DEF Record
    <3>4. QED
      BY <2>3, <3>2, <3>3
  <2>5. /\ (q.sock = r.sock /\ q.peer = "closed" /\ r.peer # "reset") \/ (q.sock = 0 /\ q.peer = "reset")
        /\ q.bev = r.bev /\ q.fp = r.fp /\ q.written = r.written /\ q.up = r.up
        /\ q.out = r.out /\ q.wire = r.wire
        /\ q.len = r.len /\ q.pos = r.pos /\ q.kept = r.kept /\ q.ebuf = r.ebuf
        /\ q.told = r.told /\ q.stray = r.stray /\ q.mixed = r.mixed
        /\ q.lost = r.lost /\ q.due = r.due /\ q.over = r.over
    <3>1. r.peer = "open"
      BY <1>6, <2>1 DEF ClientDataEnd, Connected
    <3>2. QED
      BY <2>2, <2>3, <3>1 DEF Record
  <2>6. CountsInv(h, q)
    <3>1. /\ r.written \in Nat /\ r.sock \in Nat /\ r.ebuf \in Nat /\ r.up \in Nat
      BY <2>2, CellsFacts DEF Record
    <3>2. QED
      BY <2>2, <2>5, <3>1 DEF HandlerInv, CountsInv
  <2>7. RepliesInv(q)
    BY <2>2, <2>5 DEF HandlerInv, RepliesInv
  <2>8. h = "RETR" => DownloadInv(q)
    BY <2>2, <2>5 DEF HandlerInv, DownloadInv
  <2>9. h = "STOR" => UploadInv(q) /\ DrainedInv(q)
    BY <2>2, <2>5 DEF HandlerInv, RepliesInv, UploadInv, DrainedInv
  <2>10. HandlerInv(h, q)
    BY <2>4, <2>6, <2>7, <2>8, <2>9 DEF HandlerInv
  <2>11. h = "STOR" => ConcludedInv(q)
    BY <1>1, <2>1, <2>2, <2>5 DEF IInv, UploadsInv, ConcludedInv
  <2>12. r.lost \in Nat
    BY <2>2 DEF Record
  <2>13. ~ q.lost > hd[h].lost
    BY <2>1, <2>5, <2>12
  <2>14. QED
    BY <1>1, <2>3, <2>10, <2>11, <2>13, HandlerStep
<1>7. QED
  BY <1>5, <1>6

\* The session is deleted with all its handlers.
LEMMA EndStep ==
    ASSUME IInv, CtlEvent
    PROVE  IInv' /\ FilesStep
<1>1. ctl' = "gone" /\ UNCHANGED <<cmd, sent, port, crash>>
  BY DEF CtlEvent
<1>2. hd' = [h \in Handlers |-> ClosePORT(hd[h])]
  BY DEF CtlEvent
<1>3. ASSUME NEW h \in Handlers
      PROVE  /\ HandlerInv(h, hd'[h]) /\ hd'[h].bev = "none" /\ ~ hd'[h].fp /\ hd'[h].sock = 0
             /\ hd'[h].lost = hd[h].lost /\ (hd'[h].lost = 0 => hd'[h].kept = hd'[h].written)
  <2>1. HandlerInv(h, hd[h])
    BY DEF IInv, HandlersInv
  <2>2. hd'[h] = ClosePORT(hd[h])
    BY <1>2
  <2>3. QED
    BY <2>1, <2>2, ClosePORTKeeps
<1>4. HandlersInv'
  <2>1. hd' \in [Handlers -> Record]
    <3>1. ASSUME NEW h \in Handlers PROVE ClosePORT(hd[h]) \in Record
      BY <1>2, <1>3 DEF HandlerInv
    <3>2. QED
      BY <1>2, <3>1
  <2>2. QED
    BY <1>3, <2>1 DEF HandlersInv, HandlerInv, CountsInv, RepliesInv, DownloadInv, UploadInv,
                      DrainedInv, InOrder, Spans, Begins
<1>5. SessionEndReleasesAll'
  BY <1>3 DEF SessionEndReleasesAll
<1>6. UploadsInv'
  BY <1>1 DEF UploadsInv, Up
<1>7. SessionInv'
  BY <1>1 DEF IInv, SessionInv
<1>9. FilesStep
  <2>1. \A h \in Handlers : hd[h].lost \in Nat
    BY DEF IInv, HandlersInv, Record
  <2>2. QED
    BY <1>3, <2>1 DEF FilesStep
<1>8. QED
  BY <1>4, <1>5, <1>6, <1>7, <1>9 DEF IInv

\* Commands and replies that touch no handler.
LEMMA ControlStep ==
    ASSUME IInv, ParseSimple \/ ParsePort \/ Quit
                 \/ \E c \in Handlers \union {"SIMPLE", "PORT"} : Command(c)
    PROVE  IInv' /\ FilesStep
<1>1. UNCHANGED hd /\ (ctl' # "gone" \/ UNCHANGED ctl) /\ (Up' => Up)
  BY DEF ParseSimple, ParsePort, Parse, Quit, Command, Up
<1>2. HandlersInv' /\ SessionEndReleasesAll' /\ UploadsInv' /\ FilesStep
  BY <1>1, QuietStep
<1>3. CASE ParseSimple \/ ParsePort
  <2>1. SessionInv'
    BY <1>3 DEF ParseSimple, ParsePort, Parse, IInv, SessionInv, Ports
  <2>2. QED
    BY <1>2, <2>1 DEF IInv
<1>4. CASE Quit
  <2>1. SessionInv'
    BY <1>4 DEF Quit, IInv, SessionInv
  <2>2. QED
    BY <1>2, <2>1 DEF IInv
<1>5. CASE \E c \in Handlers \union {"SIMPLE", "PORT"} : Command(c)
  <2>1. SessionInv'
    <3>1. PICK c \in Handlers \union {"SIMPLE", "PORT"} : Command(c)
      BY <1>5
    <3>2. /\ cmd' = c /\ UNCHANGED <<ctl, port, crash>>
          /\ sent' = sent + 1 /\ sent \in 0 .. MaxCmds /\ sent < MaxCmds
      BY <3>1 DEF Command, IInv, SessionInv
    <3>3. sent' \in 0 .. MaxCmds
      BY <3>2, SessionAssumption
    <3>4. QED
      BY <3>2, <3>3 DEF IInv, SessionInv
  <2>2. QED
    BY <1>2, <2>1 DEF IInv
<1>6. QED
  BY <1>3, <1>4, <1>5

-----------------------------------------------------------------------------

\* Each action preserves the invariant, and overwrites fp only where a command of
\* the same handler comes over its own running connection.
LEMMA NextStep == ASSUME IInv, [Next]_vars PROVE IInv' /\ FilesStep
<1>1. CASE UNCHANGED vars
  <2>1. SessionInv' /\ UNCHANGED hd /\ UNCHANGED ctl /\ (Up' => Up)
    BY <1>1 DEF vars, IInv, SessionInv, Up
  <2>2. QED
    BY <2>1, QuietStep DEF IInv
<1>2. CASE ParseList \/ ParseRetr \/ ParseStor
  BY <1>2, ParseStep
<1>3. CASE DataIn
  BY <1>3, DataInStep
<1>4. CASE \E h \in Handlers : \/ DataConnected(h) \/ DataRefused(h) \/ DataOut(h)
                               \/ DataEnd(h) \/ DataTimeout(h)
  BY <1>4, DataStep
<1>5. CASE CtlEvent
  BY <1>5, EndStep
<1>6. CASE ClientUpload \/ \E h \in Handlers : ClientDataEnd(h)
  <2>1. "STOR" \in Handlers
    BY DEF Handlers
  <2>2. QED
    BY <1>6, <2>1, ClientDataStep
<1>7. CASE ParseSimple \/ ParsePort \/ Quit
           \/ \E c \in Handlers \union {"SIMPLE", "PORT"} : Command(c)
  BY <1>7, ControlStep
<1>8. QED
  BY <1>1, <1>2, <1>3, <1>4, <1>5, <1>6, <1>7, Zenon DEF Next, Server

\* The invariant holds in every reachable state.
THEOREM Inductive == Spec => []IInv
<1>1. IInv /\ [Next]_vars => IInv'
  BY NextStep
<1>2. QED
  BY <1>1, InitInv, PTL DEF Spec

\* Every variable and every field of a handler's record has the type the code's
\* declarations give it.
THEOREM TypeCorrect == Spec => []TypeOK
<1>1. IInv => TypeOK
  <2> SUFFICES ASSUME IInv PROVE TypeOK
    OBVIOUS
  <2>1. ASSUME NEW h \in Handlers PROVE HandlerOK(hd[h])
    <3>1. hd[h] \in Record /\ hd[h].pos <= hd[h].len
      BY DEF IInv, HandlersInv, HandlerInv, CountsInv
    <3>2. hd[h].pos \in 0 .. hd[h].len
      <4>1. hd[h].pos \in Nat /\ hd[h].len \in Nat
        BY <3>1, CellsFacts DEF Record
      <4>2. QED
        BY <3>1, <4>1
    <3>3. QED
      BY <3>1, <3>2 DEF HandlerOK, Record, Cells, Ports
  <2>2. DOMAIN hd = Handlers
    BY DEF IInv, HandlersInv
  <2>3. QED
    BY <2>1, <2>2, Zenon DEF IInv, SessionInv, Ports, TypeOK
<1>2. QED
  BY <1>1, Inductive, PTL

\* A 226 always answers a 150 or 125 that is still open (ResCMD in the callbacks
\* of XFtpLIST, XFtpRETR and XFtpSTOR).
THEOREM RepliesOnlyOnce == Spec => []CompleteOnlyOnce
<1>1. IInv => CompleteOnlyOnce
  BY DEF IInv, HandlersInv, HandlerInv, RepliesInv, CompleteOnlyOnce
<1>2. QED
  BY <1>1, Inductive, PTL

\* Only a command that comes over the running connection of its own handler leaves
\* a file open that nothing drives: no end of a connection and no PORT does.
THEOREM FilesAreDriven == Spec => OpenFileIsDriven
<1>1. ASSUME IInv, [Next]_vars
      PROVE  [\A h \in Handlers : LeftOpen(hd'[h]) > LeftOpen(hd[h]) =>
                                     cmd = h /\ hd[h].bev # "none"]_vars
  <2>1. IInv' /\ FilesStep
    BY <1>1, NextStep
  <2>2. ASSUME NEW h \in Handlers, LeftOpen(hd'[h]) > LeftOpen(hd[h])
        PROVE  cmd = h /\ hd[h].bev # "none"
    <3>1. /\ hd[h] \in Record /\ (hd[h].fp => hd[h].bev # "none")
          /\ hd'[h] \in Record /\ (hd'[h].fp => hd'[h].bev # "none")
      BY <1>1, <2>1 DEF IInv, HandlersInv, HandlerInv, RepliesInv
    <3>2. LeftOpen(hd[h]) = hd[h].lost /\ LeftOpen(hd'[h]) = hd'[h].lost
      BY <3>1 DEF LeftOpen, Record
    <3>3. QED
      BY <2>1, <2>2, <3>1, <3>2 DEF FilesStep
  <2>3. QED
    BY <2>2
<1>2. QED
  BY <1>1, Inductive, PTL DEF Spec, OpenFileIsDriven

\* The deletion of the session, in whatever state its transfers are, releases the
\* connections and files of all its handlers, but for FILEs that were overwritten.
THEOREM EndReleasesAll == Spec => []SessionEndReleasesAll
<1>1. IInv => SessionEndReleasesAll
  BY DEF IInv
<1>2. QED
  BY <1>1, Inductive, PTL

\* A RETR that is reported complete has put the whole file on the socket, in
\* order.
THEOREM DownloadsAreComplete == Spec => []DownloadComplete
<1>1. IInv => DownloadComplete
  <2> SUFFICES ASSUME IInv PROVE DownloadComplete
    OBVIOUS
  <2>1. hd["RETR"] \in Record /\ DownloadInv(hd["RETR"])
    BY DEF IInv, HandlersInv, HandlerInv, Handlers
  <2>2. hd["RETR"].wire \in Seq(Cells) /\ hd["RETR"].len \in Nat
    BY <2>1, CellsFacts DEF Record
  <2>4. Len(hd["RETR"].wire) \in Nat
    BY <2>2
  <2>3. QED
    BY <2>1, <2>2, <2>4 DEF DownloadInv, Begins, DownloadComplete
<1>2. QED
  BY <1>1, Inductive, PTL

\* A STOR that is reported complete to a client that ended its side in good order
\* has everything the client sent in the closed file.
THEOREM UploadsAreKept == Spec => []UploadKept
<1>1. IInv => UploadKept
  BY DEF IInv, HandlersInv, HandlerInv, UploadInv, UploadKept, Handlers
<1>2. QED
  BY <1>1, Inductive, PTL

\* Whatever ends the data connection of a STOR, its client is answered; one reply is
\* missing for each STOR that came over another.
THEOREM UploadsAreConcluded == Spec => []UploadConcluded
<1>1. IInv => UploadConcluded
  <2>1. "STOR" \in Handlers
    BY DEF Handlers
  <2>2. ASSUME IInv PROVE hd["STOR"].due \in Nat /\ hd["STOR"].over \in Nat
    BY <2>1, <2>2 DEF IInv, HandlersInv, Record
  <2>3. QED
    BY <2>2 DEF IInv, UploadsInv, ConcludedInv, UploadConcluded
<1>2. QED
  BY <1>1, Inductive, PTL
===============================================================================
