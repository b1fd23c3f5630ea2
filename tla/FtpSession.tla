------------------------------ MODULE FtpSession ------------------------------
(***************************************************************************)
(* One FTP session of ch10 on its worker's event loop: the command channel *)
(* (XFtpServerCMD) and the three handlers that open data connections       *)
(* (XFtpLIST, XFtpRETR, XFtpSTOR), each with its own bufferevent and file. *)
(* The loop is single threaded, so a step is one callback; what varies is  *)
(* the order in which commands, data, connection events and timeouts reach *)
(* the callbacks, and what the client does meanwhile.                      *)
(*                                                                         *)
(* A file and what is sent of it are sequences of numbered cells; a        *)
(* handler's 1 MiB buffer holds BufCells of them.  A command is in the     *)
(* control buffer alone when the server reads it.                          *)
(***************************************************************************)
EXTENDS Integers, Sequences

CONSTANTS MaxCmds,      \* commands the client sends
          MaxCells,     \* cells in a downloaded or uploaded file
          BufCells      \* sizeof(buf) of XFtpRETR and XFtpSTOR, in cells

ASSUME SessionAssumption == /\ MaxCmds \in Nat /\ MaxCells \in Nat \ {0}
                            /\ BufCells \in Nat \ {0}

Handlers == {"LIST", "RETR", "STOR"}

VARIABLES ctl,      \* the control connection: "open", "closing" by the client,
                    \* or "gone" once the session object is deleted
          cmd,      \* the command waiting in its buffer, "" for none
          sent,     \* commands sent so far
          port,     \* cmdTask->ip and port: "none", or what listens there
          hd,       \* the state of each handler and of its data connection
          crash     \* bufferevent_trigger was called on a null pointer

vars == <<ctl, cmd, sent, port, hd, crash>>

(* A handler's record:                                                      *)
(*   bev    "none", "connecting" or "open";  to    the port it connects to  *)
(*   out    cells in the bufferevent's output;  wire  cells on the socket   *)
(*   fp     a file is open;  len, pos  its length and read position         *)
(*   lost   FILEs that fp pointed to when it was overwritten: still open    *)
(*   buf    XFtpRETR::buf, kept from one read to the next                   *)
(*   peer   the client's end: "open", "closed" or "reset"                   *)
(*   up     cells the client has sent;  sock  of these, still in the socket *)
(*   ebuf   of these, in the bufferevent's input;  written  in the FILE     *)
(*   kept   on disk since fclose                                            *)
(*   told   "none", "owed" after 150/125 until the 226, then "226"          *)
(*   due    150/125s less the 226s that answer one                          *)
(*   stray  a 226 was sent that was not owed                                *)
(*   over   commands that opened a file over a connection still running     *)
(*   mixed  the command came while the connection of the last one still ran *)
Fresh == [bev |-> "none", to |-> "none", out |-> << >>, wire |-> << >>,
          fp |-> FALSE, lost |-> 0, len |-> 0, pos |-> 0, buf |-> [i \in 1 .. BufCells |-> 0],
          peer |-> "open", up |-> 0, sock |-> 0, ebuf |-> 0, written |-> 0,
          kept |-> 0, told |-> "none", due |-> 0, stray |-> FALSE, over |-> 0, mixed |-> FALSE]

Init == /\ ctl = "open" /\ cmd = "" /\ sent = 0 /\ port = "none"
        /\ hd = [h \in Handlers |-> Fresh]
        /\ crash = FALSE

-----------------------------------------------------------------------------
(* XFtpTask: what the handlers share.  Each operator maps a handler's record *)
(* to the record after the call.                                             *)

\* Without a PORT the call returns silently; else a running connection of the
\* handler is dropped for a new one.
ConnectoPORT(r) ==
    IF port = "none" THEN r
    ELSE [r EXCEPT !.bev = "connecting", !.to = port, !.out = << >>, !.wire = << >>,
                   !.peer = "open", !.up = 0, !.sock = 0, !.ebuf = 0]

ClosePORT_Mutant(r) == [r EXCEPT !.bev = "none", !.out = << >>, !.sock = 0, !.ebuf = 0]

\* Frees the bufferevent with what it still holds, and closes the file.
ClosePORT(r) ==
    [r EXCEPT !.bev = "none", !.out = << >>, !.sock = 0, !.ebuf = 0,
              !.fp = FALSE, !.kept = IF r.fp THEN r.written ELSE @]

Send(r, cells) == IF r.bev = "none" THEN r ELSE [r EXCEPT !.out = @ \o cells]

\* ResCMD with 150 or 125, and with 226.
Preliminary(r) == [r EXCEPT !.told = "owed", !.due = @ + 1]
Complete(r)    == [r EXCEPT !.told = "226", !.stray = @ \/ r.told # "owed",
                            !.due = IF r.told = "owed" THEN @ - 1 ELSE @]

\* fp = fopen(...): a file that fp pointed to stays open, and nothing can close it.
Lose(r)       == [r EXCEPT !.lost = IF r.fp THEN @ + 1 ELSE @]
Open(r, n)    == [Lose(r) EXCEPT !.fp = TRUE, !.len = n, !.pos = 0, !.written = 0,
                                 !.kept = 0, !.mixed = r.bev # "none",
                                 !.over = IF r.bev = "none" THEN @ ELSE @ + 1]
OpenFailed(r) == [Lose(r) EXCEPT !.fp = FALSE, !.mixed = @ \/ r.bev # "none"]

-----------------------------------------------------------------------------
(* The handlers' callbacks. *)

ListWrite(r) == ClosePORT(Complete(r))

\* A read shorter than buf is taken for the end of the file.
RetrWrite_Mutant(r) ==
    LET n   == IF r.len - r.pos < BufCells THEN r.len - r.pos ELSE BufCells
        buf == [i \in 1 .. BufCells |-> IF i <= n THEN r.pos + i ELSE r.buf[i]]
    IN  CASE ~ r.fp                   -> r
          [] r.fp /\ n < BufCells     -> ClosePORT(Complete(Send([r EXCEPT !.buf = buf], buf)))
          [] r.fp /\ n = BufCells     -> Send([r EXCEPT !.buf = buf, !.pos = @ + n], buf)

\* One fread into buf; whatever its length, the whole buf is sent.
RetrWrite(r) ==
    LET n   == IF r.len - r.pos < BufCells THEN r.len - r.pos ELSE BufCells
        buf == [i \in 1 .. BufCells |-> IF i <= n THEN r.pos + i ELSE r.buf[i]]
    IN  CASE ~ r.fp         -> r
          [] r.fp /\ n = 0  -> ClosePORT(Complete(r))
          [] r.fp /\ n # 0  -> Send([r EXCEPT !.buf = buf, !.pos = @ + n], buf)

\* XFtpTask::WriteCB; XFtpSTOR does not override Write.
WriteCB(h, r) == CASE h = "LIST" -> ListWrite(r)
                   [] h = "RETR" -> RetrWrite(r)
                   [] h = "STOR" -> r

\* A peek that does not drain the input, and a single read in place of the loop.
StorRead_Mutant1(r) == IF r.fp THEN [r EXCEPT !.written = @ + r.ebuf] ELSE r
StorRead_Mutant2(r) ==
    LET n == IF r.ebuf < BufCells THEN r.ebuf ELSE BufCells
    IN  IF r.fp THEN [r EXCEPT !.written = @ + n, !.ebuf = @ - n] ELSE r

\* Reads until the input is empty.
StorRead(r) == IF r.fp THEN [r EXCEPT !.written = @ + r.ebuf, !.ebuf = 0] ELSE r

\* Event, on EOF, error and timeout alike; only XFtpSTOR tells the client.
ListEvent(r) == ClosePORT(r)
RetrEvent(r) == ClosePORT(r)

\* XFtpSTOR as silent as the other two.
StorEvent_Mutant(r) == ClosePORT(r)

StorEvent(r) == Complete(ClosePORT(r))

EventCB(h, r) == CASE h = "LIST" -> ListEvent(r)
                   [] h = "RETR" -> RetrEvent(r)
                   [] h = "STOR" -> StorEvent(r)

-----------------------------------------------------------------------------
(* The client. *)

Up == ~ crash /\ ctl # "gone"

Command(c) == /\ Up /\ ctl = "open" /\ cmd = "" /\ sent < MaxCmds
              /\ cmd' = c
              /\ sent' = sent + 1
              /\ UNCHANGED <<ctl, port, hd, crash>>

Quit == /\ Up /\ ctl = "open"
        /\ ctl' = "closing"
        /\ UNCHANGED <<cmd, sent, port, hd, crash>>

Connected(r) == r.bev = "open" /\ r.peer = "open"

ClientUpload == /\ Up /\ Connected(hd["STOR"]) /\ hd["STOR"].up < MaxCells
                /\ hd' = [hd EXCEPT !["STOR"].up = @ + 1, !["STOR"].sock = @ + 1]
                /\ UNCHANGED <<ctl, cmd, sent, port, crash>>

\* A reset loses what the server has not read yet.
ClientDataEnd(h) ==
    /\ Up /\ Connected(hd[h])
    /\ \/ hd' = [hd EXCEPT ![h].peer = "closed"]
       \/ hd' = [hd EXCEPT ![h].peer = "reset", ![h].sock = 0]
    /\ UNCHANGED <<ctl, cmd, sent, port, crash>>

-----------------------------------------------------------------------------
(* Commands: XFtpServerCMD::Read finds the handler and calls its Parse. *)

Parse(c) == Up /\ cmd = c /\ cmd' = "" /\ UNCHANGED <<ctl, sent>>

\* USER, PWD, CWD, CDUP and what is not registered: a reply and nothing else.
ParseSimple == Parse("SIMPLE") /\ UNCHANGED <<port, hd, crash>>

\* A client may be listening there or not; port 0 counts as none, and a
\* malformed argument is refused.
ParsePort == /\ Parse("PORT")
             /\ port' \in {"listening", "refusing", "none", port}
             /\ UNCHANGED <<hd, crash>>

\* An ls that fails gives an empty listing, and Send does nothing with it.
ParseList ==
    /\ Parse("LIST")
    /\ \E listing \in {<< >>, <<1>>} :
          hd' = [hd EXCEPT !["LIST"] = Send(Preliminary(ConnectoPORT(@)), listing)]
    /\ UNCHANGED <<port, crash>>

\* bufferevent_trigger runs the callback at once: EV_WRITE when no output waits,
\* EV_READ always.
TriggerWrite(r) == IF r.out = << >> THEN RetrWrite(r) ELSE r
TriggerRead(r)  == StorRead(r)

\* The callback is triggered before the 150 is sent.
ParseRetr_Mutant ==
    /\ Parse("RETR")
    /\ \/ hd' = [hd EXCEPT !["RETR"] = OpenFailed(@)] /\ UNCHANGED crash
       \/ \E n \in 0 .. MaxCells :
             LET r == ConnectoPORT(Open(hd["RETR"], n))
             IN  IF r.bev = "none"
                 THEN crash' = TRUE /\ UNCHANGED hd
                 ELSE hd' = [hd EXCEPT !["RETR"] = Preliminary(TriggerWrite(r))]
                      /\ UNCHANGED crash
    /\ UNCHANGED port

ParseRetr ==
    /\ Parse("RETR")
    /\ \/ hd' = [hd EXCEPT !["RETR"] = OpenFailed(@)] /\ UNCHANGED crash
       \/ \E n \in 0 .. MaxCells :
             LET r == Preliminary(ConnectoPORT(Open(hd["RETR"], n)))
             IN  IF r.bev = "none"
                 THEN crash' = TRUE /\ UNCHANGED hd
                 ELSE hd' = [hd EXCEPT !["RETR"] = TriggerWrite(r)] /\ UNCHANGED crash
    /\ UNCHANGED port

ParseStor ==
    /\ Parse("STOR")
    /\ \/ hd' = [hd EXCEPT !["STOR"] = OpenFailed(@)] /\ UNCHANGED crash
       \/ LET r == Preliminary(ConnectoPORT(Open(hd["STOR"], 0)))
          IN  IF r.bev = "none"
              THEN crash' = TRUE /\ UNCHANGED hd
              ELSE hd' = [hd EXCEPT !["STOR"] = TriggerRead(r)] /\ UNCHANGED crash
    /\ UNCHANGED port

\* calls_del was never filled: the handlers outlive their session.
CtlEvent_Mutant == /\ Up /\ cmd = ""
                   /\ ctl' = "gone"
                   /\ UNCHANGED <<cmd, sent, port, hd, crash>>

\* The end of the control connection, or 300 s without a command: the session
\* and its handlers are deleted, in the middle of a transfer or not.
CtlEvent == /\ Up /\ cmd = ""
            /\ ctl' = "gone"
            /\ hd' = [h \in Handlers |-> ClosePORT(hd[h])]
            /\ UNCHANGED <<cmd, sent, port, crash>>

-----------------------------------------------------------------------------
(* Data connections. *)

Data(h, r) == hd' = [hd EXCEPT ![h] = r] /\ UNCHANGED <<ctl, cmd, sent, port, crash>>

\* BEV_EVENT_CONNECTED is only logged.
DataConnected(h) == /\ Up /\ hd[h].bev = "connecting" /\ hd[h].to = "listening"
                    /\ Data(h, [hd[h] EXCEPT !.bev = "open"])

DataRefused(h) == /\ Up /\ hd[h].bev = "connecting" /\ hd[h].to = "refusing"
                  /\ Data(h, EventCB(h, hd[h]))

\* The write callback comes when the last cell of the output is on the socket.
DataOut(h) ==
    /\ Up /\ Connected(hd[h]) /\ hd[h].out # << >>
    /\ LET r == [hd[h] EXCEPT !.wire = Append(@, Head(hd[h].out)), !.out = Tail(@)]
       IN  Data(h, IF r.out = << >> THEN WriteCB(h, r) ELSE r)

\* libevent moves what the socket holds to the input and calls Read.
DataIn == /\ Up /\ hd["STOR"].bev = "open" /\ hd["STOR"].sock > 0
          /\ Data("STOR", StorRead([hd["STOR"] EXCEPT !.ebuf = @ + hd["STOR"].sock,
                                                      !.sock = 0]))

\* EOF once everything is read, or the reset.
DataEnd(h) == /\ Up /\ hd[h].bev = "open" /\ hd[h].peer # "open" /\ hd[h].sock = 0
              /\ Data(h, EventCB(h, hd[h]))

\* The 60 s are given to bufferevent_set_timeouts as the write timeout.
DataTimeout_Mutant(h) == /\ Up /\ hd[h].bev # "none" /\ hd[h].out # << >>
                         /\ Data(h, EventCB(h, hd[h]))

\* Nothing was read from the connection for 60 s: also when the handler only
\* writes, and when it is still connecting.
DataTimeout(h) == /\ Up /\ hd[h].bev # "none" /\ hd[h].sock = 0
                  /\ Data(h, EventCB(h, hd[h]))

Server == \/ ParseSimple \/ ParsePort \/ ParseList \/ ParseRetr \/ ParseStor
          \/ DataIn
          \/ \E h \in Handlers : DataConnected(h) \/ DataRefused(h) \/ DataOut(h)
                                 \/ DataEnd(h)

Next == \/ Server \/ CtlEvent
        \/ \E h \in Handlers : DataTimeout(h) \/ ClientDataEnd(h)
        \/ \E c \in Handlers \union {"SIMPLE", "PORT"} : Command(c)
        \/ Quit \/ ClientUpload

Spec == Init /\ [][Next]_vars

\* The loop runs the callbacks that are due, and time passes on each connection.
FairSpec == /\ Spec
            /\ WF_vars(Server)
            /\ \A h \in Handlers : WF_vars(DataTimeout(h))

-----------------------------------------------------------------------------
(* Correctness. *)

HandlerOK(r) ==
    /\ r.bev \in {"none", "connecting", "open"}
    /\ r.to \in {"none", "listening", "refusing"}
    /\ r.out \in Seq(0 .. MaxCells) /\ r.wire \in Seq(0 .. MaxCells)
    /\ r.fp \in BOOLEAN /\ r.len \in 0 .. MaxCells /\ r.pos \in 0 .. r.len
    /\ r.buf \in [1 .. BufCells -> 0 .. MaxCells]
    /\ r.peer \in {"open", "closed", "reset"}
    /\ r.up \in 0 .. MaxCells
    /\ r.sock \in 0 .. MaxCells /\ r.ebuf \in 0 .. MaxCells
    /\ r.written \in 0 .. MaxCells /\ r.kept \in 0 .. MaxCells
    /\ r.told \in {"none", "owed", "226"}
    /\ r.stray \in BOOLEAN /\ r.mixed \in BOOLEAN
    /\ r.lost \in Nat /\ r.due \in Nat /\ r.over \in Nat

TypeOK == /\ ctl \in {"open", "closing", "gone"}
          /\ cmd \in Handlers \union {"SIMPLE", "PORT", ""}
          /\ sent \in 0 .. MaxCmds
          /\ port \in {"none", "listening", "refusing"}
          /\ DOMAIN hd = Handlers /\ \A h \in Handlers : HandlerOK(hd[h])
          /\ crash \in BOOLEAN

\* A 226 always answers a 150 or 125 that is still open: no transfer is reported
\* complete twice or before it was announced, although callbacks run inside Parse
\* (XFtpRETR.cpp:18-21) and both a write and an event callback can end it.
CompleteOnlyOnce == \A h \in Handlers : ~ hd[h].stray

\* Only a command of the same handler that comes over its running connection
\* leaves a file open that nothing drives (XFtpRETR.cpp:17, XFtpSTOR.cpp:39): the
\* end of a connection, by EOF, error, timeout or refusal, or a PORT, never does.
LeftOpen(r) == r.lost + (IF r.fp /\ r.bev = "none" THEN 1 ELSE 0)
OpenFileIsDriven ==
    [][\A h \in Handlers :
           LeftOpen(hd'[h]) > LeftOpen(hd[h]) => cmd = h /\ hd[h].bev # "none"]_vars

\* Deleting the session in the middle of transfers closes every data connection
\* and the file of every handler (XFtpServerCMD.cpp:103-108, XFtpTask.cpp:98-100);
\* what was written is on disk, unless another command had overwritten fp: that
\* FILE stays open with what its buffer holds.
SessionEndReleasesAll ==
    ctl = "gone" => \A h \in Handlers :
        /\ hd[h].bev = "none" /\ ~ hd[h].fp /\ hd[h].sock = 0
        /\ hd[h].lost = 0 => hd[h].kept = hd[h].written

\* When RETR reports 226, the whole file is on the socket in order: none of it is
\* left in the output that ClosePORT throws away (XFtpRETR.cpp:31-38).  Not so for
\* a client that sends the next RETR before the last one is over.
DownloadComplete ==
    LET r == hd["RETR"]
    IN  r.told = "226" /\ ~ r.mixed => Len(r.wire) >= r.len /\ \A i \in 1 .. r.len : r.wire[i] = i

\* When STOR reports 226 to a client that closed its end in good order, all it
\* sent is in the closed file (XFtpSTOR.cpp:14-27); with the same exception.
UploadKept ==
    LET r == hd["STOR"]
    IN  r.told = "226" /\ r.peer = "closed" /\ ~ r.mixed => r.kept = r.up

\* Whatever ends a STOR's data connection, EOF, error, timeout or refusal, a 226
\* goes out with it.  Only a STOR that comes over a running one costs a reply, and
\* exactly one: ConnectoPORT frees the first connection in silence
\* (XFtpTask.cpp:19-22) or, without a PORT, leaves both commands one connection.
UploadConcluded ==
    LET r == hd["STOR"]
    IN  Up /\ r.bev = "none" => r.told # "owed" /\ r.due = r.over

\* No data connection stays open for ever: the 60 s timeout ends it if nothing
\* else does.
DataConnectionsEnd ==
    \A h \in Handlers : hd[h].bev # "none" ~> hd[h].bev = "none" \/ ~ Up

\* "Every byte of the file is sent as it is": what the client got is the file.
DownloadExact ==
    LET r == hd["RETR"]
    IN  r.told = "226" /\ ~ r.mixed => r.wire = [i \in 1 .. r.len |-> i]

\* "After the command the server returns its result": every transfer that was
\* announced is concluded when its data connection is gone.
EveryTransferConcluded ==
    Up => \A h \in Handlers : hd[h].bev = "none" => hd[h].told # "owed"
=============================================================================
