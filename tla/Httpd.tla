---------------------------------- MODULE Httpd ----------------------------------
(***************************************************************************)
(* The HTTP server of ch09 (httpSrv.cpp): a thread for each connection     *)
(* reads the request, and answers itself or forks a script, feeds it the   *)
(* body through one pipe and relays its output from another.  A fork       *)
(* copies every descriptor the process has at that moment, those of the    *)
(* other threads' connections and pipes included.                          *)
(*                                                                         *)
(* A request is its request line, its headers and its body; the headers    *)
(* arrive together.  Descriptors whose closing nobody can observe (reading *)
(* ends of cgi_output, writing ends of cgi_input) are left out.            *)
(***************************************************************************)
EXTENDS Integers, Sequences, FiniteSets

CONSTANTS Threads,      \* the connections, a thread for each: 1 .. n
          Asked,        \* what they ask together: a set of functions of the threads
          PipeCap,      \* bytes a pipe holds
          OutLen,       \* bytes a script writes
          FileLines,    \* lines of a file, as fgets cuts them
          MaxFaults     \* calls that fail for want of resources

Server == 0             \* the server among the holders of a descriptor

VARIABLES peer,         \* "idle", "open" or "left"
          req,          \* what the client asks
          sent, rd,     \* parts of the request sent, and read by the server
          pc,           \* where the thread is, "none" before it exists
          moved,        \* i of the loop over the body
          reply,        \* what was sent to the client
          sock,         \* who holds the connection's descriptor
          outW, inR,    \* ... the script's ends of cgi_output and cgi_input
          inPipe, outPipe,
          kid,          \* the script: "none", "run" or "exit"
          taken, made,  \* what it has read, and how much it has written
          cut,          \* the connection was closed with input unread
          faults, ended

client   == <<peer, req, sent>>
script   == <<kid, taken, made>>
process  == <<faults, ended>>
httpVars == <<client, rd, pc, moved, reply, sock, outW, inR, inPipe, outPipe, script, cut,
              process>>

(* Requests: method, target, Content-Length (-1 for none), bytes of body.  *)
(* The target is missing, a file, one whose last line has no newline (the  *)
(* repository's index.html is one), one that cannot be read, a script, or  *)
(* an executable that execl cannot start (a directory's index.html too).   *)
(* Other negative lengths, with which the script's own allocation fails,   *)
(* are left out.                                                           *)
Request == [method : {"GET", "POST", "PUT"},
            target : {"missing", "file", "tail", "secret", "script", "broken"},
            length : Nat \union {-1}, body : Nat]

ASSUME HttpdAssumption ==
    /\ Server \notin Threads
    /\ Asked \subseteq [Threads -> Request]
    /\ PipeCap \in Nat /\ OutLen \in Nat /\ FileLines \in Nat \ {0} /\ MaxFaults \in Nat

Parts(r) == 2 + r.body
Posts(c) == req[c].method = "POST"
Short(c) == Posts(c) /\ req[c].target \in {"script", "broken"} /\ req[c].body < req[c].length

Holders == {Server} \union Threads

HttpTypeOK == /\ peer \in [Threads -> {"idle", "open", "left"}]
              /\ \A c \in Threads : req[c] \in Request
              /\ \A c \in Threads : sent[c] \in 0 .. Parts(req[c]) /\ rd[c] \in 0 .. sent[c]
              /\ pc \in [Threads -> {"none", "line", "404 head", "file head", "cgi head", "501",
                                     "404", "400", "500", "file", "200", "pipes", "fork", "ends",
                                     "body", "relay", "wait", "close", "done"}]
              /\ moved \in [Threads -> Nat]
              /\ \A h \in {sock, outW, inR} : h \in [Threads -> SUBSET Holders]
              /\ \A c \in Threads : Len(inPipe[c]) <= PipeCap /\ Len(outPipe[c]) <= PipeCap
              /\ kid \in [Threads -> {"none", "run", "exit"}]
              /\ made \in [Threads -> 0 .. OutLen]
              /\ cut \in [Threads -> BOOLEAN]
              /\ faults \in 0 .. MaxFaults /\ ended \in BOOLEAN

HttpInit == /\ peer = [c \in Threads |-> "idle"]
            /\ req \in Asked
            /\ sent = [c \in Threads |-> 0] /\ rd = [c \in Threads |-> 0]
            /\ pc = [c \in Threads |-> "none"]
            /\ moved = [c \in Threads |-> 0]
            /\ reply = [c \in Threads |-> << >>]
            /\ sock = [c \in Threads |-> {}] /\ outW = [c \in Threads |-> {}]
            /\ inR = [c \in Threads |-> {}]
            /\ inPipe = [c \in Threads |-> << >>] /\ outPipe = [c \in Threads |-> << >>]
            /\ kid = [c \in Threads |-> "none"]
            /\ taken = [c \in Threads |-> << >>] /\ made = [c \in Threads |-> 0]
            /\ cut = [c \in Threads |-> FALSE]
            /\ faults = 0 /\ ended = FALSE

-----------------------------------------------------------------------------
(* The clients. *)

Connect(c) == /\ peer[c] = "idle"
              /\ peer' = [peer EXCEPT ![c] = "open"]
              /\ UNCHANGED <<req, sent>>

Over(c) == pc[c] # "none" /\ sock[c] = {}

Submit(c) == /\ peer[c] = "open" /\ ~ Over(c) /\ sent[c] < Parts(req[c])
             /\ sent' = [sent EXCEPT ![c] = @ + 1]
             /\ UNCHANGED <<peer, req>>

Leave(c) == /\ peer[c] = "open" /\ ~ Over(c)
            /\ peer' = [peer EXCEPT ![c] = "left"]
            /\ UNCHANGED <<req, sent>>

Client(c) == /\ ~ ended
             /\ Connect(c) \/ Submit(c) \/ Leave(c)
             /\ UNCHANGED <<rd, pc, moved, reply, sock, outW, inR, inPipe, outPipe, script, cut, process>>

\* What a patient client does: it finishes what it began, and leaves only if it
\* announced more body than it has.
Perseveres(c) == Client(c) /\ peer[c] = "open"
                 /\ (peer'[c] = "left" => Short(c) /\ sent[c] = Parts(req[c]))

-----------------------------------------------------------------------------
(* What the threads' steps are made of. *)

At(c, l)    == ~ ended /\ pc[c] = l
Go(c, l)    == pc' = [pc EXCEPT ![c] = l]
Fails       == faults < MaxFaults /\ faults' = faults + 1

\* get_line and recv return: the part is there, or the client has left.
Comes(c, part) == sent[c] >= part \/ peer[c] = "left"
Consume(c, part) == rd' = [rd EXCEPT ![c] = IF sent[c] < part THEN sent[c] ELSE part]

\* A sequence of sends; SIGPIPE is not ignored, and comes with the second one
\* that a closed peer answers.
SendTo(c, items) == /\ reply' = [reply EXCEPT ![c] = @ \o items]
                    /\ ended' = FALSE \/ (peer[c] = "left" /\ ended' = TRUE)

\* A descriptor goes; the connection ends with the last one, and is reset if
\* the client's input was not read to its end.
Without(h, who) == [c \in Threads |-> h[c] \ {who}]
SocketsAfter(socks) ==
    /\ sock' = socks
    /\ cut' = [c \in Threads |-> cut[c] \/ (sock[c] # {} /\ socks[c] = {} /\ rd[c] < sent[c])]

-----------------------------------------------------------------------------
(* main *)

Accept(c) == /\ ~ ended /\ peer[c] # "idle" /\ pc[c] = "none"
             /\ sock' = [sock EXCEPT ![c] = {Server}]
             /\ \/ Go(c, "line") /\ UNCHANGED faults
                \/ Go(c, "done") /\ Fails               \* pthread_create: no thread, no close
             /\ UNCHANGED <<client, rd, moved, reply, outW, inR, inPipe, outPipe, script, cut, ended>>

AcceptFails == /\ ~ ended /\ Fails
               /\ \E c \in Threads : peer[c] # "idle" /\ pc[c] = "none"
               /\ ended' = TRUE
               /\ UNCHANGED <<client, rd, pc, moved, reply, sock, outW, inR, inPipe, outPipe, script, cut>>

-----------------------------------------------------------------------------
(* accept_request *)

\* The reply comes before the headers are read.
RequestLine_Mutant(c) ==
    /\ At(c, "line") /\ Comes(c, 1) /\ Consume(c, 1)
    /\ Go(c, IF sent[c] = 0 \/ req[c].method = "PUT" THEN "501"
             ELSE CASE req[c].target = "missing" -> "404"
                    [] req[c].target \in {"file", "tail", "secret"} -> "file head"
                    [] req[c].target \in {"script", "broken"} -> "cgi head")
    /\ UNCHANGED <<client, moved, reply, sock, outW, inR, inPipe, outPipe, script, cut, process>>

\* An empty line is no method either.  Whether a script runs is decided by the
\* file's permissions alone, whatever the method asked for.
RequestLine(c) ==
    /\ At(c, "line") /\ Comes(c, 1) /\ Consume(c, 1)
    /\ Go(c, IF sent[c] = 0 \/ req[c].method = "PUT" THEN "501"
             ELSE CASE req[c].target = "missing" -> "404 head"
                    [] req[c].target \in {"file", "tail", "secret"} -> "file head"
                    [] req[c].target \in {"script", "broken"} -> "cgi head")
    /\ UNCHANGED <<client, moved, reply, sock, outW, inR, inPipe, outPipe, script, cut, process>>

\* A POST that ends before its headers has no length.
Length(c) == IF rd[c] < 2 THEN -1 ELSE req[c].length

\* The loop over the headers takes one line too many.
Headers_Mutant(c) ==
    /\ \/ At(c, "404 head") /\ Go(c, "404")
       \/ At(c, "file head") /\ Go(c, "file")
       \/ /\ At(c, "cgi head")
          /\ Go(c, IF Posts(c) /\ (sent[c] < 2 \/ req[c].length = -1) THEN "400" ELSE "200")
    /\ Comes(c, 2) /\ Consume(c, 3)
    /\ UNCHANGED <<client, moved, reply, sock, outW, inR, inPipe, outPipe, script, cut, process>>

Headers(c) ==
    /\ \/ At(c, "404 head") /\ Go(c, "404")
       \/ At(c, "file head") /\ Go(c, "file")
       \/ /\ At(c, "cgi head")
          /\ Go(c, IF Posts(c) /\ (sent[c] < 2 \/ req[c].length = -1) THEN "400" ELSE "200")
    /\ Comes(c, 2) /\ Consume(c, 2)
    /\ UNCHANGED <<client, moved, reply, sock, outW, inR, inPipe, outPipe, script, cut, process>>

\* An error path returns without the close.
Refuse_Mutant(c) == /\ \E status \in {"501", "404", "400", "500"} :
                          At(c, status) /\ SendTo(c, <<status>>)
                    /\ Go(c, IF At(c, "400") THEN "done" ELSE "close")
                    /\ UNCHANGED <<client, rd, moved, sock, outW, inR, inPipe, outPipe, script, cut, faults>>

\* unimplemented, not_found, bad_request and cannot_execute.
Refuse(c) == /\ \E status \in {"501", "404", "400", "500"} :
                   At(c, status) /\ SendTo(c, <<status>>)
             /\ Go(c, "close")
             /\ UNCHANGED <<client, rd, moved, sock, outW, inR, inPipe, outPipe, script, cut, faults>>

headers == <<"200">>

\* The test of feof comes between fgets and send: a last line without a newline,
\* with which fgets meets the end of the file, is not sent.
cat(c) == [k \in 1 .. (IF req[c].target = "tail" THEN FileLines - 1 ELSE FileLines) |-> k]

\* fclose(NULL) after a failed fopen may kill the process.
ServeFile(c) == /\ At(c, "file")
                /\ \/ req[c].target \in {"file", "tail"} /\ SendTo(c, headers \o cat(c))
                   \/ /\ req[c].target = "secret"
                      /\ reply' = [reply EXCEPT ![c] = Append(@, "404")]
                      /\ ended' \in BOOLEAN
                /\ Go(c, "close")
                /\ UNCHANGED <<client, rd, moved, sock, outW, inR, inPipe, outPipe, script, cut, faults>>

Close(c) == /\ At(c, "close")
            /\ SocketsAfter([sock EXCEPT ![c] = @ \ {Server}])
            /\ Go(c, "done")
            /\ UNCHANGED <<client, rd, moved, reply, outW, inR, inPipe, outPipe, script, process>>

-----------------------------------------------------------------------------
(* execute_cgi *)

Status200(c) == /\ At(c, "200") /\ SendTo(c, <<"200">>)
                /\ Go(c, "pipes")
                /\ UNCHANGED <<client, rd, moved, sock, outW, inR, inPipe, outPipe, script, cut, faults>>

Pipes(c) == /\ At(c, "pipes")
            /\ outW' = [outW EXCEPT ![c] = {Server}]
            /\ inR' = [inR EXCEPT ![c] = {Server}]
            /\ Go(c, "fork")
            /\ UNCHANGED <<client, rd, moved, reply, sock, inPipe, outPipe, script, cut, process>>

\* pipe or fork fails: the status line is already out, and what was opened
\* stays open.
PipesFail(c) == /\ At(c, "pipes") /\ Fails
                /\ outW' \in {outW, [outW EXCEPT ![c] = {Server}]}
                /\ Go(c, "500")
                /\ UNCHANGED <<client, rd, moved, reply, sock, inR, inPipe, outPipe, script, cut, ended>>

ForkFails(c) == /\ At(c, "fork") /\ Fails
                /\ Go(c, "500")
                /\ UNCHANGED <<client, rd, moved, reply, sock, outW, inR, inPipe, outPipe, script, cut, ended>>

Inherited(h, k) == [c \in Threads |-> IF Server \in h[c] THEN h[c] \union {k} ELSE h[c]]

\* The script's end of cgi_input is closed before the fork.
Fork_Mutant(c) == /\ At(c, "fork")
                  /\ kid' = [kid EXCEPT ![c] = "run"]
                  /\ sock' = Inherited(sock, c)
                  /\ outW' = Inherited(outW, c)
                  /\ inR' = [Inherited(inR, c) EXCEPT ![c] = {}]
                  /\ Go(c, "ends")
                  /\ UNCHANGED <<client, rd, moved, reply, inPipe, outPipe, taken, made, cut, process>>

Fork(c) == /\ At(c, "fork")
           /\ kid' = [kid EXCEPT ![c] = "run"]
           /\ sock' = Inherited(sock, c)
           /\ outW' = Inherited(outW, c)
           /\ inR' = Inherited(inR, c)
           /\ Go(c, "ends")
           /\ UNCHANGED <<client, rd, moved, reply, inPipe, outPipe, taken, made, cut, process>>

\* The parent keeps its own writing end of cgi_output.
CloseEnds_Mutant(c) ==
    /\ At(c, "ends")
    /\ inR' = [inR EXCEPT ![c] = @ \ {Server}]
    /\ Go(c, IF Posts(c) THEN "body" ELSE "relay")
    /\ UNCHANGED <<client, rd, moved, reply, sock, outW, inPipe, outPipe, script, cut, process>>

CloseEnds(c) ==
    /\ At(c, "ends")
    /\ outW' = [outW EXCEPT ![c] = @ \ {Server}]
    /\ inR' = [inR EXCEPT ![c] = @ \ {Server}]
    /\ Go(c, IF Posts(c) THEN "body" ELSE "relay")
    /\ UNCHANGED <<client, rd, moved, reply, sock, inPipe, outPipe, script, cut, process>>

\* recv's result is not looked at: after the end of the input the last byte
\* is written again (0 stands for the uninitialised c).
Byte(c) == rd[c] - 2

Body(c) == /\ At(c, "body") /\ moved[c] < Length(c)
           /\ Comes(c, rd[c] + 1) /\ Consume(c, rd[c] + 1)
           /\ inR[c] # {} /\ Len(inPipe[c]) < PipeCap
           /\ inPipe' = [inPipe EXCEPT ![c] = Append(@, Byte(c)')]
           /\ moved' = [moved EXCEPT ![c] = @ + 1]
           /\ UNCHANGED <<client, pc, reply, sock, outW, inR, outPipe, script, cut, process>>

\* Nobody can read the pipe any more: SIGPIPE, for the whole server.
BodyKills(c) == /\ At(c, "body") /\ moved[c] < Length(c)
                /\ Comes(c, rd[c] + 1)
                /\ inR[c] = {}
                /\ ended' = TRUE
                /\ UNCHANGED <<client, rd, pc, moved, reply, sock, outW, inR, inPipe, outPipe, script, cut, faults>>

BodyDone(c) == /\ At(c, "body") /\ moved[c] >= Length(c)
               /\ Go(c, "relay")
               /\ UNCHANGED <<client, rd, moved, reply, sock, outW, inR, inPipe, outPipe, script, cut, process>>

Relay(c) == /\ At(c, "relay") /\ outPipe[c] # << >>
            /\ SendTo(c, <<Head(outPipe[c])>>)
            /\ outPipe' = [outPipe EXCEPT ![c] = Tail(@)]
            /\ UNCHANGED <<client, rd, pc, moved, sock, outW, inR, inPipe, script, cut, faults>>

\* A pipe that is empty for the moment is taken for its end.
RelayEnds_Mutant(c) ==
    /\ At(c, "relay") /\ outPipe[c] = << >>
    /\ Go(c, "wait")
    /\ UNCHANGED <<client, rd, moved, reply, sock, outW, inR, inPipe, outPipe, script, cut, process>>

\* read returns 0 when the last copy of the writing end is closed.
RelayEnds(c) == /\ At(c, "relay") /\ outPipe[c] = << >> /\ outW[c] = {}
                /\ Go(c, "wait")
                /\ UNCHANGED <<client, rd, moved, reply, sock, outW, inR, inPipe, outPipe, script, cut, process>>

Waitpid(c) == /\ At(c, "wait") /\ kid[c] = "exit"
              /\ Go(c, "close")
              /\ UNCHANGED <<client, rd, moved, reply, sock, outW, inR, inPipe, outPipe, script, cut, process>>

Thread(c) == \/ RequestLine(c) \/ Headers(c) \/ Refuse(c) \/ ServeFile(c) \/ Close(c)
             \/ Status200(c) \/ Pipes(c) \/ PipesFail(c) \/ Fork(c) \/ ForkFails(c)
             \/ CloseEnds(c) \/ Body(c) \/ BodyKills(c) \/ BodyDone(c)
             \/ Relay(c) \/ RelayEnds(c) \/ Waitpid(c)

-----------------------------------------------------------------------------
(* The script (color.cpp): reads CONTENT_LENGTH bytes of a POST, writes its  *)
(* page, exits.  An executable that execl cannot start exits at once.        *)

Wants(c) == IF Posts(c) THEN Length(c) ELSE 0

KidReads(c) == /\ ~ ended /\ kid[c] = "run" /\ req[c].target = "script"
               /\ Len(taken[c]) < Wants(c) /\ inPipe[c] # << >>
               /\ taken' = [taken EXCEPT ![c] = Append(@, Head(inPipe[c]))]
               /\ inPipe' = [inPipe EXCEPT ![c] = Tail(@)]
               /\ UNCHANGED <<client, rd, pc, moved, reply, sock, outW, inR, outPipe, kid, made, cut, process>>

KidWrites(c) == /\ ~ ended /\ kid[c] = "run" /\ req[c].target = "script"
                /\ Len(taken[c]) >= Wants(c)
                /\ made[c] < OutLen /\ Len(outPipe[c]) < PipeCap
                /\ made' = [made EXCEPT ![c] = @ + 1]
                /\ outPipe' = [outPipe EXCEPT ![c] = Append(@, made'[c])]
                /\ UNCHANGED <<client, rd, pc, moved, reply, sock, outW, inR, inPipe, kid, taken, cut, process>>

KidExits(c) == /\ ~ ended /\ kid[c] = "run"
               /\ req[c].target = "broken" \/ made[c] = OutLen
               /\ kid' = [kid EXCEPT ![c] = "exit"]
               /\ SocketsAfter(Without(sock, c))
               /\ outW' = Without(outW, c)
               /\ inR' = Without(inR, c)
               /\ UNCHANGED <<client, rd, pc, moved, reply, inPipe, outPipe, taken, made, process>>

Kid(c) == KidReads(c) \/ KidWrites(c) \/ KidExits(c)

HttpNext == \/ AcceptFails
            \/ \E c \in Threads : Client(c) \/ Accept(c) \/ Thread(c) \/ Kid(c)

HttpSpec == HttpInit /\ [][HttpNext]_httpVars

\* What main and the thread do for c.
Serves(c) == Accept(c) \/ Thread(c)

\* Threads and scripts run; of the clients nothing is assumed.
HttpFairness == \A c \in Threads : WF_httpVars(Serves(c)) /\ WF_httpVars(Kid(c))

HttpFairSpec == HttpSpec /\ HttpFairness

-----------------------------------------------------------------------------
Undisturbed(c) == peer[c] = "open" /\ faults = 0

(* A client that stays and asks while nothing fails gets one status and    *)
(* behind a 200 each line of its file that ends with a newline, or each    *)
(* byte its own script wrote, in order, however the threads, pipes and     *)
(* scripts of the other connections run.  This is what the program does,   *)
(* not all it is said to do: cat's comment promises the entire contents    *)
(* (httpSrv.cpp:435), and src/README.md:964-965 let a GET without          *)
(* parameters have the file and a POST run a script; here the execute      *)
(* permission alone decides which of the two it is.                        *)
ReplyFits ==
    \A c \in Threads :
       pc[c] \in {"close", "done"} /\ Undisturbed(c) /\ ~ ended =>
          reply[c] = LET r == req[c] IN
             CASE r.method = "PUT" -> <<"501">>
               [] r.method # "PUT" /\ r.target \in {"missing", "secret"} -> <<"404">>
               [] r.method # "PUT" /\ r.target = "file" ->
                    <<"200">> \o [k \in 1 .. FileLines |-> k]
               [] r.method # "PUT" /\ r.target = "tail" ->
                    <<"200">> \o [k \in 1 .. FileLines - 1 |-> k]
               [] r.method = "POST" /\ r.target \in {"script", "broken"} /\ r.length = -1 -> <<"400">>
               [] OTHER -> IF r.target = "broken" THEN <<"200">>
                           ELSE <<"200">> \o [k \in 1 .. OutLen |-> k]

(* The script reads the bytes of the body in order, exactly as many as     *)
(* announced; those a client that has left never sent repeat the last.     *)
BodyReachesScript ==
    \A c \in Threads : \A k \in DOMAIN taken[c] :
       taken[c][k] = IF k <= req[c].body /\ (k <= sent[c] - 2) THEN k ELSE sent[c] - 2

(* When the threads and scripts are through and nothing has failed, no     *)
(* descriptor of a connection or pipe is left open in the server.          *)
NothingLeaks ==
    (/\ ~ ended /\ faults = 0
     /\ \A c \in Threads : pc[c] \in {"none", "done"} /\ kid[c] # "run")
       => \A c \in Threads : sock[c] = {} /\ outW[c] = {} /\ inR[c] = {}

(* A connection is closed over unread input, and its reply put at risk by  *)
(* the reset, only if the request was refused, or has a body nobody asked  *)
(* for or longer than announced.                                           *)
CutOnlyFor ==
    \A c \in Threads : cut[c] =>
       \/ reply[c] # << >> /\ reply[c][1] \in {"501", "400"}
       \/ req[c].target \in {"missing", "file", "tail", "secret"} /\ req[c].body > 0
       \/ req[c].method = "GET" /\ req[c].body > 0
       \/ req[c].length \in 0 .. req[c].body - 1
       \/ faults > 0

(* The server goes down only with a client that has left, a failed accept, *)
(* a file it cannot open, or a script that ends before its input.          *)
StopsOnlyFor ==
    ended => \/ faults > 0
             \/ \E c \in Threads : \/ peer[c] = "left"
                                   \/ req[c].target = "secret" /\ pc[c] = "close"
                                   \/ pc[c] = "body" /\ kid[c] = "exit"

(* Every connection that is accepted comes to its end at the client, who   *)
(* takes the end of the connection for the end of the reply.               *)
EveryReplyEnds == \A c \in Threads : pc[c] # "none" ~> (sock[c] = {} \/ ended \/ faults > 0)

Complete(c) == /\ pc[c] # "none" /\ peer[c] = "open"
               /\ sent[c] = Parts(req[c]) /\ ~ Short(c)

(* ... whatever the other clients do, once its own request is complete: it *)
(* sees the end of its connection if it waits.                             *)
OwnRequestSuffices ==
    \A c \in Threads : Complete(c) ~> (sock[c] = {} \/ peer[c] = "left" \/ ended \/ faults > 0)
===============================================================================
