------------------------------ MODULE Httpd_proofs ------------------------------
(***************************************************************************)
(* Proofs about the HTTP server (Httpd), for any connections, requests,    *)
(* pipe capacity, length of the script's page and number of failing calls. *)
(***************************************************************************)
EXTENDS Httpd, SequenceTheorems, TLAPS

-----------------------------------------------------------------------------
(* The invariant. *)

Places == {"none", "line", "404 head", "file head", "cgi head", "501", "404", "400", "500",
           "file", "200", "pipes", "fork", "ends", "body", "relay", "wait", "close", "done"}

Items == {"200", "404", "400", "501", "500"} \union Nat

HttpTypes ==
    /\ peer \in [Threads -> {"idle", "open", "left"}]
    /\ req \in [Threads -> Request]
    /\ sent \in [Threads -> Nat] /\ rd \in [Threads -> Nat]
    /\ pc \in [Threads -> Places]
    /\ moved \in [Threads -> Nat]
    /\ reply \in [Threads -> Seq(Items)]
    /\ sock \in [Threads -> SUBSET Holders]
    /\ outW \in [Threads -> SUBSET Holders] /\ inR \in [Threads -> SUBSET Holders]
    /\ inPipe \in [Threads -> Seq(Int)] /\ outPipe \in [Threads -> Seq(Nat)]
    /\ kid \in [Threads -> {"none", "run", "exit"}]
    /\ taken \in [Threads -> Seq(Int)] /\ made \in [Threads -> Nat]
    /\ cut \in [Threads -> BOOLEAN]
    /\ faults \in Nat

\* What is counted stays within what there is.
Within(c) == /\ rd[c] <= sent[c] /\ sent[c] <= Parts(req[c])
             /\ Len(inPipe[c]) <= PipeCap /\ Len(outPipe[c]) <= PipeCap
             /\ made[c] <= OutLen

CountsInv == faults <= MaxFaults /\ \A c \in Threads : Within(c)

\* Who holds what: the script as long as it runs, the server while the thread
\* needs it.
Held(c) == /\ \A k \in Threads : k \in sock[c] \union outW[c] \union inR[c] => kid[k] = "run"
           /\ pc[c] = "none" => sock[c] = {}
           /\ pc[c] \notin {"none", "done"} => Server \in sock[c]
           /\ pc[c] = "fork" => Server \in outW[c] /\ Server \in inR[c]
           /\ kid[c] = "run" => c \in outW[c] /\ c \in inR[c]
           /\ faults = 0 => /\ Server \in sock[c] => pc[c] \notin {"none", "done"}
                            /\ Server \in outW[c] \union inR[c] => pc[c] \in {"fork", "ends"}

\* The script runs while the thread is at work for it.
Employed(c) == /\ kid[c] = "run" => pc[c] \in {"ends", "body", "relay"}
               /\ pc[c] \in {"ends", "body", "relay"} => kid[c] # "none"
               /\ kid[c] = "exit" => pc[c] \in {"ends", "body", "relay", "wait", "close", "done"}
               /\ pc[c] = "wait" => kid[c] = "exit" /\ outPipe[c] = << >>
               /\ kid[c] = "none" => made[c] = 0 /\ outPipe[c] = << >> /\ taken[c] = << >>
               /\ req[c].target # "script" => made[c] = 0
               /\ kid[c] = "exit" => req[c].target = "broken" \/ made[c] = OutLen

HoldersInv == \A c \in Threads : Held(c) /\ Employed(c)

\* Where a request can be.
Routed(c) ==
    LET r == req[c] IN
    /\ peer[c] = "idle" => pc[c] = "none"
    /\ pc[c] \in {"404 head", "404"} => r.target = "missing" /\ r.method # "PUT"
    /\ pc[c] \in {"file head", "file"} => r.target \in {"file", "tail", "secret"} /\ r.method # "PUT"
    /\ pc[c] \in {"cgi head", "400", "200", "pipes", "fork", "ends", "body", "relay", "wait"} =>
          r.target \in {"script", "broken"} /\ r.method # "PUT"
    /\ pc[c] = "501" => r.method = "PUT" \/ peer[c] = "left"
    /\ pc[c] = "400" => Posts(c) /\ (r.length = -1 \/ peer[c] = "left")
    /\ pc[c] \in {"200", "pipes", "fork", "ends", "body", "relay", "wait"} /\ Posts(c) =>
          r.length # -1
    /\ pc[c] = "500" => faults > 0

\* What the client was sent, and what its script wrote and is under way.
Relayed(c) == /\ reply[c] # << >> /\ reply[c][1] = "200"
              /\ Len(outPipe[c]) = made[c] + 1 - Len(reply[c])
              /\ \A k \in 2 .. Len(reply[c]) : reply[c][k] = k - 1
              /\ \A k \in 1 .. Len(outPipe[c]) : outPipe[c][k] = Len(reply[c]) + k - 1

\* The reply a request calls for.
DueReply(c) ==
    LET r == req[c] IN
    CASE r.method = "PUT" -> <<"501">>
      [] r.method # "PUT" /\ r.target \in {"missing", "secret"} -> <<"404">>
      [] r.method # "PUT" /\ r.target = "file" -> <<"200">> \o [k \in 1 .. FileLines |-> k]
      [] r.method # "PUT" /\ r.target = "tail" -> <<"200">> \o [k \in 1 .. FileLines - 1 |-> k]
      [] r.method = "POST" /\ r.target \in {"script", "broken"} /\ r.length = -1 -> <<"400">>
      [] OTHER -> IF r.target = "broken" THEN <<"200">>
                  ELSE <<"200">> \o [k \in 1 .. OutLen |-> k]

Answered(c) ==
    /\ pc[c] \in {"none", "line", "404 head", "file head", "cgi head", "501", "404", "400",
                  "file", "200"} => reply[c] = << >>
    /\ pc[c] \in {"pipes", "fork", "ends", "body", "relay", "wait"} => Relayed(c)
    /\ pc[c] \in {"close", "done"} /\ Undisturbed(c) => reply[c] = DueReply(c)

RepliesInv == \A c \in Threads : Routed(c) /\ Answered(c)

\* The k-th byte the script gets.
DueByte(c, k) == IF k <= sent[c] - 2 THEN k ELSE sent[c] - 2

Fed(c) ==
    /\ pc[c] \notin {"body", "relay", "wait", "close", "done"} => moved[c] = 0
    /\ pc[c] = "body" => Posts(c)
    /\ pc[c] \in {"200", "pipes", "fork", "ends", "body"} /\ Posts(c) =>
          sent[c] >= 2 /\ rd[c] = IF moved[c] + 2 <= sent[c] THEN moved[c] + 2 ELSE sent[c]
    /\ moved[c] > 0 /\ moved[c] + 2 > sent[c] => peer[c] = "left"
    /\ Len(inPipe[c]) = moved[c] - Len(taken[c])
    /\ \A k \in 1 .. Len(taken[c]) : taken[c][k] = DueByte(c, k)
    /\ \A k \in 1 .. Len(inPipe[c]) : inPipe[c][k] = DueByte(c, Len(taken[c]) + k)

BytesInv == \A c \in Threads : Fed(c)

\* The request is one the server reads to its end.
Asking(c) == /\ ~ (req[c].target \in {"missing", "file", "tail", "secret"} /\ req[c].body > 0)
             /\ ~ (req[c].method = "GET" /\ req[c].body > 0)
             /\ req[c].length \notin 0 .. req[c].body - 1
             /\ faults = 0

\* The server has read all there will ever be.
Drained(c) == \/ rd[c] = Parts(req[c])
              \/ peer[c] = "left" /\ rd[c] = sent[c]

Emptied(c) ==
    Asking(c) =>
       /\ pc[c] \in {"404", "file", "relay", "wait"} => Drained(c)
       /\ pc[c] \in {"200", "pipes", "fork", "ends", "body"} /\ ~ Posts(c) => Drained(c)
       /\ pc[c] \in {"close", "done"} => \/ Drained(c)
                                         \/ reply[c] # << >> /\ reply[c][1] \in {"501", "400"}

DrainInv == \A c \in Threads : Emptied(c)

\* The body moved is no more than announced, and all of it once the reply is
\* relayed; by then the server holds no end of the pipes that others wait for.
Announced(c) == IF req[c].length > 0 THEN req[c].length ELSE 0

Loaded(c) == /\ moved[c] <= Announced(c)
             /\ pc[c] = "relay" => moved[c] >= Wants(c)
             /\ pc[c] \in {"body", "relay"} => Server \notin outW[c] /\ Server \notin inR[c]

LoadInv == \A c \in Threads : Loaded(c)

HttpIInv == /\ HttpTypes /\ ended \in BOOLEAN /\ CountsInv /\ HoldersInv /\ RepliesInv
            /\ BytesInv /\ DrainInv /\ LoadInv /\ CutOnlyFor /\ StopsOnlyFor

-----------------------------------------------------------------------------
\* The initial state.
LEMMA HttpStarts == HttpInit => HttpIInv
<1> SUFFICES ASSUME HttpInit PROVE HttpIInv
  OBVIOUS
<1>1. req \in [Threads -> Request]
  BY HttpdAssumption DEF HttpInit, HttpdAssumption
<1>2. HttpTypes
  BY <1>1 DEF HttpInit, HttpTypes, Places
<1>3. CountsInv
  BY <1>1, HttpdAssumption DEF HttpInit, CountsInv, Within, Parts, HttpdAssumption, Request
<1>4. HoldersInv
  BY HttpdAssumption DEF HttpInit, HoldersInv, Held, Employed, HttpdAssumption
<1>5. RepliesInv
  BY DEF HttpInit, RepliesInv, Routed, Answered
<1>6. BytesInv
  BY HttpdAssumption DEF HttpInit, BytesInv, Fed, HttpdAssumption
<1>7. DrainInv
  BY DEF HttpInit, DrainInv, Emptied
<1>8. CutOnlyFor /\ StopsOnlyFor /\ ended \in BOOLEAN
  BY DEF HttpInit, CutOnlyFor, StopsOnlyFor
<1>9. LoadInv
  BY <1>1 DEF HttpInit, LoadInv, Loaded, Announced, Request
<1> QED BY <1>2, <1>3, <1>4, <1>5, <1>6, <1>7, <1>8, <1>9 DEF HttpIInv

-----------------------------------------------------------------------------
(* A step of one connection, its client, thread or script, leaves those of *)
(* the others alone, but for who holds their descriptors.                  *)

Steps(c) == Client(c) \/ Accept(c) \/ Thread(c) \/ Kid(c)

Stays(d) == /\ peer'[d] = peer[d] /\ sent'[d] = sent[d] /\ rd'[d] = rd[d]
            /\ pc'[d] = pc[d] /\ moved'[d] = moved[d] /\ reply'[d] = reply[d]
            /\ inPipe'[d] = inPipe[d] /\ outPipe'[d] = outPipe[d]
            /\ kid'[d] = kid[d] /\ taken'[d] = taken[d] /\ made'[d] = made[d]

\* No step changes a request, and every step is taken by a process that runs.
LEMMA RequestsStay == ASSUME HttpNext PROVE req' = req /\ ~ ended
<1>1. CASE AcceptFails
  BY <1>1 DEF AcceptFails, client
<1>2. ASSUME NEW c \in Threads, Client(c) PROVE req' = req /\ ~ ended
  BY <1>2 DEF Client, Connect, Submit, Leave
<1>3. ASSUME NEW c \in Threads, Accept(c) \/ Kid(c) PROVE req' = req /\ ~ ended
  BY <1>3 DEF Accept, Kid, KidReads, KidWrites, KidExits, client
<1>4. ASSUME NEW c \in Threads, Thread(c) PROVE req' = req /\ ~ ended
  BY <1>4 DEF Thread, RequestLine, Headers, Refuse, ServeFile, Close, Status200, Pipes, PipesFail,
       Fork, ForkFails, CloseEnds, Body, BodyKills, BodyDone, Relay, RelayEnds, Waitpid, At,
       client
<1> QED BY <1>1, <1>2, <1>3, <1>4 DEF HttpNext

\* Faults are counted up.
LEMMA FaultsGrow == ASSUME HttpNext PROVE faults' = faults \/ Fails
<1>1. CASE AcceptFails
  BY <1>1 DEF AcceptFails
<1>2. ASSUME NEW c \in Threads, Client(c) \/ Accept(c) \/ Kid(c)
      PROVE  faults' = faults \/ Fails
  BY <1>2 DEF Client, Accept, Kid, KidReads, KidWrites, KidExits, process
<1>3. ASSUME NEW c \in Threads, Thread(c) PROVE faults' = faults \/ Fails
  BY <1>3 DEF Thread, RequestLine, Headers, Refuse, ServeFile, Close, Status200, Pipes, PipesFail,
       Fork, ForkFails, CloseEnds, Body, BodyKills, BodyDone, Relay, RelayEnds, Waitpid, process
<1> QED BY <1>1, <1>2, <1>3 DEF HttpNext

\* A connection keeps its state in the steps of the others.
LEMMA OthersStay ==
    ASSUME HttpTypes, NEW c \in Threads, Steps(c), NEW d \in Threads, d # c PROVE Stays(d)
<1>1. CASE Client(c)
  BY <1>1 DEF Client, Connect, Submit, Leave, Stays, HttpTypes, script
<1>2. CASE Accept(c)
  BY <1>2 DEF Accept, Go, Stays, HttpTypes, client, script
<1>3. CASE Kid(c)
  BY <1>3 DEF Kid, KidReads, KidWrites, KidExits, Stays, HttpTypes, client, script
<1>4. CASE RequestLine(c) \/ Headers(c)
  BY <1>4 DEF RequestLine, Headers, Consume, Go, Stays, HttpTypes, client, script
<1>5. CASE Refuse(c)
  BY <1>5 DEF Refuse, SendTo, Go, Stays, HttpTypes, client, script
<1>6. CASE ServeFile(c) \/ Status200(c) \/ Relay(c)
  BY <1>6 DEF ServeFile, Status200, Relay, SendTo, Go, Stays, HttpTypes, client, script
<1>7. CASE Close(c) \/ Pipes(c) \/ PipesFail(c) \/ Fork(c) \/ ForkFails(c) \/ CloseEnds(c)
  BY <1>7 DEF Close, Pipes, PipesFail, Fork, ForkFails, CloseEnds, Go, Stays, HttpTypes, client,
       script
<1>8. CASE Body(c)
  BY <1>8 DEF Body, Consume, Stays, HttpTypes, client, script
<1>9. CASE BodyKills(c) \/ BodyDone(c) \/ RelayEnds(c) \/ Waitpid(c)
  BY <1>9 DEF BodyKills, BodyDone, RelayEnds, Waitpid, Go, Stays, HttpTypes, client, script
<1> QED BY <1>1, <1>2, <1>3, <1>4, <1>5, <1>6, <1>7, <1>8, <1>9 DEF Steps, Thread

\* The steps that move no byte.
Quiet(c) == \/ Accept(c) \/ Refuse(c) \/ ServeFile(c) \/ Close(c) \/ Status200(c) \/ Pipes(c)
            \/ PipesFail(c) \/ Fork(c) \/ ForkFails(c) \/ CloseEnds(c) \/ BodyKills(c)
            \/ BodyDone(c) \/ RelayEnds(c) \/ Waitpid(c) \/ KidExits(c)

\* They move none.
LEMMA QuietMovesNothing ==
    ASSUME NEW c \in Threads, Quiet(c)
    PROVE  UNCHANGED <<client, rd, moved, inPipe, outPipe, taken, made>>
BY DEF Quiet, Accept, Refuse, ServeFile, Close, Status200, Pipes, PipesFail, Fork, ForkFails,
       CloseEnds, BodyKills, BodyDone, RelayEnds, Waitpid, KidExits, script

\* What is read is what was sent.
LEMMA Consumed ==
    ASSUME HttpTypes, NEW c \in Threads, NEW part \in Nat, Consume(c, part)
    PROVE  /\ rd'[c] = IF sent[c] < part THEN sent[c] ELSE part
           /\ rd'[c] \in Nat /\ rd'[c] <= sent[c]
<1>1. rd'[c] = IF sent[c] < part THEN sent[c] ELSE part
  BY DEF Consume, HttpTypes
<1> QED BY <1>1 DEF HttpTypes

-----------------------------------------------------------------------------
(* Each part of the invariant in turn. *)

\* What is sent keeps a reply a sequence of items.
LEMMA SendKeepsType ==
    ASSUME HttpTypes, NEW c \in Threads, NEW items \in Seq(Items), SendTo(c, items)
    PROVE  reply' \in [Threads -> Seq(Items)]
<1>1. reply[c] \o items \in Seq(Items)
  BY ConcatProperties DEF HttpTypes
<1> QED BY <1>1 DEF SendTo, HttpTypes

\* What cat sends behind the header: each line, but the last of a tail.
LEMMA CatSent ==
    ASSUME NEW c \in Threads
    PROVE  /\ headers \o cat(c) \in Seq(Items)
           /\ req[c].target = "file" =>
                 headers \o cat(c) = << "200" >> \o [k \in 1 .. FileLines |-> k]
           /\ req[c].target = "tail" =>
                 headers \o cat(c) = << "200" >> \o [k \in 1 .. FileLines - 1 |-> k]
<1> USE HttpdAssumption DEF HttpdAssumption
<1> DEFINE n == IF req[c].target = "tail" THEN FileLines - 1 ELSE FileLines
<1>1. n \in Nat
  OBVIOUS
<1>2. cat(c) = [k \in 1 .. n |-> k] /\ headers = << "200" >>
  BY DEF cat, headers
<1>3. headers \in Seq(Items)
  BY <1>2 DEF Items
<1> HIDE DEF n
<1>4. cat(c) \in Seq(Items)
  BY <1>1, <1>2 DEF Items
<1>5. headers \o cat(c) \in Seq(Items)
  BY <1>3, <1>4, ConcatProperties
<1> QED BY <1>2, <1>5 DEF n

\* Every step keeps the types.
LEMMA HttpTypesKept == HttpTypes /\ HttpNext => HttpTypes'
<1> SUFFICES ASSUME HttpTypes, HttpNext PROVE HttpTypes'
  OBVIOUS
<1>1. CASE AcceptFails
  BY <1>1 DEF AcceptFails, HttpTypes, Fails, client, script
<1>2. ASSUME NEW c \in Threads, Client(c) PROVE HttpTypes'
  <2>1. sent' \in [Threads -> Nat]
    <3>1. CASE Submit(c)
      BY <3>1 DEF Submit, HttpTypes
    <3>2. CASE Connect(c) \/ Leave(c)
      BY <3>2 DEF Connect, Leave, HttpTypes
    <3> QED BY <1>2, <3>1, <3>2 DEF Client
  <2>2. peer' \in [Threads -> {"idle", "open", "left"}] /\ req' \in [Threads -> Request]
    BY <1>2 DEF Client, Connect, Submit, Leave, HttpTypes
  <2> QED BY <1>2, <2>1, <2>2 DEF Client, process, script, HttpTypes
<1>3. ASSUME NEW c \in Threads, Accept(c) PROVE HttpTypes'
  <2>1. faults' \in Nat
    BY <1>3 DEF Accept, Fails, HttpTypes
  <2> QED BY <1>3, <2>1 DEF Accept, Go, client, script, HttpTypes, Holders, Places
<1>4. ASSUME NEW c \in Threads, RequestLine(c) PROVE HttpTypes'
  <2>1. rd' \in [Threads -> Nat]
    BY <1>4 DEF RequestLine, Consume, HttpTypes
  <2>2. pc' \in [Threads -> Places]
    BY <1>4 DEF RequestLine, Go, HttpTypes, Places, Request
  <2> QED BY <1>4, <2>1, <2>2 DEF RequestLine, client, script, process, HttpTypes
<1>5. ASSUME NEW c \in Threads, Refuse(c) PROVE HttpTypes'
  <2>1. PICK status \in {"501", "404", "400", "500"} : SendTo(c, << status >>)
    BY <1>5 DEF Refuse
  <2>2. << status >> \in Seq(Items)
    BY DEF Items
  <2>3. reply' \in [Threads -> Seq(Items)]
    BY <2>1, <2>2, SendKeepsType
  <2> QED BY <1>5, <2>3 DEF Refuse, Go, client, script, HttpTypes, Places
<1>6. ASSUME NEW c \in Threads, ServeFile(c) PROVE HttpTypes'
  <2>1. headers \o cat(c) \in Seq(Items) /\ "404" \in Items
    BY CatSent DEF Items
  <2>2. reply' \in [Threads -> Seq(Items)]
    <3>1. CASE SendTo(c, headers \o cat(c))
      BY <2>1, <3>1, SendKeepsType
    <3>2. CASE reply' = [reply EXCEPT ![c] = Append(@, "404")]
      BY <2>1, <3>2 DEF HttpTypes
    <3> QED BY <1>6, <3>1, <3>2 DEF ServeFile
  <2> QED BY <1>6, <2>2 DEF ServeFile, Go, client, script, HttpTypes, Places
<1>7. ASSUME NEW c \in Threads, Status200(c) PROVE HttpTypes'
  <2>1. << "200" >> \in Seq(Items)
    BY DEF Items
  <2>2. reply' \in [Threads -> Seq(Items)]
    BY <1>7, <2>1, SendKeepsType DEF Status200
  <2> QED BY <1>7, <2>2 DEF Status200, Go, client, script, HttpTypes, Places
<1>8. ASSUME NEW c \in Threads, PipesFail(c) PROVE HttpTypes'
  <2>1. faults' \in Nat
    BY <1>8 DEF PipesFail, Fails, HttpTypes
  <2>2. outW' \in [Threads -> SUBSET Holders]
    BY <1>8 DEF PipesFail, HttpTypes, Holders
  <2> QED BY <1>8, <2>1, <2>2 DEF PipesFail, Go, client, script, HttpTypes, Places
<1>9. ASSUME NEW c \in Threads, ForkFails(c) PROVE HttpTypes'
  <2>1. faults' \in Nat
    BY <1>9 DEF ForkFails, Fails, HttpTypes
  <2> QED BY <1>9, <2>1 DEF ForkFails, Go, client, script, HttpTypes, Places
<1>10. ASSUME NEW c \in Threads, Body(c) PROVE HttpTypes'
  <2>1. rd' \in [Threads -> Nat] /\ moved' \in [Threads -> Nat]
    BY <1>10 DEF Body, Consume, HttpTypes
  <2>2. Byte(c)' \in Int
    BY <2>1 DEF Byte
  <2>3. inPipe' \in [Threads -> Seq(Int)]
    BY <1>10, <2>2 DEF Body, HttpTypes
  <2> QED BY <1>10, <2>1, <2>3 DEF Body, client, script, process, HttpTypes
<1>11. ASSUME NEW c \in Threads, Relay(c) PROVE HttpTypes'
  <2>1. outPipe[c] \in Seq(Nat) /\ outPipe[c] # << >>
    BY <1>11 DEF Relay, HttpTypes
  <2>2. Head(outPipe[c]) \in Nat /\ Tail(outPipe[c]) \in Seq(Nat)
    BY <2>1
  <2>3. << Head(outPipe[c]) >> \in Seq(Items)
    BY <2>2 DEF Items
  <2>4. reply' \in [Threads -> Seq(Items)]
    BY <1>11, <2>3, SendKeepsType DEF Relay
  <2>5. outPipe' \in [Threads -> Seq(Nat)]
    BY <1>11, <2>2 DEF Relay, HttpTypes
  <2> QED BY <1>11, <2>4, <2>5 DEF Relay, client, script, HttpTypes
<1>12. ASSUME NEW c \in Threads, KidReads(c) PROVE HttpTypes'
  <2>1. inPipe[c] \in Seq(Int) /\ inPipe[c] # << >> /\ taken[c] \in Seq(Int)
    BY <1>12 DEF KidReads, HttpTypes
  <2>2. Append(taken[c], Head(inPipe[c])) \in Seq(Int) /\ Tail(inPipe[c]) \in Seq(Int)
    BY <2>1
  <2> QED BY <1>12, <2>2 DEF KidReads, client, process, HttpTypes
<1>13. ASSUME NEW c \in Threads, Headers(c) PROVE HttpTypes'
  BY <1>13 DEF Headers, Consume, Go, client, script, process, HttpTypes, Places
<1>14. ASSUME NEW c \in Threads, BodyDone(c) \/ RelayEnds(c) \/ Waitpid(c) \/ BodyKills(c)
       PROVE  HttpTypes'
  BY <1>14 DEF BodyDone, RelayEnds, Waitpid, BodyKills, Go, client, script, process, HttpTypes,
       Places
<1>15. ASSUME NEW c \in Threads, Pipes(c) PROVE HttpTypes'
  BY <1>15 DEF Pipes, Go, Holders, Places, client, script, process, HttpTypes
<1>16. ASSUME NEW c \in Threads, Fork(c) PROVE HttpTypes'
  BY <1>16 DEF Fork, Inherited, Go, Holders, Places, client, script, process, HttpTypes
<1>17. ASSUME NEW c \in Threads, CloseEnds(c) PROVE HttpTypes'
  BY <1>17 DEF CloseEnds, Go, Places, client, script, process, HttpTypes
<1>18. ASSUME NEW c \in Threads, Close(c) PROVE HttpTypes'
  BY <1>18 DEF Close, SocketsAfter, Go, Places, client, script, process, HttpTypes
<1>19. ASSUME NEW c \in Threads, KidExits(c) PROVE HttpTypes'
  BY <1>19 DEF KidExits, SocketsAfter, Without, Holders, client, script, process, HttpTypes
<1>20. ASSUME NEW c \in Threads, KidWrites(c) PROVE HttpTypes'
  BY <1>20 DEF KidWrites, client, process, HttpTypes
<1> QED BY <1>1, <1>2, <1>3, <1>4, <1>5, <1>6, <1>7, <1>8, <1>9, <1>10, <1>11,
           <1>12, <1>13, <1>14, <1>15, <1>16, <1>17, <1>18, <1>19, <1>20 DEF HttpNext, Thread, Kid

\* No more is read than was sent, no more sent than there is, and the pipes
\* hold what they can.
LEMMA CountsKept == ASSUME HttpTypes, CountsInv, HttpNext PROVE CountsInv'
<1> USE HttpdAssumption DEF HttpdAssumption
<1>1. faults' <= MaxFaults
  BY FaultsGrow DEF CountsInv, HttpTypes, Fails
<1>2. req' = req
  BY RequestsStay
<1>3. CASE AcceptFails
  BY <1>1, <1>3 DEF AcceptFails, CountsInv, Within, client, script
<1>4. ASSUME NEW c \in Threads, Steps(c) PROVE Within(c)'
  <2>1. Within(c) /\ req[c] \in Request /\ Parts(req[c]) \in Nat
    BY DEF CountsInv, HttpTypes, Parts, Request
  <2>2. /\ sent[c] \in Nat /\ rd[c] \in Nat /\ made[c] \in Nat
        /\ inPipe[c] \in Seq(Int) /\ outPipe[c] \in Seq(Nat)
    BY DEF HttpTypes
  <2>3. CASE Quiet(c)
    BY <1>2, <2>1, <2>3, QuietMovesNothing DEF Within, client
  <2>4. CASE Client(c)
    BY <1>2, <2>1, <2>2, <2>4 DEF Client, Connect, Submit, Leave, HttpTypes, Within, script
  <2>5. CASE RequestLine(c)
    <3>1. rd'[c] <= sent'[c]
      BY <2>5, Consumed DEF RequestLine, client
    <3> QED BY <1>2, <2>1, <2>5, <3>1 DEF RequestLine, Within, client, script, process
  <2>6. CASE Headers(c)
    <3>1. rd'[c] <= sent'[c]
      BY <2>6, Consumed DEF Headers, client
    <3> QED BY <1>2, <2>1, <2>6, <3>1 DEF Headers, Within, client, script, process
  <2>7. CASE Body(c)
    <3>1. rd'[c] <= sent'[c]
      BY <2>2, <2>7, Consumed DEF Body, client
    <3>2. Len(inPipe'[c]) <= PipeCap
      BY <2>1, <2>2, <2>7 DEF Body, HttpTypes, Within
    <3> QED BY <1>2, <2>1, <2>7, <3>1, <3>2 DEF Body, Within, client, script
  <2>8. CASE Relay(c)
    BY <1>2, <2>1, <2>2, <2>8 DEF Relay, HttpTypes, Within, client, script
  <2>9. CASE KidReads(c)
    BY <1>2, <2>1, <2>2, <2>9 DEF KidReads, HttpTypes, Within, client
  <2>10. CASE KidWrites(c)
    BY <1>2, <2>1, <2>2, <2>10 DEF KidWrites, HttpTypes, Within, client
  <2> QED BY <1>4, <2>3, <2>4, <2>5, <2>6, <2>7, <2>8, <2>9, <2>10 DEF Steps, Thread, Kid, Quiet
<1>5. ASSUME NEW c \in Threads, Steps(c), NEW d \in Threads, d # c PROVE Within(d)'
  BY <1>2, <1>5, OthersStay DEF CountsInv, Within, Stays
<1> QED BY <1>1, <1>3, <1>4, <1>5 DEF HttpNext, Steps, CountsInv

\* The steps in which no descriptor changes hands.
Passive(c) == \/ Client(c) \/ RequestLine(c) \/ Headers(c) \/ Refuse(c) \/ ServeFile(c)
              \/ Status200(c) \/ ForkFails(c) \/ Body(c) \/ BodyKills(c) \/ BodyDone(c)
              \/ Relay(c) \/ RelayEnds(c) \/ Waitpid(c) \/ KidReads(c) \/ KidWrites(c)

\* In those the thread stays outside of the places where descriptors count.
LEMMA PassiveHolds ==
    ASSUME HttpTypes, NEW c \in Threads, Passive(c)
    PROVE  /\ UNCHANGED <<sock, outW, inR, kid>>
           /\ \/ pc' = pc
              \/ /\ pc[c] \notin {"none", "done", "ends", "fork"}
                 /\ pc'[c] \notin {"none", "done", "ends", "fork"}
              \/ pc[c] = "fork" /\ pc'[c] = "500" /\ faults' > 0
<1>1. UNCHANGED <<sock, outW, inR, kid>>
  BY DEF Passive, Client, RequestLine, Headers, Refuse, ServeFile, Status200, ForkFails, Body,
     BodyKills, BodyDone, Relay, RelayEnds, Waitpid, KidReads, KidWrites, script
<1>2. CASE \/ Client(c) \/ Body(c) \/ BodyKills(c) \/ Relay(c) \/ KidReads(c) \/ KidWrites(c)
  BY <1>1, <1>2 DEF Client, Body, BodyKills, Relay, KidReads, KidWrites
<1>3. CASE ForkFails(c)
  BY <1>1, <1>3 DEF ForkFails, Fails, At, Go, HttpTypes
<1>4. CASE RequestLine(c)
  <2>1. pc'[c] \in {"501", "404 head", "file head", "cgi head"}
    BY <1>4 DEF RequestLine, Go, HttpTypes, Request
  <2> QED BY <1>1, <1>4, <2>1 DEF RequestLine, At
<1>5. CASE Headers(c)
  BY <1>1, <1>5 DEF Headers, At, Go, HttpTypes
<1>6. CASE Refuse(c) \/ ServeFile(c) \/ Status200(c) \/ BodyDone(c) \/ RelayEnds(c) \/ Waitpid(c)
  BY <1>1, <1>6 DEF Refuse, ServeFile, Status200, BodyDone, RelayEnds, Waitpid, At, Go, HttpTypes
<1> QED BY <1>2, <1>3, <1>4, <1>5, <1>6 DEF Passive

\* Who holds what.
LEMMA HeldKept ==
    ASSUME HttpTypes, HoldersInv, HttpNext PROVE \A d \in Threads : Held(d)'
<1> USE HttpdAssumption DEF HttpdAssumption, Holders
<1>1. \A d \in Threads : Held(d) /\ Employed(d)
  BY DEF HoldersInv
<1>2. faults' = 0 => faults = 0
  BY FaultsGrow DEF HttpTypes, Fails
<1>3. CASE AcceptFails
  BY <1>1, <1>2, <1>3 DEF AcceptFails, Held, script
<1>4. ASSUME NEW c \in Threads, Steps(c), NEW d \in Threads PROVE Held(d)'
  <2>1. Held(d) /\ Held(c) /\ Employed(c) /\ Employed(d)
    BY <1>1
  <2>2. d # c => Stays(d)
    BY <1>4, OthersStay
  <2>3. CASE Passive(c)
    BY <1>2, <2>1, <2>2, <2>3, PassiveHolds DEF Held, Stays
  <2>4. CASE Accept(c)
    BY <1>2, <2>1, <2>2, <2>4 DEF Accept, Go, Fails, Held, Stays, HttpTypes, script
  <2>5. CASE Close(c)
    BY <1>2, <2>1, <2>2, <2>5 DEF Close, SocketsAfter, At, Go, Held, Stays, HttpTypes, script
  <2>6. CASE Pipes(c)
    BY <1>2, <2>1, <2>2, <2>6 DEF Pipes, At, Go, Held, Employed, Stays, HttpTypes, script
  <2>7. CASE PipesFail(c)
    <3>1. /\ UNCHANGED <<client, script, sock, inR>> /\ faults' > 0
          /\ pc[c] = "pipes" /\ pc' = [pc EXCEPT ![c] = "500"]
          /\ outW' = outW \/ outW' = [outW EXCEPT ![c] = {Server}]
      BY <2>7 DEF PipesFail, Fails, At, Go, HttpTypes
    <3> QED BY <1>2, <2>1, <2>2, <3>1 DEF Held, Employed, Stays, HttpTypes, script
  <2>8. CASE Fork(c)
    BY <1>2, <2>1, <2>2, <2>8 DEF Fork, Inherited, At, Go, Held, Stays, HttpTypes, process
  <2>9. CASE CloseEnds(c)
    BY <1>2, <2>1, <2>2, <2>9 DEF CloseEnds, At, Go, Held, Stays, HttpTypes, script
  <2>10. CASE KidExits(c)
    BY <1>2, <2>1, <2>2, <2>10 DEF KidExits, SocketsAfter, Without, Held, Stays, HttpTypes
  <2> QED BY <1>4, <2>3, <2>4, <2>5, <2>6, <2>7, <2>8, <2>9, <2>10 DEF Steps, Thread, Kid, Passive
<1> QED BY <1>3, <1>4 DEF HttpNext, Steps

\* When the script runs, and what it has written.
LEMMA EmployedKept ==
    ASSUME HttpTypes, HoldersInv, HttpNext PROVE \A d \in Threads : Employed(d)'
<1>1. \A d \in Threads : Held(d) /\ Employed(d)
  BY DEF HoldersInv
<1>2. req' = req
  BY RequestsStay
<1>3. CASE AcceptFails
  BY <1>1, <1>3 DEF AcceptFails, Employed, client, script
<1>4. ASSUME NEW c \in Threads, Steps(c) PROVE Employed(c)'
  <2>1. Held(c) /\ Employed(c)
    BY <1>1
  <2>2. outPipe[c] \in Seq(Nat) /\ made[c] \in Nat /\ taken[c] \in Seq(Int)
    BY DEF HttpTypes
  <2>3. CASE Client(c) \/ Accept(c) \/ Body(c) \/ BodyKills(c) \/ CloseEnds(c) \/ BodyDone(c)
    BY <1>2, <2>1, <2>3 DEF Client, Accept, Body, BodyKills, CloseEnds, BodyDone, At, Go,
       Employed, HttpTypes, script
  <2>4. CASE RequestLine(c)
    <3>1. pc'[c] \in {"501", "404 head", "file head", "cgi head"}
      BY <2>4 DEF RequestLine, Go, HttpTypes, Request
    <3> QED BY <1>2, <2>1, <2>4, <3>1 DEF RequestLine, At, Employed, script
  <2>5. CASE Headers(c)
    BY <1>2, <2>1, <2>5 DEF Headers, At, Go, Employed, HttpTypes, script
  <2>6. CASE Refuse(c) \/ ServeFile(c) \/ Close(c) \/ Waitpid(c)
    BY <1>2, <2>1, <2>6 DEF Refuse, ServeFile, Close, Waitpid, At, Go, Employed, HttpTypes, script
  <2>7. CASE Status200(c) \/ Pipes(c) \/ PipesFail(c) \/ ForkFails(c)
    BY <1>2, <2>1, <2>7 DEF Status200, Pipes, PipesFail, ForkFails, At, Go, Employed, HttpTypes,
       script
  <2>8. CASE Fork(c)
    BY <1>2, <2>1, <2>8 DEF Fork, At, Go, Employed, HttpTypes
  <2>9. CASE Relay(c)
    BY <1>2, <2>1, <2>9 DEF Relay, At, Employed, HttpTypes, script
  <2>10. CASE RelayEnds(c)
    BY <1>2, <2>1, <2>10 DEF RelayEnds, At, Go, Held, Employed, HttpTypes, script
  <2>11. CASE KidReads(c)
    BY <1>2, <2>1, <2>11 DEF KidReads, Employed, HttpTypes
  <2>12. CASE KidWrites(c)
    BY <1>2, <2>1, <2>2, <2>12 DEF KidWrites, Employed, HttpTypes
  <2>13. CASE KidExits(c)
    BY <1>2, <2>1, <2>13 DEF KidExits, Employed, HttpTypes, client
  <2> QED BY <1>4, <2>3, <2>4, <2>5, <2>6, <2>7, <2>8, <2>9, <2>10, <2>11, <2>12, <2>13
         DEF Steps, Thread, Kid
<1>5. ASSUME NEW c \in Threads, Steps(c), NEW d \in Threads, d # c PROVE Employed(d)'
  BY <1>1, <1>2, <1>5, OthersStay DEF Employed, Stays
<1> QED BY <1>3, <1>4, <1>5 DEF HttpNext, Steps

\* Whether the server runs is a truth value.
LEMMA EndedKept == ASSUME ended \in BOOLEAN, HttpNext PROVE ended' \in BOOLEAN
<1>1. CASE AcceptFails
  BY <1>1 DEF AcceptFails
<1>2. ASSUME NEW c \in Threads, Client(c) \/ Accept(c) PROVE ended' \in BOOLEAN
  BY <1>2 DEF Client, Accept, process
<1>3. ASSUME NEW c \in Threads, Kid(c) PROVE ended' \in BOOLEAN
  BY <1>3 DEF Kid, KidReads, KidWrites, KidExits, process
<1>4. ASSUME NEW c \in Threads, Thread(c) PROVE ended' \in BOOLEAN
  BY <1>4 DEF Thread, RequestLine, Headers, Refuse, ServeFile, Close, Status200, Pipes, PipesFail,
       Fork, ForkFails, CloseEnds, Body, BodyKills, BodyDone, Relay, RelayEnds, Waitpid, SendTo,
       process
<1> QED BY <1>1, <1>2, <1>3, <1>4 DEF HttpNext

\* What stops the server: a peer that has left for the sends, a file that could
\* not be opened, a script that no longer reads, and a failed accept.
LEMMA StopsKept == ASSUME HttpTypes, HoldersInv, HttpNext PROVE StopsOnlyFor'
<1> SUFFICES ASSUME ended' = TRUE
             PROVE  \/ faults' > 0
                    \/ \E c \in Threads : \/ peer'[c] = "left"
                                          \/ req'[c].target = "secret" /\ pc'[c] = "close"
                                          \/ pc'[c] = "body" /\ kid'[c] = "exit"
  BY DEF StopsOnlyFor
<1>1. ~ ended
  BY RequestsStay
<1>2. CASE AcceptFails
  BY <1>2 DEF AcceptFails, Fails, HttpTypes
<1>3. ASSUME NEW c \in Threads, Client(c) \/ Accept(c) \/ Kid(c) PROVE FALSE
  BY <1>1, <1>3 DEF Client, Accept, Kid, KidReads, KidWrites, KidExits, process
<1>4. ASSUME NEW c \in Threads, Refuse(c) \/ Status200(c) \/ Relay(c) PROVE peer'[c] = "left"
  BY <1>1, <1>4 DEF Refuse, Status200, Relay, SendTo, client
<1>5. ASSUME NEW c \in Threads, ServeFile(c)
      PROVE  \/ peer'[c] = "left"
             \/ req'[c].target = "secret" /\ pc'[c] = "close"
  BY <1>1, <1>5 DEF ServeFile, SendTo, Go, client, HttpTypes
<1>6. ASSUME NEW c \in Threads, BodyKills(c) PROVE pc'[c] = "body" /\ kid'[c] = "exit"
  BY <1>6 DEF BodyKills, At, HoldersInv, Held, Employed, HttpTypes, script
<1>7. ASSUME NEW c \in Threads, Thread(c),
             ~ (Refuse(c) \/ Status200(c) \/ Relay(c) \/ ServeFile(c) \/ BodyKills(c))
      PROVE  FALSE
  BY <1>1, <1>7 DEF Thread, RequestLine, Headers, Close, Pipes, PipesFail, Fork, ForkFails,
       CloseEnds, Body, BodyDone, RelayEnds, Waitpid, process
<1> QED BY <1>2, <1>3, <1>4, <1>5, <1>6, <1>7 DEF HttpNext

\* Where a request can be.
LEMMA RoutedKept == ASSUME HttpTypes, RepliesInv, HttpNext PROVE \A d \in Threads : Routed(d)'
<1>1. \A d \in Threads : Routed(d)
  BY DEF RepliesInv
<1>2. req' = req /\ faults \in Nat /\ (faults > 0 => faults' > 0)
  BY RequestsStay, FaultsGrow DEF Fails, HttpTypes
<1>3. CASE AcceptFails
  BY <1>1, <1>2, <1>3 DEF AcceptFails, Routed, Posts, client
<1>4. ASSUME NEW c \in Threads, Steps(c) PROVE Routed(c)'
  <2>1. Routed(c) /\ req[c] \in Request
    BY <1>1 DEF HttpTypes
  <2>2. CASE Client(c)
    BY <1>2, <2>1, <2>2 DEF Client, Connect, Submit, Leave, Routed, Posts, HttpTypes
  <2>3. CASE Accept(c)
    BY <1>2, <2>1, <2>3 DEF Accept, Go, Routed, Posts, HttpTypes, client
  <2>4. CASE RequestLine(c)
    <3>1. sent[c] = 0 => peer[c] = "left"
      BY <2>4 DEF RequestLine, Comes
    <3>2. pc'[c] = IF sent[c] = 0 \/ req[c].method = "PUT" THEN "501"
                   ELSE IF req[c].target = "missing" THEN "404 head"
                   ELSE IF req[c].target \in {"file", "tail", "secret"} THEN "file head"
                   ELSE "cgi head"
      BY <2>1, <2>4 DEF RequestLine, Go, HttpTypes, Request
    <3>3. peer'[c] = peer[c] /\ peer[c] # "idle" /\ req[c].target \in
             {"missing", "file", "tail", "secret", "script", "broken"}
      BY <2>1, <2>4 DEF RequestLine, At, Routed, Request, client
    <3> QED BY <1>2, <2>1, <3>1, <3>2, <3>3 DEF Routed, Posts
  <2>5. CASE Headers(c)
    <3>0. Comes(c, 2) /\ sent[c] \in Nat
      BY <2>5 DEF Headers, HttpTypes
    <3>1. sent[c] < 2 => peer[c] = "left"
      BY <3>0 DEF Comes
    <3>2. \/ pc[c] = "404 head" /\ pc'[c] = "404"
          \/ pc[c] = "file head" /\ pc'[c] = "file"
          \/ /\ pc[c] = "cgi head"
             /\ pc'[c] = IF Posts(c) /\ (sent[c] < 2 \/ req[c].length = -1) THEN "400" ELSE "200"
      BY <2>5 DEF Headers, At, Go, HttpTypes
    <3> QED BY <1>2, <2>1, <2>5, <3>1, <3>2 DEF Headers, Routed, Posts, client
  <2>6. CASE \/ Refuse(c) \/ ServeFile(c) \/ Close(c) \/ Waitpid(c) \/ Status200(c) \/ Pipes(c)
             \/ Fork(c) \/ CloseEnds(c) \/ BodyDone(c) \/ RelayEnds(c)
    <3>1. UNCHANGED client
      BY <2>6 DEF Refuse, ServeFile, Close, Waitpid, Status200, Pipes, Fork, CloseEnds, BodyDone,
         RelayEnds
    <3>2. \/ pc[c] # "none" /\ pc'[c] \in {"close", "done"}
          \/ /\ pc[c] \in {"200", "pipes", "fork", "ends", "body", "relay"}
             /\ pc'[c] \in {"pipes", "fork", "ends", "body", "relay", "wait"}
      BY <2>6 DEF Refuse, ServeFile, Close, Waitpid, Status200, Pipes, Fork, CloseEnds, BodyDone,
         RelayEnds, At, Go, HttpTypes
    <3> QED BY <1>2, <2>1, <3>1, <3>2 DEF Routed, Posts, client
  <2>7. CASE PipesFail(c) \/ ForkFails(c)
    <3>1. faults' > 0
      BY <1>2, <2>7 DEF PipesFail, ForkFails, Fails
    <3>2. UNCHANGED client /\ pc[c] \in {"pipes", "fork"} /\ pc'[c] = "500"
      BY <2>7 DEF PipesFail, ForkFails, At, Go, HttpTypes
    <3> QED BY <1>2, <2>1, <3>1, <3>2 DEF Routed, Posts, client
  <2>8. CASE \/ Body(c) \/ BodyKills(c) \/ Relay(c) \/ Kid(c)
    BY <1>2, <2>1, <2>8 DEF Body, BodyKills, Relay, Kid, KidReads, KidWrites, KidExits, Routed,
       Posts, client
  <2> QED BY <1>4, <2>2, <2>3, <2>4, <2>5, <2>6, <2>7, <2>8 DEF Steps, Thread
<1>5. ASSUME NEW c \in Threads, Steps(c), NEW d \in Threads, d # c PROVE Routed(d)'
  <2>1. Routed(d) /\ Stays(d)
    BY <1>1, <1>5, OthersStay
  <2> QED BY <1>2, <2>1 DEF Routed, Posts, Stays
<1> QED BY <1>3, <1>4, <1>5 DEF HttpNext, Steps

\* One item more is sent.
LEMMA SendOne ==
    ASSUME HttpTypes, NEW c \in Threads, NEW item \in Items, SendTo(c, << item >>)
    PROVE  /\ reply'[c] \in Seq(Items) /\ Len(reply'[c]) = Len(reply[c]) + 1
           /\ \A k \in 1 .. Len(reply[c]) : reply'[c][k] = reply[c][k]
           /\ reply'[c][Len(reply[c]) + 1] = item
           /\ reply[c] = << >> => reply'[c] = << item >>
<1>1. reply'[c] = reply[c] \o << item >> /\ reply[c] \in Seq(Items)
  BY DEF SendTo, HttpTypes
<1>2. << item >> \in Seq(Items) /\ Len(<< item >>) = 1 /\ << item >>[1] = item
  OBVIOUS
<1>3. /\ reply'[c] \in Seq(Items) /\ Len(reply'[c]) = Len(reply[c]) + 1
      /\ \A k \in 1 .. Len(reply[c]) + 1 :
            reply'[c][k] = IF k <= Len(reply[c]) THEN reply[c][k]
                           ELSE << item >>[k - Len(reply[c])]
  BY <1>1, <1>2, ConcatProperties
<1>4. Len(reply[c]) \in Nat
  BY <1>1
<1>5. reply[c] = << >> => reply'[c] = << item >>
  BY <1>1, <1>2, ConcatEmptySeq
<1>6. \A k \in 1 .. Len(reply[c]) : reply'[c][k] = reply[c][k]
  BY <1>3, <1>4
<1>7. reply'[c][Len(reply[c]) + 1] = item
  BY <1>2, <1>3, <1>4
<1> QED BY <1>3, <1>5, <1>6, <1>7

\* The reply each kind of request calls for.
LEMMA DueIs ==
    ASSUME NEW c \in Threads, req[c] \in Request
    PROVE  /\ req[c].method = "PUT" => DueReply(c) = << "501" >>
           /\ req[c].method # "PUT" /\ req[c].target \in {"missing", "secret"} =>
                 DueReply(c) = << "404" >>
           /\ req[c].method # "PUT" /\ req[c].target = "file" =>
                 DueReply(c) = << "200" >> \o [k \in 1 .. FileLines |-> k]
           /\ req[c].method # "PUT" /\ req[c].target = "tail" =>
                 DueReply(c) = << "200" >> \o [k \in 1 .. FileLines - 1 |-> k]
           /\ req[c].method = "POST" /\ req[c].target \in {"script", "broken"}
              /\ req[c].length = -1 => DueReply(c) = << "400" >>
           /\ req[c].method # "PUT" /\ req[c].target = "broken"
              /\ (req[c].method = "POST" => req[c].length # -1) => DueReply(c) = << "200" >>
           /\ req[c].method # "PUT" /\ req[c].target = "script"
              /\ (req[c].method = "POST" => req[c].length # -1) =>
                 DueReply(c) = << "200" >> \o [k \in 1 .. OutLen |-> k]
BY ZenonT(30) DEF DueReply

\* A relayed page that is complete is the page.
LEMMA PageComplete ==
    ASSUME NEW s \in Seq(Items), s # << >>, s[1] = "200", Len(s) = 1 + OutLen,
           \A k \in 2 .. Len(s) : s[k] = k - 1
    PROVE  s = << "200" >> \o [k \in 1 .. OutLen |-> k]
<1> USE HttpdAssumption DEF HttpdAssumption
<1> DEFINE page == [k \in 1 .. OutLen |-> k]
<1>1. page \in Seq(Items) /\ Len(page) = OutLen /\ \A k \in 1 .. OutLen : page[k] = k
  BY DEF Items
<1>2. << "200" >> \in Seq(Items) /\ Len(<< "200" >>) = 1 /\ << "200" >>[1] = "200"
  BY DEF Items
<1> HIDE DEF page
<1> DEFINE whole == << "200" >> \o page
<1>3. /\ whole \in Seq(Items) /\ Len(whole) = 1 + OutLen
      /\ \A k \in 1 .. 1 + OutLen : whole[k] = IF k <= 1 THEN << "200" >>[k] ELSE page[k - 1]
  BY <1>1, <1>2, ConcatProperties
<1> HIDE DEF whole
<1>4. ASSUME NEW k \in 1 .. Len(s) PROVE s[k] = whole[k]
  <2>1. CASE k = 1
    BY <1>2, <1>3, <2>1
  <2>2. CASE k # 1
    <3>1. k \in 2 .. Len(s) /\ k - 1 \in 1 .. OutLen
      BY <2>2
    <3> QED BY <1>1, <1>3, <3>1
  <2> QED BY <2>1, <2>2
<1>5. s = whole
  BY <1>3, <1>4, SeqEqual
<1> QED BY <1>5 DEF whole, page

\* What was sent.
LEMMA AnsweredKept ==
    ASSUME HttpTypes, HoldersInv, RepliesInv, HttpNext PROVE \A d \in Threads : Answered(d)'
<1>1. \A d \in Threads : Routed(d) /\ Answered(d) /\ Held(d) /\ Employed(d)
  BY DEF RepliesInv, HoldersInv
<1>2. req' = req /\ (faults' = 0 => faults = 0)
  BY RequestsStay, FaultsGrow DEF Fails, HttpTypes
<1>3. \A d \in Threads : DueReply(d)' = DueReply(d)
  BY <1>2, Zenon DEF DueReply
<1>4. CASE AcceptFails
  BY <1>1, <1>2, <1>3, <1>4 DEF AcceptFails, Answered, Relayed, Undisturbed, client, script
<1>5. ASSUME NEW c \in Threads, Steps(c) PROVE Answered(c)'
  <2>1. Routed(c) /\ Answered(c) /\ Held(c) /\ Employed(c) /\ DueReply(c)' = DueReply(c)
    BY <1>1, <1>3
  <2>2. /\ req[c] \in Request /\ reply[c] \in Seq(Items) /\ outPipe[c] \in Seq(Nat)
    BY DEF HttpTypes
  <2>20. made[c] \in Nat /\ Len(reply[c]) \in Nat /\ Len(outPipe[c]) \in Nat
    BY DEF HttpTypes
  <2>3. CASE Client(c)
    <3>1. UNCHANGED <<pc, reply, outPipe, made>>
      BY <2>3 DEF Client, script
    <3>2. peer'[c] = "open" => peer[c] = "open" \/ pc[c] = "none"
      BY <2>1, <2>3 DEF Client, Connect, Submit, Leave, Routed, HttpTypes
    <3> QED BY <1>2, <2>1, <3>1, <3>2 DEF Answered, Relayed, Undisturbed
  <2>4. CASE Accept(c)
    BY <1>2, <2>1, <2>4 DEF Accept, Go, Fails, Answered, Undisturbed, HttpTypes, client, script
  <2>5. CASE RequestLine(c) \/ Headers(c)
    <3>1. UNCHANGED reply
      BY <2>5 DEF RequestLine, Headers
    <3>2. /\ pc[c] \in {"line", "404 head", "file head", "cgi head"}
          /\ pc'[c] \in {"501", "404 head", "file head", "cgi head", "404", "file", "400", "200"}
      BY <2>2, <2>5 DEF RequestLine, Headers, At, Go, HttpTypes, Request
    <3> QED BY <2>1, <3>1, <3>2 DEF Answered
  <2>6. CASE Refuse(c)
    <3>1. PICK status \in {"501", "404", "400", "500"} : pc[c] = status /\ SendTo(c, << status >>)
      BY <2>6 DEF Refuse, At
    <3>2. status = "500" => faults > 0
      BY <2>1, <3>1 DEF Routed
    <3>3. status # "500" => reply'[c] = << status >>
      BY <2>1, <3>1, SendOne DEF Answered, Items
    <3>4. pc'[c] = "close" /\ UNCHANGED <<client, faults>>
      BY <2>6 DEF Refuse, Go, HttpTypes
    <3>5. status # "500" /\ peer[c] = "open" => << status >> = DueReply(c)
      BY <2>1, <2>2, <2>20, <3>1, DueIs DEF Routed, Posts
    <3>6. CASE status = "500"
      BY <3>2, <3>4, <3>6 DEF Answered, Undisturbed
    <3>7. CASE status # "500"
      BY <2>1, <3>3, <3>4, <3>5, <3>7 DEF Answered, Undisturbed, client
    <3> QED BY <3>6, <3>7
  <2>7. CASE ServeFile(c)
    <3>1. reply[c] = << >> /\ req[c].target \in {"file", "tail", "secret"} /\ req[c].method # "PUT"
      BY <2>1, <2>7 DEF ServeFile, At, Answered, Routed
    <3>2. headers \o cat(c) \in Seq(Items)
      BY CatSent
    <3>3. CASE req[c].target \in {"file", "tail"}
      <4>1. reply'[c] = << >> \o (headers \o cat(c))
        BY <2>7, <3>1, <3>3 DEF ServeFile, SendTo, HttpTypes
      <4>2. reply'[c] = headers \o cat(c)
        BY <3>2, <4>1, ConcatEmptySeq
      <4>3. headers \o cat(c) = DueReply(c)
        <5>1. CASE req[c].target = "file"
          <6>1. DueReply(c) = << "200" >> \o [k \in 1 .. FileLines |-> k]
            BY Zenon, <2>2, <3>1, <5>1, DueIs
          <6>2. headers \o cat(c) = << "200" >> \o [k \in 1 .. FileLines |-> k]
            BY Zenon, <5>1, CatSent
          <6> QED BY Zenon, <6>1, <6>2
        <5>2. CASE req[c].target = "tail"
          <6>1. DueReply(c) = << "200" >> \o [k \in 1 .. FileLines - 1 |-> k]
            BY Zenon, <2>2, <3>1, <5>2, DueIs
          <6>2. headers \o cat(c) = << "200" >> \o [k \in 1 .. FileLines - 1 |-> k]
            BY Zenon, <5>2, CatSent
          <6> QED BY Zenon, <6>1, <6>2
        <5> QED BY <3>3, <5>1, <5>2
      <4> QED BY <2>1, <2>2, <2>7, <3>1, <3>3, <4>2, <4>3 DEF ServeFile, Go, Answered, HttpTypes
    <3>4. CASE req[c].target = "secret"
      <4>1. reply'[c] = Append(<< >>, "404")
        BY <2>7, <3>1, <3>4 DEF ServeFile, HttpTypes
      <4>2. reply'[c] = << "404" >>
        BY <4>1
      <4> QED BY <2>1, <2>2, <2>7, <3>1, <3>4, <4>2, DueIs DEF ServeFile, Go, Answered, HttpTypes
    <3> QED BY <3>1, <3>3, <3>4
  <2>8. CASE Close(c)
    BY <1>2, <2>1, <2>8 DEF Close, At, Go, Answered, Undisturbed, HttpTypes, client
  <2>9. CASE Status200(c)
    <3>1. reply[c] = << >> /\ made[c] = 0 /\ outPipe[c] = << >>
      BY <2>1, <2>9 DEF Status200, At, Answered, Employed, HttpTypes
    <3>2. reply'[c] = << "200" >>
      BY <2>9, <3>1, SendOne DEF Status200, Items
    <3>3. Relayed(c)'
      BY <2>9, <3>1, <3>2 DEF Status200, Relayed, script
    <3> QED BY <2>9, <3>3 DEF Status200, Go, Answered, HttpTypes
  <2>10. CASE Pipes(c) \/ Fork(c) \/ CloseEnds(c) \/ BodyDone(c) \/ RelayEnds(c)
    <3>1. UNCHANGED <<reply, outPipe, made>>
      BY <2>10 DEF Pipes, Fork, CloseEnds, BodyDone, RelayEnds, script
    <3>2. /\ pc[c] \in {"pipes", "fork", "ends", "body", "relay"}
          /\ pc'[c] \in {"fork", "ends", "body", "relay", "wait"}
      BY <2>10 DEF Pipes, Fork, CloseEnds, BodyDone, RelayEnds, At, Go, HttpTypes
    <3> QED BY <2>1, <3>1, <3>2 DEF Answered, Relayed
  <2>11. CASE PipesFail(c) \/ ForkFails(c)
    BY <2>11 DEF PipesFail, ForkFails, Go, Answered, HttpTypes
  <2>12. CASE Body(c) \/ BodyKills(c) \/ KidReads(c) \/ KidExits(c)
    <3>1. UNCHANGED <<client, pc, reply, outPipe, made>>
      BY <2>12 DEF Body, BodyKills, KidReads, KidExits, script
    <3> QED BY <1>2, <2>1, <3>1 DEF Answered, Relayed, Undisturbed, client
  <2>13. CASE Relay(c)
    <3> DEFINE b == Head(outPipe[c])
    <3>1. Relayed(c) /\ pc'[c] = "relay" /\ outPipe[c] # << >> /\ SendTo(c, << b >>)
      BY <2>1, <2>13 DEF Relay, At, Answered
    <3>2. /\ b = Len(reply[c]) /\ b \in Items /\ Len(outPipe[c]) \in Nat \ {0}
          /\ reply[c] # << >> /\ reply[c][1] = "200" /\ Len(reply[c]) \in Nat \ {0}
      BY <2>2, <2>20, <3>1 DEF Relayed, Items
    <3> HIDE DEF b
    <3>3. /\ Len(reply'[c]) = Len(reply[c]) + 1 /\ reply'[c] # << >>
          /\ \A k \in 1 .. Len(reply[c]) : reply'[c][k] = reply[c][k]
          /\ reply'[c][Len(reply[c]) + 1] = b
      BY <2>2, <2>20, <3>1, <3>2, SendOne
    <3>4. outPipe'[c] = Tail(outPipe[c]) /\ made' = made
      BY <2>13 DEF Relay, HttpTypes, script
    <3>5. /\ Len(outPipe'[c]) = Len(outPipe[c]) - 1
          /\ \A k \in 1 .. Len(outPipe'[c]) : outPipe'[c][k] = outPipe[c][k + 1]
      BY <2>2, <2>20, <3>1, <3>4, HeadTailProperties
    <3>6. reply'[c][1] = "200" /\ Len(outPipe'[c]) = made'[c] + 1 - Len(reply'[c])
      <4>1. Len(outPipe[c]) = made[c] + 1 - Len(reply[c])
        BY <3>1 DEF Relayed
      <4>2. Len(reply'[c]) = Len(reply[c]) + 1 /\ Len(outPipe'[c]) = Len(outPipe[c]) - 1
        BY <3>3, <3>5
      <4>3. reply'[c][1] = "200"
        BY <3>2, <3>3
      <4>4. made'[c] = made[c]
        BY <3>4
      <4> QED BY <2>20, <4>1, <4>2, <4>3, <4>4
    <3>7. ASSUME NEW k \in 2 .. Len(reply'[c]) PROVE reply'[c][k] = k - 1
      <4>1. CASE k = Len(reply[c]) + 1
        BY <3>2, <3>3, <4>1
      <4>2. CASE k # Len(reply[c]) + 1
        <5>1. k \in 2 .. Len(reply[c]) /\ k \in 1 .. Len(reply[c])
          BY <3>2, <3>3, <4>2
        <5> QED BY <3>1, <3>3, <5>1 DEF Relayed
      <4> QED BY <4>1, <4>2
    <3>8. ASSUME NEW k \in 1 .. Len(outPipe'[c]) PROVE outPipe'[c][k] = Len(reply'[c]) + k - 1
      <4>1. k + 1 \in 1 .. Len(outPipe[c])
        BY <2>2, <2>20, <3>2, <3>5
      <4>2. outPipe[c][k + 1] = Len(reply[c]) + (k + 1) - 1
        BY <3>1, <4>1 DEF Relayed
      <4> DEFINE n == Len(reply[c])
                 m == Len(reply'[c])
      <4>3. n \in Nat /\ m = n + 1 /\ k \in Int /\ outPipe'[c][k] = n + (k + 1) - 1
        BY <3>2, <3>3, <3>5, <4>2
      <4> HIDE DEF n, m
      <4>4. outPipe'[c][k] = m + k - 1
        BY <4>3
      <4> QED BY <4>4 DEF m
    <3>9. Relayed(c)'
      BY <3>3, <3>6, <3>7, <3>8 DEF Relayed
    <3> QED BY <3>1, <3>9 DEF Answered
  <2>14. CASE KidWrites(c)
    <3>1. pc[c] \in {"ends", "body", "relay"} /\ Relayed(c)
      BY <2>1, <2>14 DEF KidWrites, Employed, Answered
    <3>2. /\ made'[c] = made[c] + 1 /\ outPipe'[c] = Append(outPipe[c], made[c] + 1)
          /\ UNCHANGED <<pc, reply>>
      BY <2>14 DEF KidWrites, HttpTypes
    <3>3. /\ Len(outPipe'[c]) = Len(outPipe[c]) + 1
          /\ \A k \in 1 .. Len(outPipe[c]) : outPipe'[c][k] = outPipe[c][k]
          /\ outPipe'[c][Len(outPipe[c]) + 1] = made[c] + 1
      BY <2>2, <2>20, <3>2
    <3>4. Len(outPipe[c]) = made[c] + 1 - Len(reply[c])
      BY <3>1 DEF Relayed
    <3>5. ASSUME NEW k \in 1 .. Len(outPipe'[c]) PROVE outPipe'[c][k] = Len(reply'[c]) + k - 1
      <4>1. CASE k = Len(outPipe[c]) + 1
        <5>1. outPipe'[c][k] = made[c] + 1
          BY <3>3, <4>1
        <5>2. Len(reply'[c]) = Len(reply[c])
          BY <3>2
        <5> QED BY <2>20, <3>4, <4>1, <5>1, <5>2
      <4>2. CASE k # Len(outPipe[c]) + 1
        <5>1. k \in 1 .. Len(outPipe[c])
          BY <2>2, <2>20, <3>3, <4>2
        <5> QED BY <3>1, <3>2, <3>3, <5>1 DEF Relayed
      <4> QED BY <4>1, <4>2
    <3>6. Relayed(c)'
      <4>1. /\ Len(outPipe'[c]) = Len(outPipe[c]) + 1 /\ made'[c] = made[c] + 1
            /\ Len(reply'[c]) = Len(reply[c])
        BY <3>2, <3>3
      <4>2. Len(outPipe'[c]) = made'[c] + 1 - Len(reply'[c])
        BY <2>20, <3>4, <4>1
      <4> QED BY <3>1, <3>2, <3>5, <4>2 DEF Relayed
    <3> QED BY <3>1, <3>2, <3>6 DEF Answered
  <2>15. CASE Waitpid(c)
    <3>1. /\ Relayed(c) /\ kid[c] = "exit" /\ outPipe[c] = << >> /\ pc'[c] = "close"
          /\ UNCHANGED reply
      BY <2>1, <2>15 DEF Waitpid, At, Go, Answered, Employed, HttpTypes
    <3>2. /\ req[c].target \in {"script", "broken"} /\ req[c].method # "PUT"
          /\ req[c].method = "POST" => req[c].length # -1
      BY <2>1, <2>15 DEF Waitpid, At, Routed, Posts
    <3>3. Len(reply[c]) = 1 + made[c]
      BY <2>2, <2>20, <3>1 DEF Relayed
    <3>4. CASE req[c].target = "broken"
      <4>1. Len(reply[c]) = 1 /\ reply[c][1] = "200"
        BY <2>1, <3>1, <3>3, <3>4 DEF Employed, Relayed
      <4>2. reply[c] = << "200" >>
        BY <2>2, <4>1
      <4> QED BY <2>1, <2>2, <2>20, <3>1, <3>2, <3>4, <4>2, DueIs DEF Answered
    <3>5. CASE req[c].target = "script"
      <4>1. Len(reply[c]) = 1 + OutLen
        BY <2>1, <3>1, <3>3, <3>5 DEF Employed
      <4>2. reply[c] = << "200" >> \o [k \in 1 .. OutLen |-> k]
        BY <2>2, <2>20, <3>1, <4>1, PageComplete DEF Relayed
      <4> QED BY <2>1, <2>2, <2>20, <3>1, <3>2, <3>5, <4>2, DueIs DEF Answered
    <3> QED BY <3>2, <3>4, <3>5
  <2> QED BY <1>5, <2>3, <2>4, <2>5, <2>6, <2>7, <2>8, <2>9, <2>10, <2>11, <2>12, <2>13, <2>14,
             <2>15 DEF Steps, Thread, Kid
<1>6. ASSUME NEW c \in Threads, Steps(c), NEW d \in Threads, d # c PROVE Answered(d)'
  <2>1. Answered(d) /\ Stays(d)
    BY <1>1, <1>6, OthersStay
  <2> QED BY <1>2, <1>3, <2>1 DEF Answered, Relayed, Undisturbed, Stays
<1> QED BY <1>4, <1>5, <1>6 DEF HttpNext, Steps

\* The loop over the body begins once, behind the headers, and only for a POST.
LEMMA QuietPlaces ==
    ASSUME HttpTypes, NEW c \in Threads, Quiet(c)
    PROVE  /\ pc[c] \in {"body", "relay", "wait", "close", "done"}
                 => pc'[c] \in {"body", "relay", "wait", "close", "done"}
           /\ pc'[c] \in {"200", "pipes", "fork", "ends", "body"}
                 => pc[c] \in {"200", "pipes", "fork", "ends", "body"}
           /\ pc'[c] = "body" => pc[c] = "body" \/ Posts(c)
<1>1. CASE Accept(c) \/ Refuse(c) \/ ServeFile(c) \/ Close(c) \/ Status200(c) \/ Pipes(c)
  BY <1>1 DEF Accept, Refuse, ServeFile, Close, Status200, Pipes, At, Go, HttpTypes
<1>2. CASE PipesFail(c) \/ Fork(c) \/ ForkFails(c) \/ CloseEnds(c) \/ BodyKills(c)
  BY <1>2 DEF PipesFail, Fork, ForkFails, CloseEnds, BodyKills, At, Go, HttpTypes
<1>3. CASE BodyDone(c) \/ RelayEnds(c) \/ Waitpid(c) \/ KidExits(c)
  BY <1>3 DEF BodyDone, RelayEnds, Waitpid, KidExits, At, Go, HttpTypes
<1> QED BY <1>1, <1>2, <1>3 DEF Quiet

\* The bytes of the body on their way to the script.
LEMMA FedKept == ASSUME HttpTypes, BytesInv, HttpNext PROVE \A d \in Threads : Fed(d)'
<1>1. \A d \in Threads : Fed(d)
  BY DEF BytesInv
<1>2. req' = req
  BY RequestsStay
<1>3. CASE AcceptFails
  BY <1>1, <1>3 DEF AcceptFails, Fed, DueByte, Posts, client, script
<1>4. ASSUME NEW c \in Threads, Steps(c) PROVE Fed(c)'
  <2>1. Fed(c)
    BY <1>1
  <2>2. /\ sent[c] \in Nat /\ rd[c] \in Nat /\ moved[c] \in Nat
        /\ Len(inPipe[c]) \in Nat /\ Len(taken[c]) \in Nat
    BY DEF HttpTypes
  <2>3. inPipe[c] \in Seq(Int) /\ taken[c] \in Seq(Int)
    BY DEF HttpTypes
  <2>4. CASE Quiet(c)
    <3>1. UNCHANGED <<client, rd, moved, inPipe, taken>>
      BY <2>4, QuietMovesNothing
    <3> QED BY <2>1, <2>4, <3>1, QuietPlaces DEF Fed, DueByte, Posts, client
  <2>5. CASE Relay(c) \/ KidWrites(c)
    <3>1. UNCHANGED <<client, rd, pc, moved, inPipe, taken>>
      BY <2>5 DEF Relay, KidWrites, script
    <3> QED BY <2>1, <3>1 DEF Fed, DueByte, Posts, client
  <2>6. CASE Client(c)
    <3>1. UNCHANGED <<rd, pc, moved, inPipe, taken>>
      BY <2>6 DEF Client, script
    <3>2. CASE UNCHANGED sent
      <4>1. peer[c] = "left" => peer'[c] = "left"
        BY <2>6 DEF Client, Connect, Submit, Leave, HttpTypes
      <4> QED BY <1>2, <2>1, <3>1, <3>2, <4>1 DEF Fed, DueByte, Posts
    <3>3. CASE Submit(c)
      <4>1. sent'[c] = sent[c] + 1 /\ peer'[c] = "open" /\ peer[c] = "open"
        BY <3>3 DEF Submit, HttpTypes
      <4>2. moved[c] > 0 => moved[c] + 2 <= sent[c]
        BY <2>1, <2>2, <4>1 DEF Fed
      <4>3. \A k \in 1 .. moved[c] : DueByte(c, k)' = k /\ DueByte(c, k) = k
        BY <2>2, <4>1, <4>2 DEF DueByte
      <4>4. /\ \A k \in 1 .. Len(taken[c]) : k \in 1 .. moved[c]
            /\ \A k \in 1 .. Len(inPipe[c]) : Len(taken[c]) + k \in 1 .. moved[c]
        BY <2>1, <2>2 DEF Fed
      <4>5. /\ \A k \in 1 .. Len(taken'[c]) : taken'[c][k] = DueByte(c, k)'
            /\ \A k \in 1 .. Len(inPipe'[c]) : inPipe'[c][k] = DueByte(c, Len(taken[c]) + k)'
        BY <2>1, <3>1, <4>3, <4>4 DEF Fed
      <4>6. pc'[c] \in {"200", "pipes", "fork", "ends", "body"} /\ Posts(c)' =>
               /\ sent'[c] >= 2
               /\ rd'[c] = IF moved'[c] + 2 <= sent'[c] THEN moved'[c] + 2 ELSE sent'[c]
        BY <1>2, <2>1, <2>2, <3>1, <4>1, <4>2 DEF Fed, Posts
      <4>7. moved'[c] > 0 /\ moved'[c] + 2 > sent'[c] => peer'[c] = "left"
        BY <2>2, <3>1, <4>1, <4>2
      <4> QED BY <1>2, <2>1, <3>1, <4>5, <4>6, <4>7 DEF Fed, Posts
    <3> QED BY <2>6, <3>2, <3>3 DEF Client, Connect, Leave
  <2>7. CASE RequestLine(c)
    <3>1. UNCHANGED <<client, moved, inPipe, taken>>
      BY <2>7 DEF RequestLine, script
    <3>2. pc[c] = "line" /\ pc'[c] \in {"501", "404 head", "file head", "cgi head"}
      BY <2>7 DEF RequestLine, At, Go, HttpTypes, Request
    <3> QED BY <2>1, <3>1, <3>2 DEF Fed, DueByte, Posts, client
  <2>8. CASE Headers(c)
    <3>1. UNCHANGED <<client, moved, inPipe, taken>>
      BY <2>8 DEF Headers, script
    <3>2. /\ pc[c] \in {"404 head", "file head", "cgi head"}
          /\ pc'[c] \in {"404", "file", "400", "200"}
          /\ pc'[c] = "200" /\ Posts(c) => ~ (sent[c] < 2)
      BY <2>8 DEF Headers, At, Go, HttpTypes
    <3>3. rd'[c] = IF sent[c] < 2 THEN sent[c] ELSE 2
      BY <2>8, Consumed DEF Headers
    <3>4. moved[c] = 0
      BY <2>1, <3>2 DEF Fed
    <3>5. pc'[c] = "200" /\ Posts(c) =>
             /\ sent[c] >= 2
             /\ rd'[c] = IF moved[c] + 2 <= sent[c] THEN moved[c] + 2 ELSE sent[c]
      <4> SUFFICES ASSUME pc'[c] = "200", Posts(c)
                   PROVE  sent[c] >= 2 /\ rd'[c] = IF moved[c] + 2 <= sent[c] THEN moved[c] + 2
                                                    ELSE sent[c]
        OBVIOUS
      <4>1. sent[c] \in Nat /\ ~ (sent[c] < 2)
        BY <2>2, <3>2
      <4>2. rd'[c] = 2
        BY <3>3, <4>1
      <4> QED BY <3>4, <4>1, <4>2
    <3> QED BY <2>1, <3>1, <3>2, <3>4, <3>5 DEF Fed, DueByte, Posts, client
  <2>9. CASE Body(c)
    <3>1. /\ UNCHANGED <<client, pc, taken>>
          /\ pc[c] = "body" /\ Posts(c) /\ Comes(c, rd[c] + 1)
          /\ inPipe'[c] = Append(inPipe[c], rd'[c] - 2) /\ moved'[c] = moved[c] + 1
      BY <2>1, <2>9 DEF Body, At, Byte, Fed, HttpTypes, script
    <3>2. rd'[c] = (IF sent[c] < rd[c] + 1 THEN sent[c] ELSE rd[c] + 1) /\ rd'[c] \in Nat
      BY <2>2, <2>9, Consumed DEF Body
    <3>3. sent[c] >= 2 /\ rd[c] = IF moved[c] + 2 <= sent[c] THEN moved[c] + 2 ELSE sent[c]
      BY <2>1, <3>1 DEF Fed
    <3>4. rd'[c] = IF moved[c] + 3 <= sent[c] THEN moved[c] + 3 ELSE sent[c]
      BY <2>2, <3>2, <3>3
    <3>5. moved[c] + 3 > sent[c] => peer[c] = "left"
      BY <2>2, <3>1, <3>3 DEF Comes
    <3>6. rd'[c] - 2 = DueByte(c, moved[c] + 1)
      BY <2>2, <3>3, <3>4 DEF DueByte
    <3>7. /\ Len(inPipe'[c]) = Len(inPipe[c]) + 1
          /\ \A k \in 1 .. Len(inPipe[c]) : inPipe'[c][k] = inPipe[c][k]
          /\ inPipe'[c][Len(inPipe[c]) + 1] = rd'[c] - 2
      BY <2>3, <3>1, <3>2
    <3>8. Len(inPipe[c]) = moved[c] - Len(taken[c])
      BY <2>1 DEF Fed
    <3>9. Len(inPipe'[c]) = moved'[c] - Len(taken'[c])
      <4>1. Len(inPipe'[c]) = Len(inPipe[c]) + 1 /\ taken'[c] = taken[c]
        BY <3>1, <3>7
      <4> QED BY <2>2, <3>1, <3>8, <4>1
    <3>10. ASSUME NEW k \in 1 .. Len(inPipe'[c])
           PROVE  inPipe'[c][k] = DueByte(c, Len(taken[c]) + k)
      <4>1. CASE k = Len(inPipe[c]) + 1
        <5>1. Len(taken[c]) + k = moved[c] + 1
          BY <2>2, <3>8, <4>1
        <5> QED BY <3>6, <3>7, <4>1, <5>1
      <4>2. CASE k # Len(inPipe[c]) + 1
        <5>1. k \in 1 .. Len(inPipe[c])
          BY <2>2, <3>7, <4>2
        <5> QED BY <2>1, <3>7, <5>1 DEF Fed
      <4> QED BY <4>1, <4>2
    <3>11. sent' = sent /\ peer' = peer /\ \A k : DueByte(c, k)' = DueByte(c, k)
      BY <3>1 DEF DueByte, client
    <3>12. rd'[c] = IF moved'[c] + 2 <= sent'[c] THEN moved'[c] + 2 ELSE sent'[c]
      BY <2>2, <3>1, <3>4, <3>11
    <3>13. moved'[c] + 2 > sent'[c] => peer'[c] = "left"
      BY <2>2, <3>1, <3>5, <3>11
    <3> QED BY <1>2, <2>1, <3>1, <3>3, <3>9, <3>10, <3>11, <3>12, <3>13 DEF Fed, Posts
  <2>10. CASE KidReads(c)
    <3> DEFINE b == Head(inPipe[c])
    <3>1. /\ UNCHANGED <<client, rd, pc, moved>> /\ inPipe[c] # << >>
          /\ taken'[c] = Append(taken[c], b) /\ inPipe'[c] = Tail(inPipe[c])
      BY <2>10 DEF KidReads, HttpTypes
    <3>2. b = inPipe[c][1] /\ b \in Int
      BY <2>3, <3>1
    <3> HIDE DEF b
    <3>3. /\ Len(taken'[c]) = Len(taken[c]) + 1
          /\ \A k \in 1 .. Len(taken[c]) : taken'[c][k] = taken[c][k]
          /\ taken'[c][Len(taken[c]) + 1] = b
      BY <2>3, <3>1, <3>2
    <3>4. /\ Len(inPipe'[c]) = Len(inPipe[c]) - 1 /\ Len(inPipe[c]) >= 1
          /\ \A k \in 1 .. Len(inPipe'[c]) : inPipe'[c][k] = inPipe[c][k + 1]
      BY <2>3, <3>1, HeadTailProperties
    <3>5. Len(inPipe[c]) = moved[c] - Len(taken[c])
      BY <2>1 DEF Fed
    <3>6. b = DueByte(c, Len(taken[c]) + 1)
      BY <2>1, <2>2, <3>2, <3>4 DEF Fed
    <3>7. Len(inPipe'[c]) = moved'[c] - Len(taken'[c])
      <4>1. Len(inPipe'[c]) = Len(inPipe[c]) - 1 /\ Len(taken'[c]) = Len(taken[c]) + 1
        BY <3>3, <3>4
      <4> QED BY <2>2, <3>1, <3>5, <4>1
    <3>8. ASSUME NEW k \in 1 .. Len(taken'[c]) PROVE taken'[c][k] = DueByte(c, k)
      <4>1. CASE k = Len(taken[c]) + 1
        BY <3>3, <3>6, <4>1
      <4>2. CASE k # Len(taken[c]) + 1
        <5>1. k \in 1 .. Len(taken[c])
          BY <2>2, <3>3, <4>2
        <5> QED BY <2>1, <3>3, <5>1 DEF Fed
      <4> QED BY <4>1, <4>2
    <3>9. ASSUME NEW k \in 1 .. Len(inPipe'[c])
          PROVE  inPipe'[c][k] = DueByte(c, Len(taken'[c]) + k)
      <4>1. k + 1 \in 1 .. Len(inPipe[c])
        BY <2>2, <3>4
      <4>2. inPipe[c][k + 1] = DueByte(c, Len(taken[c]) + (k + 1))
        BY <2>1, <4>1 DEF Fed
      <4>3. Len(taken[c]) + (k + 1) = Len(taken'[c]) + k
        <5> DEFINE n == Len(taken[c])
                   m == Len(taken'[c])
        <5>1. n \in Int /\ m = n + 1 /\ k \in Int
          BY <2>2, <3>3
        <5> HIDE DEF n, m
        <5>2. n + (k + 1) = m + k
          BY <5>1
        <5> QED BY <5>2 DEF n, m
      <4> QED BY <3>4, <4>2, <4>3
    <3>10. sent' = sent /\ peer' = peer /\ \A k : DueByte(c, k)' = DueByte(c, k)
      BY <3>1 DEF DueByte, client
    <3> QED BY <1>2, <2>1, <3>1, <3>7, <3>8, <3>9, <3>10 DEF Fed, Posts
  <2> QED BY <1>4, <2>4, <2>5, <2>6, <2>7, <2>8, <2>9, <2>10 DEF Steps, Thread, Kid, Quiet
<1>5. ASSUME NEW c \in Threads, Steps(c), NEW d \in Threads, d # c PROVE Fed(d)'
  <2>1. Fed(d) /\ Stays(d)
    BY <1>1, <1>5, OthersStay
  <2> QED BY <1>2, <2>1 DEF Fed, DueByte, Posts, Stays
<1> QED BY <1>3, <1>4, <1>5 DEF HttpNext, Steps

\* What is read before a reply: all of a request that the server means to read.
LEMMA EmptiedKept ==
    ASSUME HttpTypes, CountsInv, RepliesInv, BytesInv, DrainInv, HttpNext
    PROVE  \A d \in Threads : Emptied(d)'
<1>1. \A d \in Threads : Within(d) /\ Routed(d) /\ Answered(d) /\ Fed(d) /\ Emptied(d)
  BY DEF CountsInv, RepliesInv, BytesInv, DrainInv
<1>2. req' = req /\ (faults' = 0 => faults = 0)
  BY RequestsStay, FaultsGrow DEF Fails, HttpTypes
<1>3. \A d \in Threads : Asking(d)' => Asking(d)
  BY <1>2 DEF Asking
<1>4. CASE AcceptFails
  BY <1>1, <1>3, <1>4 DEF AcceptFails, Emptied, Drained, Posts, client
<1>5. ASSUME NEW c \in Threads, Steps(c), Asking(c)' PROVE Emptied(c)'
  <2>1. Within(c) /\ Routed(c) /\ Answered(c) /\ Fed(c) /\ Emptied(c) /\ Asking(c)
    BY <1>1, <1>3, <1>5
  <2>2. /\ req[c] \in Request /\ req[c].body \in Nat /\ Parts(req[c]) = 2 + req[c].body
        /\ sent[c] \in Nat /\ rd[c] \in Nat /\ moved[c] \in Nat
    BY DEF HttpTypes, Request, Parts
  <2>3. faults' = 0
    BY <1>5 DEF Asking
  <2>4. CASE Client(c)
    <3>1. UNCHANGED <<rd, pc, reply>>
      BY <2>4 DEF Client
    <3>2. Drained(c) => Drained(c)'
      <4>1. CASE Submit(c)
        BY <1>2, <2>1, <2>2, <3>1, <4>1 DEF Submit, Drained, Within
      <4>2. CASE Connect(c) \/ Leave(c)
        BY <1>2, <2>1, <3>1, <4>2 DEF Connect, Leave, Drained, HttpTypes
      <4> QED BY <2>4, <4>1, <4>2 DEF Client
    <3> QED BY <1>2, <2>1, <3>1, <3>2 DEF Emptied, Posts
  <2>5. CASE Accept(c)
    <3>1. pc'[c] = "line"
      BY <2>3, <2>5 DEF Accept, Go, Fails, HttpTypes
    <3> QED BY <3>1 DEF Emptied
  <2>6. CASE RequestLine(c)
    <3>1. pc'[c] \in {"501", "404 head", "file head", "cgi head"}
      BY <2>6 DEF RequestLine, Go, HttpTypes, Request
    <3> QED BY <3>1 DEF Emptied
  <2>7. CASE Headers(c)
    <3>1. /\ UNCHANGED client /\ Comes(c, 2)
          /\ pc[c] \in {"404 head", "file head", "cgi head"}
          /\ pc'[c] \in {"404", "file", "400", "200"}
          /\ pc'[c] \in {"404", "file"} => pc[c] \in {"404 head", "file head"}
          /\ pc'[c] = "200" => pc[c] = "cgi head"
      BY <2>7 DEF Headers, At, Go, HttpTypes
    <3>2. rd'[c] = IF sent[c] < 2 THEN sent[c] ELSE 2
      BY <2>7, Consumed DEF Headers
    <3>3. ASSUME req[c].body = 0 PROVE Drained(c)'
      <4>1. CASE sent[c] < 2
        <5>1. rd'[c] = sent'[c] /\ peer'[c] = "left"
          <6>1. rd'[c] = sent[c] /\ sent'[c] = sent[c] /\ peer'[c] = peer[c]
            BY <3>1, <3>2, <4>1 DEF client
          <6>2. peer[c] = "left"
            <7>1. sent[c] \in Nat /\ (sent[c] >= 2 \/ peer[c] = "left")
              BY <2>2, <3>1 DEF Comes
            <7> QED BY <4>1, <7>1
          <6> QED BY <6>1, <6>2
        <5> QED BY <5>1 DEF Drained
      <4>2. CASE ~ (sent[c] < 2)
        <5>1. rd'[c] = Parts(req'[c])
          BY <1>2, <2>2, <3>2, <3>3, <4>2
        <5> QED BY <5>1 DEF Drained
      <4> QED BY <4>1, <4>2
    <3>4. pc'[c] \in {"404", "file"} => req[c].body = 0
      <4>1. pc'[c] \in {"404", "file"} => req[c].target \in {"missing", "file", "tail", "secret"}
        BY <2>1, <3>1 DEF Routed
      <4> QED BY <2>1, <2>2, <4>1 DEF Asking
    <3>5. pc'[c] = "200" /\ ~ Posts(c) => req[c].body = 0
      <4>1. pc'[c] = "200" /\ ~ Posts(c) => req[c].method = "GET"
        BY <2>1, <2>2, <3>1 DEF Routed, Posts, Request
      <4> QED BY <2>1, <2>2, <4>1 DEF Asking
    <3> QED BY <1>2, <3>1, <3>3, <3>4, <3>5 DEF Emptied, Posts
  <2>8. CASE Refuse(c)
    <3>1. PICK status \in {"501", "404", "400", "500"} : pc[c] = status /\ SendTo(c, << status >>)
      BY <2>8 DEF Refuse, At
    <3>2. pc'[c] = "close" /\ UNCHANGED <<client, rd>> /\ status # "500"
      <4>1. status # "500"
        <5>1. status = "500" => faults > 0
          BY <2>1, <3>1 DEF Routed
        <5>2. faults = 0
          BY <2>1 DEF Asking
        <5> QED BY <5>1, <5>2
      <4> QED BY <2>8, <4>1 DEF Refuse, Go, HttpTypes
    <3>3. reply'[c] = << status >>
      BY <2>1, <3>1, <3>2, SendOne DEF Answered, Items
    <3>4. status = "404" => Drained(c)'
      BY <1>2, <2>1, <3>1, <3>2 DEF Emptied, Drained, client
    <3>5. status # "404" => reply'[c] # << >> /\ reply'[c][1] \in {"501", "400"}
      BY <3>2, <3>3
    <3> QED BY <3>2, <3>4, <3>5 DEF Emptied
  <2>9. CASE ServeFile(c) \/ Waitpid(c)
    <3>1. pc[c] \in {"file", "wait"} /\ pc'[c] = "close" /\ UNCHANGED <<client, rd>>
      BY <2>9 DEF ServeFile, Waitpid, At, Go, HttpTypes
    <3> QED BY <1>2, <2>1, <3>1 DEF Emptied, Drained, client
  <2>10. CASE Close(c)
    <3>1. pc[c] = "close" /\ pc'[c] = "done" /\ UNCHANGED <<client, rd, reply>>
      BY <2>10 DEF Close, At, Go, HttpTypes
    <3> QED BY <1>2, <2>1, <3>1 DEF Emptied, Drained, client
  <2>11. CASE Status200(c) \/ Pipes(c) \/ Fork(c) \/ CloseEnds(c)
    <3>1. /\ UNCHANGED <<client, rd>> /\ pc[c] \in {"200", "pipes", "fork", "ends"}
          /\ \/ pc'[c] \in {"pipes", "fork", "ends", "body"}
             \/ pc'[c] = "relay" /\ ~ Posts(c)
      BY <2>11 DEF Status200, Pipes, Fork, CloseEnds, At, Go, HttpTypes
    <3> QED BY <1>2, <2>1, <3>1 DEF Emptied, Drained, Posts, client
  <2>12. CASE PipesFail(c) \/ ForkFails(c)
    <3>1. pc'[c] = "500"
      BY <2>12 DEF PipesFail, ForkFails, Go, HttpTypes
    <3> QED BY <3>1 DEF Emptied
  <2>13. CASE Body(c)
    <3>1. pc'[c] = "body" /\ Posts(c)'
      BY <1>2, <2>1, <2>13 DEF Body, At, Fed, Posts
    <3> QED BY <3>1 DEF Emptied
  <2>14. CASE BodyKills(c) \/ Kid(c)
    <3>1. UNCHANGED <<client, rd, pc, reply>>
      BY <2>14 DEF BodyKills, Kid, KidReads, KidWrites, KidExits
    <3> QED BY <1>2, <2>1, <3>1 DEF Emptied, Drained, Posts, client
  <2>15. CASE BodyDone(c)
    <3>1. /\ pc[c] = "body" /\ pc'[c] = "relay" /\ UNCHANGED <<client, rd>>
          /\ moved[c] >= Length(c) /\ Posts(c)
      BY <2>1, <2>15 DEF BodyDone, At, Go, Fed, HttpTypes
    <3>2. /\ sent[c] >= 2 /\ rd[c] = IF moved[c] + 2 <= sent[c] THEN moved[c] + 2 ELSE sent[c]
          /\ moved[c] > 0 /\ moved[c] + 2 > sent[c] => peer[c] = "left"
      BY <2>1, <3>1 DEF Fed
    <3>3. Length(c) = req[c].length
      BY <2>2, <3>2 DEF Length
    <3>4. req[c].length # -1 /\ req[c].length \in Nat \union {-1}
      BY <2>1, <2>2, <3>1 DEF Routed, Request
    <3>5. req[c].length >= req[c].body
      BY <2>1, <2>2, <3>4 DEF Asking
    <3>6. moved[c] >= req[c].body
      BY <2>2, <3>1, <3>3, <3>4, <3>5
    <3>7. rd[c] <= 2 + req[c].body
      BY <2>1, <2>2 DEF Within
    <3>8. rd[c] = 2 + req[c].body \/ (peer[c] = "left" /\ rd[c] = sent[c])
      <4>1. CASE moved[c] + 2 <= sent[c]
        BY <2>2, <3>2, <3>6, <3>7, <4>1
      <4>2. CASE ~ (moved[c] + 2 <= sent[c])
        <5>1. rd[c] = sent[c] /\ moved[c] > 0 /\ moved[c] + 2 > sent[c]
          BY <2>2, <3>2, <4>2
        <5> QED BY <3>2, <5>1
      <4> QED BY <4>1, <4>2
    <3>9. Drained(c)'
      BY <1>2, <2>2, <3>1, <3>8 DEF Drained, client
    <3> QED BY <3>1, <3>9 DEF Emptied
  <2>16. CASE Relay(c) \/ RelayEnds(c)
    <3>1. pc[c] = "relay" /\ pc'[c] \in {"relay", "wait"} /\ UNCHANGED <<client, rd>>
      BY <2>16 DEF Relay, RelayEnds, At, Go, HttpTypes
    <3> QED BY <1>2, <2>1, <3>1 DEF Emptied, Drained, client
  <2> QED BY <1>5, <2>4, <2>5, <2>6, <2>7, <2>8, <2>9, <2>10, <2>11, <2>12, <2>13, <2>14, <2>15,
             <2>16 DEF Steps, Thread
<1>6. ASSUME NEW c \in Threads, Steps(c), NEW d \in Threads, d # c PROVE Emptied(d)'
  <2>1. Emptied(d) /\ Stays(d)
    BY <1>1, <1>6, OthersStay
  <2> QED BY <1>2, <1>3, <2>1 DEF Emptied, Drained, Posts, Stays
<1> QED BY <1>4, <1>5, <1>6 DEF HttpNext, Steps, Emptied

\* The first thing a client is told stays.
LEMMA FirstStays ==
    ASSUME HttpTypes, HttpNext, NEW d \in Threads, reply[d] # << >>
    PROVE  reply'[d] # << >> /\ reply'[d][1] = reply[d][1]
<1>1. ASSUME NEW c \in Threads, NEW items \in Seq(Items), SendTo(c, items)
      PROVE  reply'[d] # << >> /\ reply'[d][1] = reply[d][1]
  <2>1. reply[d] \in Seq(Items) /\ Len(reply[d]) \in Nat /\ Len(reply[d]) >= 1
    BY DEF HttpTypes
  <2>2. CASE c = d
    <3>1. reply'[d] = reply[d] \o items
      BY <1>1, <2>2 DEF SendTo, HttpTypes
    <3>2. /\ reply'[d] \in Seq(Items) /\ Len(reply'[d]) = Len(reply[d]) + Len(items)
          /\ \A k \in 1 .. Len(reply[d]) + Len(items) :
                reply'[d][k] = IF k <= Len(reply[d]) THEN reply[d][k]
                               ELSE items[k - Len(reply[d])]
      BY <2>1, <3>1, ConcatProperties
    <3>3. Len(items) \in Nat
      OBVIOUS
    <3> QED BY <2>1, <3>2, <3>3
  <2>3. CASE c # d
    BY <1>1, <2>3 DEF SendTo, HttpTypes
  <2> QED BY <2>2, <2>3
<1>2. CASE UNCHANGED reply
  BY <1>2
<1>3. ASSUME NEW c \in Threads, Refuse(c) PROVE \E items \in Seq(Items) : SendTo(c, items)
  <2>1. PICK status \in {"501", "404", "400", "500"} : SendTo(c, << status >>)
    BY <1>3 DEF Refuse
  <2>2. << status >> \in Seq(Items)
    BY DEF Items
  <2> QED BY <2>1, <2>2
<1>4. ASSUME NEW c \in Threads, Status200(c) PROVE \E items \in Seq(Items) : SendTo(c, items)
  <2>1. << "200" >> \in Seq(Items)
    BY DEF Items
  <2> QED BY <1>4, <2>1 DEF Status200
<1>5. ASSUME NEW c \in Threads, Relay(c) PROVE \E items \in Seq(Items) : SendTo(c, items)
  <2>1. outPipe[c] \in Seq(Nat) /\ outPipe[c] # << >>
    BY <1>5 DEF Relay, HttpTypes
  <2>2. << Head(outPipe[c]) >> \in Seq(Items)
    BY <2>1 DEF Items
  <2> QED BY <1>5, <2>2 DEF Relay
<1>6. ASSUME NEW c \in Threads, ServeFile(c)
      PROVE  reply'[d] # << >> /\ reply'[d][1] = reply[d][1]
  <2>1. CASE SendTo(c, headers \o cat(c))
    <3>1. headers \o cat(c) \in Seq(Items)
      BY CatSent
    <3> QED BY <1>1, <2>1, <3>1
  <2>2. CASE reply' = [reply EXCEPT ![c] = Append(@, "404")]
    <3>1. reply[d] \in Seq(Items) /\ "404" \in Items
      BY DEF HttpTypes, Items
    <3>2. CASE c = d
      <4>1. reply'[d] = Append(reply[d], "404")
        BY <2>2, <3>2 DEF HttpTypes
      <4> QED BY <3>1, <4>1
    <3>3. CASE c # d
      BY <2>2, <3>3 DEF HttpTypes
    <3> QED BY <3>2, <3>3
  <2> QED BY <1>6, <2>1, <2>2 DEF ServeFile
<1>7. ASSUME NEW c \in Threads,
             \/ Client(c) \/ Accept(c) \/ Kid(c) \/ RequestLine(c) \/ Headers(c) \/ Close(c)
             \/ Pipes(c) \/ PipesFail(c) \/ Fork(c) \/ ForkFails(c) \/ CloseEnds(c) \/ Body(c)
             \/ BodyKills(c) \/ BodyDone(c) \/ RelayEnds(c) \/ Waitpid(c)
      PROVE  UNCHANGED reply
  BY <1>7 DEF Client, Accept, Kid, KidReads, KidWrites, KidExits, RequestLine, Headers, Close,
     Pipes, PipesFail, Fork, ForkFails, CloseEnds, Body, BodyKills, BodyDone, RelayEnds, Waitpid
<1>8. CASE AcceptFails
  BY <1>2, <1>8 DEF AcceptFails
<1> QED BY <1>1, <1>2, <1>3, <1>4, <1>5, <1>6, <1>7, <1>8 DEF HttpNext, Thread

\* A connection is cut off when the server or a script closes its last descriptor.
LEMMA CutWhen ==
    ASSUME HttpTypes, HoldersInv, HttpNext, NEW d \in Threads, cut'[d]
    PROVE  cut[d] \/ (pc[d] \in {"close", "done"} /\ rd[d] < sent[d])
<1> USE HttpdAssumption DEF HttpdAssumption
<1>1. Held(d)
  BY DEF HoldersInv
<1>2. ASSUME NEW c \in Threads, Close(c)
      PROVE  cut[d] \/ (pc[d] \in {"close", "done"} /\ rd[d] < sent[d])
  BY <1>2 DEF Close, SocketsAfter, At, HttpTypes
<1>3. ASSUME NEW c \in Threads, KidExits(c)
      PROVE  cut[d] \/ (pc[d] \in {"close", "done"} /\ rd[d] < sent[d])
  <2>1. cut'[d] = (cut[d] \/ (sock[d] # {} /\ sock[d] \ {c} = {} /\ rd[d] < sent[d]))
    BY <1>3 DEF KidExits, SocketsAfter, Without
  <2>2. sock[d] # {} /\ sock[d] \ {c} = {} => pc[d] = "done"
    BY <1>1 DEF Held
  <2> QED BY <2>1, <2>2
<1>4. CASE AcceptFails
  BY <1>4 DEF AcceptFails
<1>5. ASSUME NEW c \in Threads,
             \/ Client(c) \/ Accept(c) \/ KidReads(c) \/ KidWrites(c) \/ RequestLine(c)
             \/ Headers(c) \/ Refuse(c) \/ ServeFile(c) \/ Status200(c) \/ Pipes(c)
             \/ PipesFail(c) \/ Fork(c) \/ ForkFails(c) \/ CloseEnds(c) \/ Body(c)
             \/ BodyKills(c) \/ BodyDone(c) \/ Relay(c) \/ RelayEnds(c) \/ Waitpid(c)
      PROVE  cut' = cut
  BY <1>5 DEF Client, Accept, KidReads, KidWrites, RequestLine, Headers, Refuse, ServeFile,
     Status200, Pipes, PipesFail, Fork, ForkFails, CloseEnds, Body, BodyKills, BodyDone, Relay,
     RelayEnds, Waitpid
<1> QED BY <1>2, <1>3, <1>4, <1>5 DEF HttpNext, Thread, Kid

\* Why connections are cut off.
LEMMA CutKept ==
    ASSUME HttpTypes, CountsInv, HoldersInv, DrainInv, CutOnlyFor, HttpNext PROVE CutOnlyFor'
<1> DEFINE Told(d) == reply[d] # << >> /\ reply[d][1] \in {"501", "400"}
<1> SUFFICES ASSUME NEW d \in Threads, cut'[d] PROVE Told(d)' \/ ~ Asking(d)'
  <2>1. faults' \in Nat
    BY HttpTypesKept DEF HttpTypes
  <2> QED BY <2>1 DEF CutOnlyFor, Asking
<1>2. req' = req /\ (faults' = 0 => faults = 0)
  BY RequestsStay, FaultsGrow DEF Fails, HttpTypes
<1>3. Asking(d)' => Asking(d)
  BY <1>2 DEF Asking
<1>4. Told(d) => Told(d)'
  BY FirstStays
<1>5. CASE cut[d]
  BY <1>3, <1>4, <1>5 DEF CutOnlyFor, Asking
<1>6. CASE pc[d] \in {"close", "done"} /\ rd[d] < sent[d]
  <2>1. Emptied(d) /\ Within(d) /\ rd[d] \in Nat /\ sent[d] \in Nat /\ Parts(req[d]) \in Nat
    BY DEF DrainInv, CountsInv, HttpTypes, Parts, Request
  <2>2. ~ Drained(d)
    BY <1>6, <2>1 DEF Drained, Within
  <2>3. Asking(d) => Told(d)
    BY <1>6, <2>1, <2>2 DEF Emptied
  <2> QED BY <1>3, <1>4, <2>3
<1> QED BY <1>5, <1>6, CutWhen

-----------------------------------------------------------------------------
\* What others do gives the server no end of a connection's pipes.
LEMMA ServerGetsNone ==
    ASSUME HttpTypes, NEW c \in Threads, Steps(c), NEW d \in Threads, d # c
    PROVE  /\ Server \in outW'[d] => Server \in outW[d]
           /\ Server \in inR'[d] => Server \in inR[d]
<1> USE HttpdAssumption DEF HttpdAssumption
<1>1. CASE Passive(c)
  BY <1>1, PassiveHolds
<1>2. CASE Accept(c) \/ Close(c)
  BY <1>2 DEF Accept, Close
<1>3. CASE Pipes(c) \/ PipesFail(c) \/ CloseEnds(c)
  BY <1>3 DEF Pipes, PipesFail, CloseEnds, HttpTypes
<1>4. CASE Fork(c)
  BY <1>4 DEF Fork, Inherited
<1>5. CASE KidExits(c)
  BY <1>5 DEF KidExits, Without
<1> QED BY <1>1, <1>2, <1>3, <1>4, <1>5 DEF Steps, Thread, Kid, Passive

\* The loop over the body moves as much as announced, and ends behind it.
LEMMA LoadedKept ==
    ASSUME HttpTypes, BytesInv, LoadInv, HttpNext PROVE \A d \in Threads : Loaded(d)'
<1>1. \A d \in Threads : Loaded(d) /\ Fed(d)
  BY DEF LoadInv, BytesInv
<1>2. req' = req
  BY RequestsStay
<1>3. CASE AcceptFails
  BY <1>1, <1>2, <1>3 DEF AcceptFails, Loaded, Announced, Wants, Length, Posts
<1>4. ASSUME NEW c \in Threads, Steps(c) PROVE Loaded(c)'
  <2>1. Loaded(c) /\ Fed(c) /\ moved[c] \in Nat /\ req[c] \in Request
    BY <1>1 DEF HttpTypes
  <2>2. Announced(c)' = Announced(c)
    BY <1>2 DEF Announced
  <2>3. CASE Client(c) \/ BodyKills(c) \/ Relay(c) \/ KidReads(c) \/ KidWrites(c)
    BY <1>2, <2>1, <2>2, <2>3 DEF Client, BodyKills, Relay, KidReads, KidWrites, Loaded, Wants,
       Length, Posts
  <2>4. CASE KidExits(c)
    BY <1>2, <2>1, <2>2, <2>4 DEF KidExits, Without, Loaded, Wants, Length, Posts
  <2>5. CASE Accept(c) \/ Headers(c) \/ Refuse(c) \/ ServeFile(c) \/ Close(c) \/ Status200(c)
             \/ Pipes(c) \/ PipesFail(c) \/ Fork(c) \/ ForkFails(c) \/ RelayEnds(c) \/ Waitpid(c)
    <3>1. moved' = moved /\ pc'[c] \notin {"body", "relay"}
      BY <2>5 DEF Accept, Headers, Refuse, ServeFile, Close, Status200, Pipes, PipesFail, Fork,
         ForkFails, RelayEnds, Waitpid, Go, HttpTypes
    <3> QED BY <2>1, <2>2, <3>1 DEF Loaded
  <2>6. CASE RequestLine(c)
    <3>1. moved' = moved /\ pc'[c] \in {"501", "404 head", "file head", "cgi head"}
      BY <2>6 DEF RequestLine, Go, HttpTypes, Request
    <3> QED BY <2>1, <2>2, <3>1 DEF Loaded
  <2>7. CASE CloseEnds(c)
    <3>1. /\ pc'[c] = IF Posts(c) THEN "body" ELSE "relay"
          /\ moved' = moved /\ rd' = rd /\ Server \notin outW'[c] /\ Server \notin inR'[c]
      BY <2>7 DEF CloseEnds, Go, HttpTypes
    <3>2. ~ Posts(c) => Wants(c)' = 0
      BY <1>2 DEF Wants, Posts
    <3> QED BY <2>1, <2>2, <3>1, <3>2 DEF Loaded
  <2>8. CASE Body(c)
    <3>1. moved'[c] = moved[c] + 1 /\ moved[c] < Length(c) /\ pc' = pc /\ pc[c] = "body"
          /\ outW' = outW /\ inR' = inR
      BY <2>8 DEF Body, At, HttpTypes
    <3>2. moved'[c] <= Announced(c)
      BY <2>1, <3>1 DEF Length, Announced, Request
    <3> QED BY <2>1, <2>2, <3>1, <3>2 DEF Loaded
  <2>9. CASE BodyDone(c)
    <3>1. /\ moved[c] >= Length(c) /\ pc[c] = "body" /\ pc'[c] = "relay" /\ moved' = moved
          /\ UNCHANGED <<rd, outW, inR>>
      BY <2>9 DEF BodyDone, At, Go, HttpTypes
    <3>2. Wants(c)' = Length(c)
      BY <1>2, <2>1, <3>1 DEF Wants, Fed, Length, Posts
    <3> QED BY <2>1, <2>2, <3>1, <3>2 DEF Loaded
  <2> QED BY <1>4, <2>3, <2>4, <2>5, <2>6, <2>7, <2>8, <2>9 DEF Steps, Thread, Kid
<1>5. ASSUME NEW c \in Threads, Steps(c), NEW d \in Threads, d # c PROVE Loaded(d)'
  <2>1. Stays(d) /\ Loaded(d)
    BY <1>1, <1>5, OthersStay
  <2>2. Announced(d)' = Announced(d) /\ Wants(d)' = Wants(d)
    BY <1>2, <2>1 DEF Announced, Wants, Length, Posts, Stays
  <2>3. /\ Server \in outW'[d] => Server \in outW[d]
        /\ Server \in inR'[d] => Server \in inR[d]
    BY <1>5, ServerGetsNone
  <2> QED BY <2>1, <2>2, <2>3 DEF Loaded, Stays
<1> QED BY <1>3, <1>4, <1>5 DEF HttpNext, Steps

-----------------------------------------------------------------------------
(* Together. *)

\* A step in which nothing changes.
LEMMA HttpStutters == HttpIInv /\ UNCHANGED httpVars => HttpIInv'
<1> SUFFICES ASSUME HttpIInv, UNCHANGED httpVars PROVE HttpIInv'
  OBVIOUS
<1> USE DEF httpVars, client, script, process
<1>1. HttpTypes' /\ CountsInv' /\ ended' \in BOOLEAN
  BY DEF HttpIInv, HttpTypes, CountsInv, Within
<1>2. HoldersInv'
  BY DEF HttpIInv, HoldersInv, Held, Employed
<1>3. RepliesInv'
  <2>1. \A c \in Threads : DueReply(c)' = DueReply(c)
    BY Zenon DEF DueReply
  <2> QED BY <2>1 DEF HttpIInv, RepliesInv, Routed, Answered, Relayed, Undisturbed, Posts
<1>4. BytesInv' /\ DrainInv'
  BY DEF HttpIInv, BytesInv, Fed, DueByte, Posts, DrainInv, Emptied, Asking, Drained
<1>6. LoadInv'
  BY DEF HttpIInv, LoadInv, Loaded, Announced, Wants, Length, Posts
<1>5. CutOnlyFor' /\ StopsOnlyFor'
  BY DEF HttpIInv, CutOnlyFor, StopsOnlyFor
<1> QED BY <1>1, <1>2, <1>3, <1>4, <1>5, <1>6 DEF HttpIInv

\* The invariant is kept by every step.
LEMMA HttpKept == HttpIInv /\ [HttpNext]_httpVars => HttpIInv'
<1> SUFFICES ASSUME HttpIInv, HttpNext PROVE HttpIInv'
  BY HttpStutters
<1>1. /\ HttpTypes /\ ended \in BOOLEAN /\ CountsInv /\ HoldersInv /\ RepliesInv /\ BytesInv
      /\ DrainInv /\ LoadInv /\ CutOnlyFor
  BY DEF HttpIInv
<1>2. HttpTypes' /\ ended' \in BOOLEAN /\ CountsInv'
  BY <1>1, HttpTypesKept, EndedKept, CountsKept
<1>3. HoldersInv'
  BY <1>1, HeldKept, EmployedKept DEF HoldersInv
<1>4. RepliesInv'
  BY <1>1, RoutedKept, AnsweredKept DEF RepliesInv
<1>5. BytesInv' /\ DrainInv'
  BY <1>1, FedKept, EmptiedKept DEF BytesInv, DrainInv
<1>6. CutOnlyFor' /\ StopsOnlyFor'
  BY <1>1, CutKept, StopsKept
<1>7. LoadInv'
  BY <1>1, LoadedKept DEF LoadInv
<1> QED BY <1>2, <1>3, <1>4, <1>5, <1>6, <1>7 DEF HttpIInv

\* The invariant of the HTTP server.
THEOREM HttpInductive == HttpSpec => []HttpIInv
BY HttpStarts, HttpKept, PTL DEF HttpSpec

\* The variables have their types.
LEMMA HttpTyped == HttpIInv => HttpTypeOK
<1> SUFFICES ASSUME HttpIInv PROVE HttpTypeOK
  OBVIOUS
<1>1. HttpTypes /\ CountsInv /\ ended \in BOOLEAN
  BY DEF HttpIInv
<1>2. made \in [Threads -> 0 .. OutLen] /\ faults \in 0 .. MaxFaults
  BY <1>1, HttpdAssumption DEF HttpTypes, CountsInv, Within, HttpdAssumption
<1>3. \A c \in Threads : sent[c] \in 0 .. Parts(req[c]) /\ rd[c] \in 0 .. sent[c]
  BY <1>1 DEF HttpTypes, CountsInv, Within, Parts, Request
<1> QED BY <1>1, <1>2, <1>3 DEF HttpTypes, CountsInv, Within, HttpTypeOK, Places

\* A connection that is through has the reply it is due, byte for byte.
LEMMA HttpReplies == HttpIInv => ReplyFits
<1> SUFFICES ASSUME HttpIInv
             PROVE  \A c \in Threads : pc[c] \in {"close", "done"} /\ Undisturbed(c) /\ ~ ended
                                          => reply[c] = DueReply(c)
  BY Zenon DEF ReplyFits, DueReply
<1> QED BY DEF HttpIInv, RepliesInv, Answered

\* What the script has read are the bytes of the body.
LEMMA HttpFeeds == HttpIInv => BodyReachesScript
<1> SUFFICES ASSUME HttpIInv, NEW c \in Threads, NEW k \in DOMAIN taken[c]
             PROVE  taken[c][k] = IF k <= req[c].body /\ (k <= sent[c] - 2) THEN k
                                  ELSE sent[c] - 2
  BY DEF BodyReachesScript
<1>1. taken[c] \in Seq(Int) /\ sent[c] \in Nat /\ req[c].body \in Nat
  BY DEF HttpIInv, HttpTypes, Request
<1>2. k \in 1 .. Len(taken[c])
  BY <1>1
<1>3. taken[c][k] = IF k <= sent[c] - 2 THEN k ELSE sent[c] - 2
  BY <1>2 DEF HttpIInv, BytesInv, Fed, DueByte
<1>4. sent[c] <= 2 + req[c].body
  BY DEF HttpIInv, CountsInv, Within, Parts
<1> QED BY <1>1, <1>2, <1>3, <1>4

\* When all threads and scripts are through nobody holds a descriptor.
LEMMA HttpCloses == HttpIInv => NothingLeaks
<1> SUFFICES ASSUME HttpIInv, faults = 0,
                    \A c \in Threads : pc[c] \in {"none", "done"} /\ kid[c] # "run",
                    NEW c \in Threads
             PROVE  sock[c] = {} /\ outW[c] = {} /\ inR[c] = {}
  BY DEF NothingLeaks
<1>1. Held(c)
  BY DEF HttpIInv, HoldersInv
<1>2. sock[c] \subseteq Holders /\ outW[c] \subseteq Holders /\ inR[c] \subseteq Holders
  BY DEF HttpIInv, HttpTypes
<1>3. Server \notin sock[c] /\ Server \notin outW[c] /\ Server \notin inR[c]
  BY <1>1 DEF Held
<1>4. \A k \in Threads : k \notin sock[c] /\ k \notin outW[c] /\ k \notin inR[c]
  BY <1>1 DEF Held
<1> QED BY <1>2, <1>3, <1>4 DEF Holders

-----------------------------------------------------------------------------
(* Why every reply ends: each connection can go on, unless a client keeps  *)
(* it waiting, and none goes on for ever.                                  *)

\* The guards of the steps a thread and its script take, and when the thread
\* waits for its client.
ThreadMoves(c) ==
    \/ pc[c] = "line" /\ Comes(c, 1)
    \/ pc[c] \in {"404 head", "file head", "cgi head"} /\ Comes(c, 2)
    \/ pc[c] \in {"501", "404", "400", "500", "file", "200", "pipes", "fork", "ends", "close"}
    \/ pc[c] = "body" /\ \/ moved[c] >= Length(c)
                         \/ Comes(c, rd[c] + 1) /\ (inR[c] = {} \/ Len(inPipe[c]) < PipeCap)
    \/ pc[c] = "relay" /\ (outPipe[c] # << >> \/ outW[c] = {})
    \/ pc[c] = "wait" /\ kid[c] = "exit"

ScriptMoves(c) ==
    /\ kid[c] = "run"
    /\ \/ req[c].target = "broken" \/ made[c] = OutLen
       \/ /\ req[c].target = "script"
          /\ IF Len(taken[c]) < Wants(c) THEN inPipe[c] # << >>
                                         ELSE made[c] < OutLen /\ Len(outPipe[c]) < PipeCap

AwaitsClient(c) ==
    /\ peer[c] = "open"
    /\ \/ pc[c] = "line" /\ sent[c] < 1
       \/ pc[c] \in {"404 head", "file head", "cgi head"} /\ sent[c] < 2
       \/ pc[c] = "body" /\ moved[c] < Length(c) /\ sent[c] < rd[c] + 1

GoesOn(c) == ThreadMoves(c) \/ ScriptMoves(c) \/ AwaitsClient(c)

\* While the server runs, a connection goes on or awaits its own client; or it
\* awaits the end of a pipe that the script of another connection inherited, and
\* that connection goes on or awaits its client.
NobodyIsStuck ==
    ~ ended /\ PipeCap > 0 =>
       \A c \in Threads : pc[c] \notin {"none", "done"} =>
          \/ GoesOn(c)
          \/ \E k \in Threads : k \in outW[c] \union inR[c] /\ kid[k] = "run" /\ GoesOn(k)

\* What keeps a part of the request from coming.
LEMMA AwaitedPart ==
    ASSUME NEW c \in Threads, NEW n \in Nat, sent[c] \in Nat, peer[c] \in {"open", "left"},
           ~ Comes(c, n)
    PROVE  sent[c] < n /\ peer[c] = "open"
BY DEF Comes

\* A script that runs goes on, or its thread does, or that awaits the client.
LEMMA ScriptsGoOn ==
    HttpIInv /\ PipeCap > 0 => \A k \in Threads : kid[k] = "run" => GoesOn(k)
<1> SUFFICES ASSUME HttpIInv, PipeCap > 0, NEW k \in Threads, kid[k] = "run",
                    ~ ThreadMoves(k), ~ ScriptMoves(k)
             PROVE  AwaitsClient(k)
  BY DEF GoesOn
<1>1. Employed(k) /\ Routed(k) /\ Fed(k) /\ Loaded(k) /\ Within(k)
  BY DEF HttpIInv, HoldersInv, RepliesInv, BytesInv, LoadInv, CountsInv
<1>2. /\ PipeCap \in Nat /\ OutLen \in Nat /\ moved[k] \in Nat /\ sent[k] \in Nat /\ rd[k] \in Nat
      /\ made[k] \in Nat /\ peer[k] \in {"idle", "open", "left"} /\ req[k] \in Request
  BY HttpdAssumption DEF HttpIInv, HttpTypes, HttpdAssumption
<1>3. inPipe[k] \in Seq(Int) /\ outPipe[k] \in Seq(Nat) /\ taken[k] \in Seq(Int)
  BY DEF HttpIInv, HttpTypes
<1>4. /\ Len(inPipe[k]) \in Nat /\ Len(outPipe[k]) \in Nat /\ Len(taken[k]) \in Nat
      /\ (inPipe[k] = << >> <=> Len(inPipe[k]) = 0)
      /\ (outPipe[k] = << >> <=> Len(outPipe[k]) = 0)
  BY <1>3
<1>5. Wants(k) \in Int /\ Length(k) \in Int
  BY <1>2 DEF Wants, Length, Request
<1>6. pc[k] \in {"body", "relay"}
  BY <1>1 DEF Employed, ThreadMoves
<1>7. req[k].target = "script" /\ made[k] < OutLen
  <2>1. req[k].target \in {"script", "broken"} /\ made[k] <= OutLen
    BY <1>1, <1>2, <1>6 DEF Routed, Within
  <2>2. req[k].target # "broken" /\ made[k] # OutLen
    BY DEF ScriptMoves
  <2> QED BY <1>2, <2>1, <2>2
<1>8. CASE Len(taken[k]) < Wants(k)
  <2>1. Len(inPipe[k]) = 0 /\ moved[k] = Len(taken[k])
    BY <1>1, <1>2, <1>4, <1>7, <1>8 DEF ScriptMoves, Fed
  <2>2. pc[k] = "body"
    BY <1>1, <1>2, <1>5, <1>6, <1>8, <2>1 DEF Loaded
  <2>3. moved[k] < Length(k)
    BY <1>1, <1>8, <2>1, <2>2 DEF Fed, Wants
  <2>4. ~ Comes(k, rd[k] + 1)
    BY <1>2, <1>4, <2>1, <2>2 DEF ThreadMoves
  <2>5. sent[k] < rd[k] + 1 /\ peer[k] = "open"
    BY <1>1, <1>2, <2>2, <2>4 DEF Comes, Routed
  <2> QED BY <2>2, <2>3, <2>5 DEF AwaitsClient
<1>9. CASE Len(taken[k]) >= Wants(k)
  <2>1. outPipe[k] # << >>
    BY <1>2, <1>4, <1>5, <1>7, <1>9, <1>1 DEF ScriptMoves, Within
  <2>2. pc[k] = "body"
    BY <1>6, <2>1 DEF ThreadMoves
  <2>3. moved[k] >= Length(k)
    BY <1>1, <1>2, <1>4, <1>5, <1>9, <2>2 DEF Fed, Wants
  <2> QED BY <2>2, <2>3 DEF ThreadMoves
<1> QED BY <1>4, <1>5, <1>8, <1>9

\* A thread that is kept from going on is so by its client, its own script, or one
\* that inherited its pipe.
LEMMA ThreadsGoOn == HttpIInv => NobodyIsStuck
<1> SUFFICES ASSUME HttpIInv, PipeCap > 0, NEW c \in Threads, pc[c] \notin {"none", "done"},
                    ~ GoesOn(c)
             PROVE  \E k \in Threads : k \in outW[c] \union inR[c] /\ kid[k] = "run" /\ GoesOn(k)
  BY DEF NobodyIsStuck
<1>1. Held(c) /\ Employed(c) /\ Routed(c) /\ Fed(c) /\ Loaded(c) /\ Within(c)
  BY DEF HttpIInv, HoldersInv, RepliesInv, BytesInv, LoadInv, CountsInv
<1>2. /\ PipeCap \in Nat /\ moved[c] \in Nat /\ sent[c] \in Nat /\ rd[c] \in Nat
      /\ peer[c] \in {"idle", "open", "left"} /\ req[c] \in Request /\ pc[c] \in Places
      /\ outW[c] \subseteq Holders /\ inR[c] \subseteq Holders
  BY HttpdAssumption DEF HttpIInv, HttpTypes, HttpdAssumption
<1>3. Length(c) \in Int
  BY <1>2 DEF Length, Request
<1>4. ~ ThreadMoves(c) /\ ~ AwaitsClient(c)
  BY DEF GoesOn
<1>5. peer[c] \in {"open", "left"}
  BY <1>1, <1>2 DEF Routed
<1>6. pc[c] \notin {"line", "404 head", "file head", "cgi head"}
  <2>1. pc[c] # "line"
    <3> SUFFICES ASSUME pc[c] = "line" PROVE FALSE
      OBVIOUS
    <3>1. ~ Comes(c, 1)
      BY <1>4 DEF ThreadMoves
    <3>2. sent[c] < 1 /\ peer[c] = "open"
      BY <1>2, <1>5, <3>1, AwaitedPart
    <3> QED BY <1>4, <3>2 DEF AwaitsClient
  <2>2. pc[c] \notin {"404 head", "file head", "cgi head"}
    <3> SUFFICES ASSUME pc[c] \in {"404 head", "file head", "cgi head"} PROVE FALSE
      OBVIOUS
    <3>1. ~ Comes(c, 2)
      BY <1>4 DEF ThreadMoves
    <3>2. sent[c] < 2 /\ peer[c] = "open"
      BY <1>2, <1>5, <3>1, AwaitedPart
    <3> QED BY <1>4, <3>2 DEF AwaitsClient
  <2> QED BY <2>1, <2>2
<1>7. pc[c] # "wait"
  BY <1>1, <1>4 DEF ThreadMoves, Employed
<1>8. pc[c] \in {"body", "relay"}
  BY <1>2, <1>4, <1>6, <1>7 DEF ThreadMoves, Places
<1>9. pc[c] = "body" => inR[c] # {}
  BY <1>2, <1>3, <1>4, <1>5 DEF ThreadMoves, AwaitsClient, Comes
<1>10. pc[c] = "relay" => outW[c] # {}
  BY <1>4 DEF ThreadMoves
<1>11. PICK k \in Threads : k \in outW[c] \union inR[c]
  BY <1>1, <1>2, <1>8, <1>9, <1>10 DEF Loaded, Holders
<1>12. kid[k] = "run"
  BY <1>1, <1>11 DEF Held
<1> QED BY <1>11, <1>12, ScriptsGoOn

\* What a thread and its script still have to do.
Rank(c) == CASE pc[c] = "none" -> 11
             [] pc[c] = "line" -> 10
             [] pc[c] \in {"404 head", "file head", "cgi head"} -> 9
             [] pc[c] = "200" -> 8
             [] pc[c] = "pipes" -> 7
             [] pc[c] = "fork" -> 6
             [] pc[c] = "ends" -> 5
             [] pc[c] = "body" -> 4
             [] pc[c] = "relay" -> 3
             [] pc[c] \in {"501", "404", "400", "500", "file", "wait"} -> 2
             [] pc[c] = "close" -> 1
             [] OTHER -> 0

KidRank(c) == CASE kid[c] = "none" -> 2 [] kid[c] = "run" -> 1 [] OTHER -> 0

\* A byte of the body is moved and read, and one of the page written and relayed.
Load(c) == 2 * (Announced(c) - moved[c]) + Len(inPipe[c])
           + 2 * (OutLen - made[c]) + Len(outPipe[c])

Work(c) == Rank(c) + KidRank(c) + Load(c)

\* Every step of main, the thread or the script for a connection leaves less to do
\* for it, and as much for the others; a client adds nothing.
StepsRunOut ==
    /\ \A c \in Threads : (Accept(c) \/ Thread(c) \/ Kid(c)) /\ ~ ended' =>
          /\ Work(c)' \in Nat /\ Work(c)' < Work(c)
          /\ \A d \in Threads \ {c} : Work(d)' = Work(d)
    /\ \A c, d \in Threads : Client(c) => Work(d)' = Work(d)

\* The ranks and loads are numbers.
LEMMA WorkIsNat ==
    HttpIInv => \A c \in Threads : Rank(c) \in 0 .. 11 /\ KidRank(c) \in 0 .. 2 /\ Load(c) \in Nat
<1> SUFFICES ASSUME HttpIInv, NEW c \in Threads
             PROVE  Rank(c) \in 0 .. 11 /\ KidRank(c) \in 0 .. 2 /\ Load(c) \in Nat
  OBVIOUS
<1>1. Rank(c) \in 0 .. 11 /\ KidRank(c) \in 0 .. 2
  BY DEF Rank, KidRank
<1>2. inPipe[c] \in Seq(Int) /\ outPipe[c] \in Seq(Nat) /\ moved[c] \in Nat /\ made[c] \in Nat
  BY DEF HttpIInv, HttpTypes
<1>3. Len(inPipe[c]) \in Nat /\ Len(outPipe[c]) \in Nat
  BY <1>2
<1>4. moved[c] <= Announced(c) /\ Announced(c) \in Nat /\ made[c] <= OutLen /\ OutLen \in Nat
  <2>1. Loaded(c) /\ Within(c) /\ req[c] \in Request
    BY DEF HttpIInv, LoadInv, CountsInv, HttpTypes
  <2> QED BY <2>1, HttpdAssumption DEF Loaded, Within, Announced, Request, HttpdAssumption
<1>5. 2 * (Announced(c) - moved[c]) \in Nat /\ 2 * (OutLen - made[c]) \in Nat
  BY <1>2, <1>4
<1>6. Load(c) \in Nat
  <2>1. \A i, j, k, l \in Nat : i + j + k + l \in Nat
    OBVIOUS
  <2> QED BY <1>3, <1>5, <2>1 DEF Load
<1> QED BY <1>1, <1>6

\* It is the connection's own state that counts.
LEMMA OthersWork ==
    ASSUME HttpTypes, HttpNext, NEW c \in Threads, Steps(c), NEW d \in Threads, d # c
    PROVE  Work(d)' = Work(d)
<1>1. Stays(d) /\ req' = req
  BY OthersStay, RequestsStay
<1>2. Rank(d)' = Rank(d) /\ KidRank(d)' = KidRank(d)
  BY <1>1 DEF Stays, Rank, KidRank
<1>3. Load(d)' = Load(d)
  BY <1>1 DEF Stays, Load, Announced
<1> QED BY <1>2, <1>3 DEF Work

\* A step that moves a byte.
LEMMA BytesWork ==
    ASSUME HttpIInv, HttpNext, NEW c \in Threads,
           Body(c) \/ Relay(c) \/ KidReads(c) \/ KidWrites(c)
    PROVE  Rank(c)' = Rank(c) /\ KidRank(c)' = KidRank(c) /\ Load(c)' = Load(c) - 1
<1>1. req' = req
  BY RequestsStay
<1>2. pc' = pc /\ kid' = kid
  BY DEF Body, Relay, KidReads, KidWrites, script
<1>3. Rank(c)' = Rank(c) /\ KidRank(c)' = KidRank(c) /\ Announced(c)' = Announced(c)
  BY <1>1, <1>2 DEF Rank, KidRank, Announced
<1>4. /\ inPipe \in [Threads -> Seq(Int)] /\ outPipe \in [Threads -> Seq(Nat)]
      /\ moved \in [Threads -> Nat] /\ made \in [Threads -> Nat] /\ rd' \in [Threads -> Nat]
      /\ OutLen \in Nat /\ req[c] \in Request
  BY HttpdAssumption, HttpTypesKept DEF HttpIInv, HttpTypes, HttpdAssumption
<1>5. Announced(c) \in Nat
  BY <1>4 DEF Announced, Request
<1>6. Len(inPipe[c]) \in Nat /\ Len(outPipe[c]) \in Nat
  BY <1>4
<1> DEFINE Sum(a, m, i, o, n, p) == 2 * (a - m) + i + 2 * (o - n) + p
<1>a. Load(c) = Sum(Announced(c), moved[c], Len(inPipe[c]), OutLen, made[c], Len(outPipe[c]))
  BY DEF Load
<1>b. Load(c)' = Sum(Announced(c), moved'[c], Len(inPipe'[c]), OutLen, made'[c], Len(outPipe'[c]))
  BY <1>3 DEF Load
<1>c. moved[c] \in Nat /\ made[c] \in Nat
  BY <1>4
<1>d. /\ Announced(c) \in Nat /\ moved[c] \in Nat /\ Len(inPipe[c]) \in Nat
      /\ OutLen \in Nat /\ made[c] \in Nat /\ Len(outPipe[c]) \in Nat
  BY <1>4, <1>5, <1>6, <1>c
<1> HIDE DEF Sum
<1>7. CASE Body(c)
  <2>1. moved'[c] = moved[c] + 1 /\ made' = made /\ outPipe' = outPipe
        /\ inPipe'[c] = Append(inPipe[c], Byte(c)')
    BY <1>4, <1>7 DEF Body, script
  <2>2. Len(inPipe'[c]) = Len(inPipe[c]) + 1
    BY <1>4, <2>1
  <2>3. Load(c)' = Sum(Announced(c), moved[c] + 1, Len(inPipe[c]) + 1, OutLen, made[c], Len(outPipe[c]))
    BY <1>b, <2>1, <2>2
  <2>4. PICK a, m, j, o, n, p \in Nat :
           /\ a = Announced(c) /\ m = moved[c] /\ j = Len(inPipe[c])
           /\ o = OutLen /\ n = made[c] /\ p = Len(outPipe[c])
    BY <1>d, Zenon
  <2>5. Load(c) = Sum(a, m, j, o, n, p) /\ Load(c)' = Sum(a, m + 1, j + 1, o, n, p)
    BY <1>a, <2>3, <2>4
  <2>6. Sum(a, m + 1, j + 1, o, n, p) = Sum(a, m, j, o, n, p) - 1
    BY DEF Sum
  <2> QED BY <1>3, <2>5, <2>6
<1>8. CASE Relay(c)
  <2>1. moved' = moved /\ made' = made /\ inPipe' = inPipe
        /\ outPipe'[c] = Tail(outPipe[c]) /\ outPipe[c] # << >>
    BY <1>4, <1>8 DEF Relay, script
  <2>2. Len(outPipe'[c]) = Len(outPipe[c]) - 1
    BY <1>4, <2>1
  <2>3. Load(c)' = Sum(Announced(c), moved[c], Len(inPipe[c]), OutLen, made[c], Len(outPipe[c]) - 1)
    BY <1>b, <2>1, <2>2
  <2>4. PICK a, m, j, o, n, p \in Nat :
           /\ a = Announced(c) /\ m = moved[c] /\ j = Len(inPipe[c])
           /\ o = OutLen /\ n = made[c] /\ p = Len(outPipe[c])
    BY <1>d, Zenon
  <2>5. Load(c) = Sum(a, m, j, o, n, p) /\ Load(c)' = Sum(a, m, j, o, n, p - 1)
    BY <1>a, <2>3, <2>4
  <2>6. Sum(a, m, j, o, n, p - 1) = Sum(a, m, j, o, n, p) - 1
    BY DEF Sum
  <2> QED BY <1>3, <2>5, <2>6
<1>9. CASE KidReads(c)
  <2>1. moved' = moved /\ made' = made /\ outPipe' = outPipe
        /\ inPipe'[c] = Tail(inPipe[c]) /\ inPipe[c] # << >>
    BY <1>4, <1>9 DEF KidReads
  <2>2. Len(inPipe'[c]) = Len(inPipe[c]) - 1
    BY <1>4, <2>1
  <2>3. Load(c)' = Sum(Announced(c), moved[c], Len(inPipe[c]) - 1, OutLen, made[c], Len(outPipe[c]))
    BY <1>b, <2>1, <2>2
  <2>4. PICK a, m, j, o, n, p \in Nat :
           /\ a = Announced(c) /\ m = moved[c] /\ j = Len(inPipe[c])
           /\ o = OutLen /\ n = made[c] /\ p = Len(outPipe[c])
    BY <1>d, Zenon
  <2>5. Load(c) = Sum(a, m, j, o, n, p) /\ Load(c)' = Sum(a, m, j - 1, o, n, p)
    BY <1>a, <2>3, <2>4
  <2>6. Sum(a, m, j - 1, o, n, p) = Sum(a, m, j, o, n, p) - 1
    BY DEF Sum
  <2> QED BY <1>3, <2>5, <2>6
<1>10. CASE KidWrites(c)
  <2>1. moved' = moved /\ made'[c] = made[c] + 1 /\ inPipe' = inPipe
        /\ outPipe'[c] = Append(outPipe[c], made'[c])
    BY <1>4, <1>10 DEF KidWrites
  <2>2. Len(outPipe'[c]) = Len(outPipe[c]) + 1
    BY <1>4, <2>1
  <2>3. Load(c)' = Sum(Announced(c), moved[c], Len(inPipe[c]), OutLen, made[c] + 1, Len(outPipe[c]) + 1)
    BY <1>b, <2>1, <2>2
  <2>4. PICK a, m, j, o, n, p \in Nat :
           /\ a = Announced(c) /\ m = moved[c] /\ j = Len(inPipe[c])
           /\ o = OutLen /\ n = made[c] /\ p = Len(outPipe[c])
    BY <1>d, Zenon
  <2>5. Load(c) = Sum(a, m, j, o, n, p) /\ Load(c)' = Sum(a, m, j, o, n + 1, p + 1)
    BY <1>a, <2>3, <2>4
  <2>6. Sum(a, m, j, o, n + 1, p + 1) = Sum(a, m, j, o, n, p) - 1
    BY DEF Sum
  <2> QED BY <1>3, <2>5, <2>6
<1> QED BY <1>3, <1>7, <1>8, <1>9, <1>10

\* Any other step gets on.
LEMMA PlacesWork ==
    ASSUME HttpIInv, HttpNext, NEW c \in Threads,
           Accept(c) \/ Thread(c) \/ Kid(c), ~ ended',
           ~ (Body(c) \/ Relay(c) \/ KidReads(c) \/ KidWrites(c))
    PROVE  /\ Rank(c)' <= Rank(c) /\ KidRank(c)' <= KidRank(c) /\ Load(c)' = Load(c)
           /\ Rank(c)' < Rank(c) \/ KidRank(c)' < KidRank(c)
<1>1. req' = req /\ HttpTypes /\ Employed(c)
  BY RequestsStay DEF HttpIInv, HoldersInv
<1>a. KidRank(c) \in 0 .. 2 /\ (kid' = kid => KidRank(c)' = KidRank(c))
  BY DEF KidRank
<1>2. CASE RequestLine(c)
  <2>1. pc[c] = "line" /\ pc'[c] \in {"501", "404 head", "file head", "cgi head"}
    BY <1>1, <1>2 DEF RequestLine, At, Go, HttpTypes, Request
  <2>2. kid' = kid /\ UNCHANGED <<moved, inPipe, outPipe, made>>
    BY <1>2 DEF RequestLine, script
  <2>3. Load(c)' = Load(c)
    BY <1>1, <2>2 DEF Load, Announced
  <2>4. Rank(c) = 10 /\ Rank(c)' \in {2, 9}
    BY <2>1 DEF Rank
  <2> QED BY <1>a, <2>2, <2>3, <2>4
<1>3. CASE Headers(c)
  <2>1. /\ pc[c] \in {"404 head", "file head", "cgi head"}
        /\ pc'[c] \in {"404", "file", "400", "200"}
    BY <1>1, <1>3 DEF Headers, At, Go, HttpTypes
  <2>2. kid' = kid /\ UNCHANGED <<moved, inPipe, outPipe, made>>
    BY <1>3 DEF Headers, script
  <2>3. Load(c)' = Load(c)
    BY <1>1, <2>2 DEF Load, Announced
  <2>4. Rank(c) = 9 /\ Rank(c)' \in {2, 8}
    BY <2>1 DEF Rank
  <2> QED BY <1>a, <2>2, <2>3, <2>4
<1>4. CASE Quiet(c)
  <2>1. Load(c)' = Load(c)
    BY <1>1, <1>4, QuietMovesNothing DEF Load, Announced
  <2>2. CASE KidExits(c)
    <3>1. pc' = pc /\ kid[c] = "run" /\ kid'[c] = "exit"
      BY <1>1, <2>2 DEF KidExits, HttpTypes
    <3>2. Rank(c)' = Rank(c) /\ Rank(c) \in 0 .. 11
      BY <3>1 DEF Rank
    <3>3. KidRank(c) = 1 /\ KidRank(c)' = 0
      BY <3>1 DEF KidRank
    <3> QED BY <2>1, <3>2, <3>3
  <2>3. CASE Fork(c)
    <3>1. pc[c] = "fork" /\ pc'[c] = "ends" /\ kid[c] = "none" /\ kid'[c] = "run"
      BY <1>1, <2>3 DEF Fork, At, Go, Employed, HttpTypes
    <3>2. Rank(c) = 6 /\ Rank(c)' = 5
      BY <3>1 DEF Rank
    <3>3. KidRank(c) = 2 /\ KidRank(c)' = 1
      BY <3>1 DEF KidRank
    <3> QED BY <2>1, <3>2, <3>3
  <2>4. CASE Accept(c)
    <3>1. pc[c] = "none" /\ pc'[c] \in {"line", "done"} /\ kid' = kid
      BY <1>1, <2>4 DEF Accept, Go, HttpTypes, script
    <3>2. Rank(c) = 11 /\ Rank(c)' \in {0, 10}
      BY <3>1 DEF Rank
    <3> QED BY <1>a, <2>1, <3>1, <3>2
  <2>5. CASE Refuse(c) \/ ServeFile(c) \/ Waitpid(c)
    <3>1. /\ pc[c] \in {"501", "404", "400", "500", "file", "wait"} /\ pc'[c] = "close"
          /\ kid' = kid
      BY <1>1, <2>5 DEF Refuse, ServeFile, Waitpid, At, Go, HttpTypes, script
    <3>2. Rank(c) = 2 /\ Rank(c)' = 1
      BY <3>1 DEF Rank
    <3> QED BY <1>a, <2>1, <3>1, <3>2
  <2>6. CASE Close(c) \/ Status200(c) \/ Pipes(c) \/ CloseEnds(c) \/ BodyDone(c) \/ RelayEnds(c)
    <3>1. /\ \/ pc[c] = "close" /\ pc'[c] = "done"
             \/ pc[c] = "200" /\ pc'[c] = "pipes"
             \/ pc[c] = "pipes" /\ pc'[c] = "fork"
             \/ pc[c] = "ends" /\ pc'[c] \in {"body", "relay"}
             \/ pc[c] = "body" /\ pc'[c] = "relay"
             \/ pc[c] = "relay" /\ pc'[c] = "wait"
          /\ kid' = kid
      BY <1>1, <2>6 DEF Close, Status200, Pipes, CloseEnds, BodyDone, RelayEnds, At, Go, HttpTypes,
                        script
    <3>2. \/ Rank(c) = 1 /\ Rank(c)' = 0
          \/ Rank(c) = 8 /\ Rank(c)' = 7
          \/ Rank(c) = 7 /\ Rank(c)' = 6
          \/ Rank(c) = 5 /\ Rank(c)' \in {3, 4}
          \/ Rank(c) = 4 /\ Rank(c)' = 3
          \/ Rank(c) = 3 /\ Rank(c)' = 2
      BY <3>1 DEF Rank
    <3> QED BY <1>a, <2>1, <3>1, <3>2
  <2>7. CASE PipesFail(c) \/ ForkFails(c)
    <3>1. pc[c] \in {"pipes", "fork"} /\ pc'[c] = "500" /\ kid' = kid
      BY <1>1, <2>7 DEF PipesFail, ForkFails, At, Go, HttpTypes, script
    <3>2. Rank(c) \in {6, 7} /\ Rank(c)' = 2
      BY <3>1 DEF Rank
    <3> QED BY <1>a, <2>1, <3>1, <3>2
  <2>8. ~ BodyKills(c)
    BY DEF BodyKills
  <2> QED BY <1>4, <2>2, <2>3, <2>4, <2>5, <2>6, <2>7, <2>8 DEF Quiet
<1> QED BY <1>2, <1>3, <1>4 DEF Thread, Kid, Quiet

\* So every step counts.
LEMMA HttpRunsOut ==
    ASSUME HttpIInv, HttpIInv', [HttpNext]_httpVars PROVE [StepsRunOut]_httpVars
<1> SUFFICES ASSUME HttpNext PROVE StepsRunOut
  OBVIOUS
<1>1. HttpTypes
  BY DEF HttpIInv
<1>5. (\A c \in Threads : Rank(c) \in 0 .. 11 /\ KidRank(c) \in 0 .. 2 /\ Load(c) \in Nat)'
  BY WorkIsNat, PTL
<1>2. ASSUME NEW c \in Threads, Accept(c) \/ Thread(c) \/ Kid(c), ~ ended'
      PROVE  Work(c)' \in Nat /\ Work(c)' < Work(c)
  <2>1. Rank(c) \in 0 .. 11 /\ KidRank(c) \in 0 .. 2 /\ Load(c) \in Nat
    BY WorkIsNat
  <2>2. PICK r \in 0 .. 11, i \in 0 .. 2, l \in Nat :
           r = Rank(c)' /\ i = KidRank(c)' /\ l = Load(c)'
    BY <1>5
  <2>3. /\ r <= Rank(c) /\ i <= KidRank(c) /\ l <= Load(c)
        /\ r < Rank(c) \/ i < KidRank(c) \/ l < Load(c)
    BY <1>2, <2>1, <2>2, BytesWork, PlacesWork
  <2>4. Work(c)' = r + i + l /\ Work(c) = Rank(c) + KidRank(c) + Load(c)
    BY <2>2 DEF Work
  <2> QED BY <2>1, <2>3, <2>4
<1>3. ASSUME NEW c \in Threads, Steps(c), NEW d \in Threads, d # c PROVE Work(d)' = Work(d)
  BY <1>1, <1>3, OthersWork
<1>4. ASSUME NEW c \in Threads, Client(c) PROVE Work(c)' = Work(c)
  BY <1>4, RequestsStay DEF Client, script, Work, Rank, KidRank, Load, Announced
<1> QED BY <1>2, <1>3, <1>4 DEF StepsRunOut, Steps
===============================================================================
