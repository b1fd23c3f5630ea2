--------------------------- MODULE EchoServers_proofs ---------------------------
(***************************************************************************)
(* Theorems about the servers of ch07, for any number of clients, of       *)
(* requests, of failing calls and of agents, and for any sizes of the      *)
(* tables.  First the servers with a process or a thread for each client:  *)
(* a connection lives as long as somebody holds a descriptor of it, that   *)
(* is until its client has left, and both programs implement EchoService.  *)
(* Then all five together: the properties of EchoServers, each for the     *)
(* server that runs, and what a liveness argument about them needs: while  *)
(* somebody waits for a server it has a step to take, and the rounds of    *)
(* its loop end.                                                           *)
(***************************************************************************)
EXTENDS EchoServers, MultiplexServers_proofs

-----------------------------------------------------------------------------
(* The servers with a process or a thread for each client. *)

SpawnEcho == INSTANCE EchoService WITH here <- Here, phase <- Phase,
                                         owed <- [c \in Clients |-> SpawnOwed(c)],
                                       admitting <- ~ ended

SpawnImplementsEchoService == SpawnEcho!Spec

SpawnOwnTypes == /\ byProcess \in BOOLEAN
                 /\ mpc \in {"accept", "spawn", "close"}
                 /\ connfd \in Clients \union {NoClient}
                 /\ kid \in [Clients -> {"none", "recv", "reply", "done"}]
                 /\ held \in [Clients -> SUBSET {"main", "child"}]

\* The connection the main loop has at hand is its own until it has an agent.
MainInv == /\ mpc # "accept" => connfd \in Clients /\ "main" \in held[connfd]
           /\ mpc = "spawn" => kid[connfd] = "none"
           /\ mpc = "close" => byProcess /\ kid[connfd] # "none"

\* A connection is open as long as somebody holds it, its agent does while it
\* works, and the agent is through only when the client has left.
HeldInv == \A c \in Clients : /\ srv[c] = "open" <=> held[c] # {}
                              /\ srv[c] = "none" => kid[c] = "none"
                              /\ kid[c] \in {"recv", "reply"} => Mine \in held[c]
                              /\ kid[c] = "done" => Here[c] = "left"

SpawnIInv == NetInv /\ SpawnOwnTypes /\ MainInv /\ HeldInv

-----------------------------------------------------------------------------
(* close *)

\* With a descriptor less the connection is open if one is left.
LEMMA DropsKeeps ==
    ASSUME SpawnIInv, NEW who \in {"main", "child"}, NEW c \in Clients, who \in held[c],
      Drops(who, c)
    PROVE  /\ held' \in [Clients -> SUBSET {"main", "child"}]
           /\ held'[c] = held[c] \ {who}
           /\ \A d \in Clients : d # c => held'[d] = held[d] /\ srv'[d] = srv[d]
           /\ \A d \in Clients : srv'[d] = "open" <=> held'[d] # {}
           /\ \A d \in Clients : srv'[d] = "none" <=> srv[d] = "none"
           /\ srv' \in [Clients -> {"none", "open", "refused", "closed"}]
           /\ \/ srv' = srv /\ Phase' = Phase
              \/ held[c] = {who} /\ Phase' = [Phase EXCEPT ![c] = "over"]
           /\ Phase[c] = "served"
<1>1. /\ held' = [held EXCEPT ![c] = held[c] \ {who}]
      /\ held \in [Clients -> SUBSET {"main", "child"}]
      /\ IF held[c] \subseteq {who} THEN Closes(c) ELSE UNCHANGED srv
      /\ NetInv /\ srv[c] = "open"
      /\ \A d \in Clients : srv[d] = "open" <=> held[d] # {}
  BY DEF Drops, SpawnIInv, SpawnOwnTypes, HeldInv
<1>2. held' \in [Clients -> SUBSET {"main", "child"}] /\ held'[c] = held[c] \ {who}
  BY <1>1
<1>3. \A d \in Clients : d # c => held'[d] = held[d]
  BY <1>1
<1>4. Phase[c] = "served"
  BY <1>1 DEF Phase
<1>5. CASE held[c] \subseteq {who}
  <2>1. held[c] = {who} /\ srv' = [srv EXCEPT ![c] = "closed"]
    BY <1>1, <1>5 DEF Closes
  <2>2. \A d \in Clients : srv'[d] = IF d = c THEN "closed" ELSE srv[d]
    BY <1>1, <2>1 DEF NetInv, NetTypes
  <2>3. /\ Phase' = [Phase EXCEPT ![c] = "over"]
        /\ srv' \in [Clients -> {"none", "open", "refused", "closed"}]
        /\ \A d \in Clients : srv'[d] = "none" <=> srv[d] = "none"
    BY <1>1, <1>5, CloseReleases
  <2>4. held'[c] = {}
    BY <1>2, <2>1
  <2> QED BY <1>1, <1>2, <1>3, <1>4, <2>1, <2>2, <2>3, <2>4
<1>6. CASE ~ (held[c] \subseteq {who})
  <2>1. srv' = srv /\ held'[c] # {}
    BY <1>1, <1>2, <1>6
  <2>2. Phase' = Phase
    BY Zenon, <2>1 DEF Phase
  <2>3. srv \in [Clients -> {"none", "open", "refused", "closed"}]
    BY <1>1 DEF NetInv, NetTypes
  <2> QED BY <1>1, <1>2, <1>3, <1>4, <2>1, <2>2, <2>3
<1> QED BY <1>5, <1>6

\* A client that has left does not come back.
LEMMA LeftForGood ==
    ASSUME SpawnIInv, ClientStep, NEW c \in Clients, Here[c] = "left"
    PROVE  Here'[c] = "left"
<1>1. PICK d \in Clients : Connect(d) \/ Send(d) \/ Leave(d)
  BY DEF ClientStep
<1>2. CASE Connect(d)
  BY <1>2, ConnectArrives DEF SpawnIInv, Here
<1>3. CASE Send(d)
  BY <1>3, SendIsUnseen
<1>4. CASE Leave(d)
  BY <1>4, LeaveLeaves DEF SpawnIInv, Here
<1> QED BY <1>1, <1>2, <1>3, <1>4

-----------------------------------------------------------------------------
(* The main loop. *)

\* accept: the main loop holds the new connection.
LEMMA AcceptStep == ASSUME SpawnIInv, UNCHANGED byProcess, Accept PROVE SpawnIInv'
<1> DEFINE c == Accepted
<1>1. /\ Accepts("open") /\ connfd' = c /\ held' = [held EXCEPT ![c] = {"main"}]
      /\ mpc = "accept" /\ mpc' = "spawn" /\ UNCHANGED <<peer, sent, got, faults, ended, kid>>
  BY DEF Accept
<1>2. NetInv /\ c \in Clients /\ srv[c] = "none"
  BY <1>1, HeadIsNew DEF Accepts, SpawnIInv
<1>3. NetInv'
  BY <1>1, <1>2, AcceptKeepsQueue DEF NetInv, NetTypes
<1>4. \A d \in Clients : /\ srv'[d] = IF d = c THEN "open" ELSE srv[d]
                         /\ held'[d] = IF d = c THEN {"main"} ELSE held[d]
  BY <1>1, <1>2 DEF Accepts, NetInv, NetTypes, SpawnIInv, SpawnOwnTypes
<1>5. Here' = Here /\ kid[c] = "none"
  BY Zenon, <1>1, <1>2 DEF Here, SpawnIInv, HeldInv
<1>6. HeldInv'
  BY <1>1, <1>4, <1>5 DEF SpawnIInv, HeldInv, Mine
<1>7. held' \in [Clients -> SUBSET {"main", "child"}]
  BY <1>1 DEF SpawnIInv, SpawnOwnTypes
<1>8. SpawnOwnTypes' /\ MainInv'
  BY <1>1, <1>2, <1>4, <1>5, <1>7 DEF SpawnIInv, SpawnOwnTypes, MainInv
<1> QED BY <1>3, <1>6, <1>8 DEF SpawnIInv

\* A call that fails leaves the connections as they are.
LEMMA FailStep == ASSUME SpawnIInv, UNCHANGED byProcess,
                        SpawnAcceptFails \/ ForkFails \/ CreateFails
                 PROVE  SpawnIInv'
<1>1. /\ UNCHANGED <<peer, backlog, srv, sent, got, kid, held>>
      /\ UNCHANGED <<mpc, connfd>> \/ (mpc' = "accept" /\ connfd' = NoClient)
      /\ UNCHANGED faults \/ faults' = faults + 1
      /\ ended' \in BOOLEAN
  BY DEF SpawnAcceptFails, ForkFails, CreateFails, spawnOwn, Fails, SpawnIInv, SpawnOwnTypes
<1>2. NetInv'
  BY <1>1, CallKeepsQueue DEF SpawnIInv, NetInv, NetTypes
<1>3. Here' = Here
  BY Zenon, <1>1 DEF Here
<1> QED BY <1>1, <1>2, <1>3 DEF SpawnIInv, SpawnOwnTypes, MainInv, HeldInv, Mine

\* fork and pthread_create give the connection at hand its agent.
LEMMA SpawnStep == ASSUME SpawnIInv, UNCHANGED byProcess, Fork \/ Create PROVE SpawnIInv'
<1> DEFINE c == connfd
<1>1. /\ UNCHANGED <<peer, backlog, srv, sent, got, faults, ended>>
      /\ mpc = "spawn" /\ kid' = [kid EXCEPT ![c] = "recv"]
  BY DEF Fork, Create, net
<1>2. c \in Clients /\ "main" \in held[c] /\ kid[c] = "none"
  BY <1>1 DEF SpawnIInv, MainInv
<1>3. /\ held' \in [Clients -> SUBSET {"main", "child"}]
      /\ "main" \in held'[c] /\ Mine \in held'[c]
      /\ \A d \in Clients : d # c => held'[d] = held[d]
  <2>1. held \in [Clients -> SUBSET {"main", "child"}]
    BY DEF SpawnIInv, SpawnOwnTypes
  <2>2. CASE Fork
    BY <1>2, <2>1, <2>2 DEF Fork, Mine
  <2>3. CASE Create
    BY <1>2, <2>1, <2>3 DEF Create, Mine
  <2> QED BY <2>2, <2>3
<1>4. /\ kid' \in [Clients -> {"none", "recv", "reply", "done"}]
      /\ \A d \in Clients : kid'[d] = IF d = c THEN "recv" ELSE kid[d]
  BY <1>1 DEF SpawnIInv, SpawnOwnTypes
<1>5. NetInv' /\ Here' = Here
  BY <1>1 DEF SpawnIInv, NetInv, NetTypes, QueueInv, Here
<1>6. HeldInv'
  BY <1>1, <1>2, <1>3, <1>4, <1>5 DEF SpawnIInv, HeldInv, Mine
<1>7. (mpc' = "close" /\ byProcess /\ connfd' = connfd) \/ (mpc' = "accept" /\ connfd' = NoClient)
  BY DEF Fork, Create
<1>8. SpawnOwnTypes' /\ MainInv'
  BY <1>2, <1>3, <1>4, <1>7 DEF SpawnIInv, SpawnOwnTypes, MainInv
<1> QED BY <1>5, <1>6, <1>8 DEF SpawnIInv

\* The parent closes its descriptor of a connection that has its child.
LEMMA CloseStep == ASSUME SpawnIInv, UNCHANGED byProcess, Close PROVE SpawnIInv'
<1> DEFINE c == connfd
<1>1. /\ mpc = "close" /\ Drops("main", c) /\ mpc' = "accept" /\ connfd' = NoClient
      /\ UNCHANGED <<peer, backlog, sent, got, faults, ended, kid>>
  BY DEF Close
<1>2. c \in Clients /\ "main" \in held[c] /\ byProcess
  BY <1>1 DEF SpawnIInv, MainInv
<1>3. /\ held' \in [Clients -> SUBSET {"main", "child"}]
      /\ held'[c] = held[c] \ {"main"}
      /\ \A d \in Clients : d # c => held'[d] = held[d]
      /\ \A d \in Clients : srv'[d] = "open" <=> held'[d] # {}
      /\ \A d \in Clients : srv'[d] = "none" <=> srv[d] = "none"
      /\ srv' \in [Clients -> {"none", "open", "refused", "closed"}]
  BY <1>1, <1>2, DropsKeeps
<1>4. NetInv'
  BY <1>1, <1>3, CallKeepsQueue DEF SpawnIInv, NetInv, NetTypes
<1>5. Here' = Here
  BY Zenon, <1>1 DEF Here
<1>6. HeldInv'
  BY <1>1, <1>2, <1>3, <1>5 DEF SpawnIInv, HeldInv, Mine
<1>7. SpawnOwnTypes' /\ MainInv'
  BY <1>1, <1>3 DEF SpawnIInv, SpawnOwnTypes, MainInv
<1> QED BY <1>4, <1>6, <1>7 DEF SpawnIInv

-----------------------------------------------------------------------------
(* The agents. *)

\* An agent at work has its connection open.
LEMMA AgentHolds == ASSUME SpawnIInv, NEW c \in Clients, kid[c] \in {"recv", "reply"}
                    PROVE  srv[c] = "open" /\ Mine \in held[c] /\ Mine \in {"main", "child"}
BY DEF SpawnIInv, HeldInv, Mine

\* recv with data, and send.
LEMMA ServeStep == ASSUME SpawnIInv, NEW c \in Clients, UNCHANGED byProcess,
                         KidReads(c) \/ KidReplies(c)
                  PROVE  SpawnIInv'
<1>1. /\ UNCHANGED <<backlog, srv, sent, faults, ended, mpc, connfd, held>>
      /\ kid[c] \in {"recv", "reply"}
      /\ \E to \in {"recv", "reply"} : kid' = [kid EXCEPT ![c] = to]
      /\ UNCHANGED peer \/ Takes(c) \/ Refuses(c)
      /\ UNCHANGED got \/ Receives(c)
  BY DEF KidReads, KidReplies
<1>2. /\ kid' \in [Clients -> {"none", "recv", "reply", "done"}]
      /\ kid'[c] \in {"recv", "reply"}
      /\ \A d \in Clients : d # c => kid'[d] = kid[d]
  BY <1>1 DEF SpawnIInv, SpawnOwnTypes
<1>3. got' \in [Clients -> Nat]
  <2>1. got \in [Clients -> Nat] /\ got[c] \in Nat /\ sent[c] \in Nat
    BY DEF SpawnIInv, NetInv, NetTypes
  <2>2. CASE Receives(c)
    <3>1. PICK n \in got[c] + 1 .. sent[c] : got' = [got EXCEPT ![c] = n]
      BY <2>2 DEF Receives
    <3>2. n \in Nat
      BY SMT, <2>1
    <3> QED BY <2>1, <3>1, <3>2
  <2> QED BY <1>1, <2>1, <2>2
<1>4. NetInv' /\ Here' = Here
  BY <1>1, <1>3, CallsKeepPeer, CallKeepsQueue DEF SpawnIInv, NetInv, NetTypes
<1>5. HeldInv'
  BY <1>1, <1>2, <1>4, AgentHolds DEF SpawnIInv, HeldInv, Mine
<1>6. SpawnOwnTypes' /\ MainInv'
  BY <1>1, <1>2 DEF SpawnIInv, SpawnOwnTypes, MainInv
<1> QED BY <1>4, <1>5, <1>6 DEF SpawnIInv

\* What an agent's end is: its descriptor goes, and its client has left.
AgentGone(c) == /\ kid[c] \in {"recv", "reply"} /\ Drops(Mine, c) /\ Here[c] = "left"
                /\ Here' = Here
                /\ kid' = [kid EXCEPT ![c] = "done"]
                /\ UNCHANGED <<backlog, sent, got, faults, ended, mpc, connfd>>

\* The end of the connection, or SIGPIPE in a child, is an agent's end; SIGPIPE
\* in a thread is the end of the process.
LEMMA AgentEnds ==
    ASSUME SpawnIInv, NEW c \in Clients, KidEnds(c) \/ KidIsKilled(c)
    PROVE  /\ NetInv' /\ Here' = Here
           /\ \/ AgentGone(c)
              \/ ~ ended /\ ended' = TRUE /\ UNCHANGED <<srv, mpc, connfd, kid, held>>
<1>1. NetInv
  BY DEF SpawnIInv
<1>2. CASE KidEnds(c)
  <2>1. /\ ErrorTaken(c) /\ Drops(Mine, c) /\ kid' = [kid EXCEPT ![c] = "done"]
        /\ UNCHANGED <<backlog, sent, got, faults, ended, mpc, connfd>>
    BY <1>2 DEF KidEnds
  <2>2. kid[c] = "recv" /\ (AtEnd(c) \/ AtError(c))
    BY <1>2 DEF KidEnds
  <2>3. Here[c] = "left"
    BY <2>2 DEF Here, AtEnd, AtError
  <2>4. /\ peer' \in [Clients -> {"idle", "open", "closed", "reset", "dead"}]
        /\ \A d \in Clients : peer'[d] = "idle" <=> peer[d] = "idle"
        /\ Here' = Here
    BY <1>1, <2>1, CallsKeepPeer
  <2>5. /\ srv' \in [Clients -> {"none", "open", "refused", "closed"}]
        /\ \A d \in Clients : srv'[d] = "none" <=> srv[d] = "none"
    BY <2>1, <2>2, AgentHolds, DropsKeeps
  <2>6. NetInv'
    BY <1>1, <2>1, <2>4, <2>5, CallKeepsQueue DEF NetInv, NetTypes
  <2> QED BY <2>1, <2>2, <2>3, <2>4, <2>6 DEF AgentGone
<1>3. CASE KidIsKilled(c) /\ byProcess
  <2>1. /\ kid[c] = "reply" /\ Drops(Mine, c) /\ kid' = [kid EXCEPT ![c] = "done"]
        /\ UNCHANGED <<peer, backlog, sent, got, faults, ended, mpc, connfd>> /\ peer[c] = "dead"
    BY <1>3 DEF KidIsKilled, BrokenPipe
  <2>2. Here' = Here /\ Here[c] = "left"
    <3>1. Here' = Here
      BY Zenon, <2>1 DEF Here
    <3> QED BY <3>1, <2>1 DEF Here
  <2>3. /\ srv' \in [Clients -> {"none", "open", "refused", "closed"}]
        /\ \A d \in Clients : srv'[d] = "none" <=> srv[d] = "none"
    BY <2>1, AgentHolds, DropsKeeps
  <2>4. NetInv'
    BY <1>1, <2>1, <2>3, CallKeepsQueue DEF NetInv, NetTypes
  <2> QED BY <2>1, <2>2, <2>4 DEF AgentGone
<1>4. CASE KidIsKilled(c) /\ ~ byProcess
  <2>1. /\ ~ ended /\ ended' = TRUE
        /\ UNCHANGED <<peer, backlog, srv, sent, got, faults, mpc, connfd, kid, held>>
    BY <1>4 DEF KidIsKilled, Alive
  <2>2. Here' = Here
    BY Zenon, <2>1 DEF Here
  <2>3. NetInv'
    BY <1>1, <2>1 DEF NetInv, NetTypes, QueueInv
  <2> QED BY <2>1, <2>2, <2>3
<1> QED BY <1>2, <1>3, <1>4

\* ... and keeps the invariant.
LEMMA EndStep == ASSUME SpawnIInv, NEW c \in Clients, UNCHANGED byProcess,
                       KidEnds(c) \/ KidIsKilled(c)
                PROVE  SpawnIInv'
<1>1. NetInv' /\ Here' = Here
  BY AgentEnds
<1>2. CASE AgentGone(c)
  <2>1. /\ UNCHANGED <<mpc, connfd>> /\ Here[c] = "left" /\ Mine' = Mine
        /\ kid[c] \in {"recv", "reply"} /\ kid' = [kid EXCEPT ![c] = "done"]
    BY <1>2 DEF AgentGone, Mine
  <2>2. /\ held' \in [Clients -> SUBSET {"main", "child"}]
        /\ held'[c] = held[c] \ {Mine}
        /\ \A d \in Clients : d # c => held'[d] = held[d]
        /\ \A d \in Clients : srv'[d] = "open" <=> held'[d] # {}
        /\ \A d \in Clients : srv'[d] = "none" <=> srv[d] = "none"
    BY <1>2, AgentHolds, DropsKeeps DEF AgentGone
  <2>3. /\ kid' \in [Clients -> {"none", "recv", "reply", "done"}]
        /\ kid'[c] = "done"
        /\ \A d \in Clients : d # c => kid'[d] = kid[d]
    BY <2>1 DEF SpawnIInv, SpawnOwnTypes
  <2>4. srv[c] = "open"
    BY <2>1, AgentHolds
  <2>5. HeldInv'
    BY <1>1, <2>1, <2>2, <2>3, <2>4 DEF SpawnIInv, HeldInv
  <2>6. MainInv'
    BY <2>1, <2>2, <2>3 DEF SpawnIInv, SpawnOwnTypes, MainInv, Mine
  <2> QED BY <1>1, <2>1, <2>2, <2>3, <2>5, <2>6 DEF SpawnIInv, SpawnOwnTypes
<1>3. CASE UNCHANGED <<srv, mpc, connfd, kid, held>>
  BY <1>1, <1>3 DEF SpawnIInv, SpawnOwnTypes, MainInv, HeldInv, Mine
<1> QED BY <1>2, <1>3, AgentEnds

-----------------------------------------------------------------------------
\* The clients.
LEMMA SpawnClientKeeps == ASSUME SpawnIInv, ClientStep, UNCHANGED spawnOwn PROVE SpawnIInv'
<1>1. PICK c \in Clients : Connect(c) \/ Send(c) \/ Leave(c)
  BY DEF ClientStep
<1>2. NetInv' /\ srv' = srv
  BY Zenon, <1>1, ConnectQueues, OthersKeepQueue DEF SpawnIInv, Connect, Send, Leave
<1>3. UNCHANGED <<byProcess, mpc, connfd, kid, held>>
  BY DEF spawnOwn
<1>4. \A d \in Clients : Here[d] = "left" => Here'[d] = "left"
  BY LeftForGood
<1> QED BY <1>2, <1>3, <1>4 DEF SpawnIInv, SpawnOwnTypes, MainInv, HeldInv, Mine

\* The invariant holds at the start ...
LEMMA SpawnStarts == ASSUME SpawnInit PROVE SpawnIInv
<1>1. NetInv
  BY InitialNet DEF SpawnInit
<1> QED BY <1>1 DEF SpawnInit, NetInit, SpawnIInv, SpawnOwnTypes, MainInv, HeldInv

\* ... and is kept by every step.
LEMMA SpawnStepKeeps == ASSUME SpawnIInv, [SpawnNext]_spawnVars PROVE SpawnIInv'
<1>1. CASE Main
  BY <1>1, AcceptStep, FailStep, SpawnStep, CloseStep DEF Main
<1>2. CASE \E c \in Clients : Kid(c)
  BY <1>2, ServeStep, EndStep DEF Kid
<1>3. CASE ClientStep /\ UNCHANGED spawnOwn
  BY <1>3, SpawnClientKeeps
<1>4. CASE UNCHANGED spawnVars
  <2>1. UNCHANGED <<peer, backlog, srv, sent, got, faults, ended,
                  byProcess, mpc, connfd, kid, held>>
    BY <1>4 DEF spawnVars, net, spawnOwn
  <2>2. NetInv' /\ Here' = Here
    BY <2>1 DEF SpawnIInv, NetInv, NetTypes, QueueInv, Here
  <2> QED BY <2>1, <2>2 DEF SpawnIInv, SpawnOwnTypes, MainInv, HeldInv, Mine
<1> QED BY <1>1, <1>2, <1>3, <1>4 DEF SpawnNext

\* The invariant holds in every reachable state.
THEOREM SpawnInductive == SpawnSpec => []SpawnIInv
BY SpawnStarts, SpawnStepKeeps, PTL DEF SpawnSpec

\* A connection is open exactly as long as a process holds a descriptor of it:
\* neither the parent's close nor the child's end takes it away from the other.
HeldIsOpen == \A c \in Clients : srv[c] = "open" <=> held[c] # {}

\* HeldIsOpen, of the descriptors of parent and child in 7.3 and of the one table
\* of 7.4.
THEOREM OpenWhileHeld == SpawnSpec => []HeldIsOpen
<1>1. SpawnIInv => HeldIsOpen
  BY DEF SpawnIInv, HeldInv, HeldIsOpen
<1> QED BY <1>1, SpawnInductive, PTL

-----------------------------------------------------------------------------
(* The refinement. *)

spawnOwed == [c \in Clients |-> SpawnOwed(c)]

\* What is owed changes with the agents.
LEMMA OwedKid == ASSUME SpawnIInv, NEW c \in Clients,
                        NEW to \in {"none", "recv", "reply", "done"},
                        kid' = [kid EXCEPT ![c] = to]
                 PROVE  /\ spawnOwed' = [spawnOwed EXCEPT ![c] = (to = "reply")]
                        /\ spawnOwed[c] = (kid[c] = "reply")
<1>1. \A d \in Clients : kid'[d] = IF d = c THEN to ELSE kid[d]
  BY DEF SpawnIInv, SpawnOwnTypes
<1>2. \A d \in Clients : spawnOwed'[d] = IF d = c THEN (to = "reply") ELSE spawnOwed[d]
  BY <1>1 DEF spawnOwed, SpawnOwed
<1>3. spawnOwed = [d \in Clients |-> spawnOwed[d]]
        /\ spawnOwed' = [d \in Clients |-> spawnOwed'[d]]
  BY Zenon DEF spawnOwed, SpawnOwed
<1>4. spawnOwed' = [spawnOwed EXCEPT ![c] = (to = "reply")]
  BY Zenon, <1>2, <1>3
<1> QED BY <1>4, Zenon DEF spawnOwed, SpawnOwed

\* The main loop admits, stops, or is not seen.
LEMMA MainImplements ==
    ASSUME SpawnIInv, Main
    PROVE  \/ \E c \in Clients : SpawnEcho!Admit(c) \/ SpawnEcho!Release(c)
           \/ SpawnEcho!Stop
           \/ UNCHANGED <<Here, Phase, spawnOwed, ended>>
<1>1. CASE Accept
  <2> DEFINE c == Accepted
  <2>1. Accepts("open") /\ backlog # << >> /\ UNCHANGED <<peer, ended, kid>> /\ ~ ended
    BY <1>1 DEF Accept, Accepts
  <2>2. c \in Clients /\ Here[c] # "away" /\ Phase[c] = "new"
          /\ Phase' = [Phase EXCEPT ![c] = "served"]
    BY <2>1, HeadIsNew, AcceptDecides DEF SpawnIInv
  <2>3. Here' = Here /\ spawnOwed' = spawnOwed
    BY Zenon, <2>1 DEF Here, spawnOwed, SpawnOwed
  <2> QED BY <2>1, <2>2, <2>3 DEF SpawnEcho!Admit, spawnOwed
<1>2. CASE SpawnAcceptFails \/ ForkFails \/ CreateFails
  <2>1. UNCHANGED <<peer, srv, kid>> /\ ~ ended /\ ended' \in BOOLEAN
    BY <1>2 DEF SpawnAcceptFails, ForkFails, CreateFails, spawnOwn, Fails, SpawnIInv,
         SpawnOwnTypes
  <2>2. UNCHANGED <<Here, Phase, spawnOwed>>
    BY Zenon, <2>1 DEF Here, Phase, spawnOwed, SpawnOwed
  <2>3. ended' = TRUE \/ ended' = ended
    BY <2>1 DEF SpawnIInv, NetInv, NetTypes
  <2> QED BY <2>1, <2>2, <2>3 DEF SpawnEcho!Stop, spawnOwed
<1>3. CASE Fork \/ Create
  <2>1. /\ UNCHANGED <<peer, srv, ended>> /\ connfd \in Clients /\ kid[connfd] = "none"
        /\ kid' = [kid EXCEPT ![connfd] = "recv"]
    BY <1>3 DEF Fork, Create, net, SpawnIInv, MainInv
  <2>2. UNCHANGED <<Here, Phase>>
    BY Zenon, <2>1 DEF Here, Phase
  <2>3. \A d \in Clients : kid'[d] = "reply" <=> kid[d] = "reply"
    BY <2>1 DEF SpawnIInv, SpawnOwnTypes
  <2>4. spawnOwed' = spawnOwed
    BY <2>3 DEF spawnOwed, SpawnOwed
  <2> QED BY <2>1, <2>2, <2>4
<1>4. CASE Close
  <2> DEFINE c == connfd
  <2>1. mpc = "close" /\ Drops("main", c) /\ UNCHANGED <<peer, ended, kid>>
    BY <1>4 DEF Close
  <2>2. c \in Clients /\ "main" \in held[c] /\ byProcess /\ kid[c] # "none"
    BY <2>1 DEF SpawnIInv, MainInv
  <2>3. Here' = Here /\ spawnOwed' = spawnOwed
    BY Zenon, <2>1 DEF Here, spawnOwed, SpawnOwed
  <2>4. /\ \/ Phase' = Phase
           \/ held[c] = {"main"} /\ Phase' = [Phase EXCEPT ![c] = "over"]
        /\ Phase[c] = "served"
    BY <2>1, <2>2, DropsKeeps
  <2>5. held[c] = {"main"} => kid[c] = "done" /\ Here[c] = "left"
    BY <2>2 DEF SpawnIInv, SpawnOwnTypes, HeldInv, Mine
  <2>6. kid[c] = "done" => spawnOwed' = [spawnOwed EXCEPT ![c] = FALSE]
    <3>1. spawnOwed = [d \in Clients |-> kid[d] = "reply"]
      BY Zenon DEF spawnOwed, SpawnOwed
    <3> QED BY <3>1, <2>2, <2>3
  <2> QED BY <2>1, <2>2, <2>3, <2>4, <2>5, <2>6 DEF SpawnEcho!Release, spawnOwed
<1> QED BY <1>1, <1>2, <1>3, <1>4 DEF Main

\* An agent takes, answers, releases, and a thread may stop the server.
LEMMA KidImplements ==
    ASSUME SpawnIInv, NEW c \in Clients, Kid(c)
    PROVE  \/ SpawnEcho!Take(c) \/ SpawnEcho!Answer(c) \/ SpawnEcho!Release(c) \/ SpawnEcho!Stop
           \/ UNCHANGED <<Here, Phase, spawnOwed, ended>>
<1>1. CASE KidReads(c)
  <2>1. UNCHANGED <<peer, srv, ended>> /\ kid[c] = "recv" /\ kid' = [kid EXCEPT ![c] = "reply"]
    BY <1>1 DEF KidReads
  <2>2. Here' = Here /\ Phase' = Phase
    BY Zenon, <2>1 DEF Here, Phase
  <2>3. Phase[c] = "served"
    BY <2>1, AgentHolds DEF Phase
  <2>4. spawnOwed' = [spawnOwed EXCEPT ![c] = TRUE]
    BY <2>1, OwedKid
  <2> QED BY <2>1, <2>2, <2>3, <2>4 DEF SpawnEcho!Take, spawnOwed
<1>2. CASE KidReplies(c)
  <2>1. /\ UNCHANGED <<srv, ended>> /\ kid[c] = "reply" /\ kid' = [kid EXCEPT ![c] = "recv"]
        /\ Takes(c) \/ Refuses(c)
    BY <1>2 DEF KidReplies
  <2>2. Here' = Here
    BY <2>1, CallsKeepPeer DEF SpawnIInv
  <2>3. Phase' = Phase
    BY Zenon, <2>1 DEF Phase
  <2>4. Phase[c] = "served"
    BY <2>1, AgentHolds DEF Phase
  <2>5. spawnOwed[c] /\ spawnOwed' = [spawnOwed EXCEPT ![c] = FALSE]
    BY <2>1, OwedKid
  <2> QED BY <2>1, <2>2, <2>3, <2>4, <2>5 DEF SpawnEcho!Answer, spawnOwed
<1>3. CASE AgentGone(c)
  <2>1. /\ kid[c] \in {"recv", "reply"} /\ Drops(Mine, c) /\ Here[c] = "left" /\ Here' = Here
        /\ kid' = [kid EXCEPT ![c] = "done"] /\ ended' = ended
    BY <1>3 DEF AgentGone
  <2>2. /\ Phase' = Phase \/ Phase' = [Phase EXCEPT ![c] = "over"]
        /\ Phase[c] = "served"
    BY <2>1, AgentHolds, DropsKeeps
  <2>3. spawnOwed' = [spawnOwed EXCEPT ![c] = FALSE] /\ spawnOwed[c] = (kid[c] = "reply")
    BY <2>1, OwedKid
  <2>4. CASE Phase' = [Phase EXCEPT ![c] = "over"]
    BY <2>1, <2>2, <2>3, <2>4 DEF SpawnEcho!Release, spawnOwed
  <2>5. CASE Phase' = Phase /\ kid[c] = "reply"
    BY <2>1, <2>2, <2>3, <2>5 DEF SpawnEcho!Answer, spawnOwed
  <2>6. CASE Phase' = Phase /\ kid[c] = "recv"
    <3>1. spawnOwed' = spawnOwed
      <4>1. spawnOwed = [d \in Clients |-> kid[d] = "reply"]
        BY Zenon DEF spawnOwed, SpawnOwed
      <4> QED BY <4>1, <2>3, <2>6
    <3> QED BY <2>1, <2>6, <3>1
  <2> QED BY <2>1, <2>2, <2>4, <2>5, <2>6
<1>4. CASE Here' = Here /\ ~ ended /\ ended' = TRUE /\ UNCHANGED <<srv, kid>>
  <2>1. Phase' = Phase /\ spawnOwed' = spawnOwed
    BY Zenon, <1>4 DEF Phase, spawnOwed, SpawnOwed
  <2> QED BY <1>4, <2>1 DEF SpawnEcho!Stop, spawnOwed
<1> QED BY <1>1, <1>2, <1>3, <1>4, AgentEnds DEF Kid

\* The clients come, leave, and send unseen.
LEMMA SpawnClientImplements == ASSUME SpawnIInv, ClientStep, UNCHANGED spawnOwn
                               PROVE  \/ \E c \in Clients : \/ SpawnEcho!Arrive(c)
                                                            \/ SpawnEcho!Leave(c)
                                      \/ UNCHANGED <<Here, Phase, spawnOwed, ended>>
<1>1. PICK c \in Clients : Connect(c) \/ Send(c) \/ Leave(c)
  BY DEF ClientStep
<1>2. UNCHANGED ended /\ NetInv
  BY Zenon, <1>1 DEF Connect, Send, Leave, SpawnIInv
<1>3. spawnOwed' = spawnOwed
  BY Zenon DEF spawnOwed, SpawnOwed, spawnOwn
<1>4. CASE Connect(c)
  BY <1>2, <1>3, <1>4, ConnectArrives DEF SpawnEcho!Arrive, spawnOwed
<1>5. CASE Leave(c)
  BY <1>2, <1>3, <1>5, LeaveLeaves DEF SpawnEcho!Leave, spawnOwed
<1>6. CASE Send(c)
  BY <1>2, <1>3, <1>6, SendIsUnseen
<1> QED BY <1>1, <1>4, <1>5, <1>6

\* They start as EchoService does ...
LEMMA SpawnStartsEcho == ASSUME SpawnInit PROVE SpawnEcho!Init
<1>1. /\ peer = [c \in Clients |-> "idle"] /\ srv = [c \in Clients |-> "none"] /\ ended = FALSE
      /\ kid = [c \in Clients |-> "none"]
  BY DEF SpawnInit, NetInit
<1>2. Here = [c \in Clients |-> "away"] /\ Phase = [c \in Clients |-> "new"]
  BY <1>1 DEF Here, Phase
<1>3. spawnOwed = [c \in Clients |-> FALSE]
  BY <1>1 DEF spawnOwed, SpawnOwed
<1> QED BY <1>1, <1>2, <1>3 DEF SpawnEcho!Init, spawnOwed

\* ... and take one of its steps, or none, with each of their own.
LEMMA SpawnStepIsEcho == ASSUME SpawnIInv, [SpawnNext]_spawnVars
                       PROVE  SpawnEcho!Next \/ UNCHANGED <<Here, Phase, spawnOwed, ended>>
<1>1. CASE Main
  BY <1>1, MainImplements DEF SpawnEcho!Next
<1>2. CASE \E c \in Clients : Kid(c)
  BY <1>2, KidImplements DEF SpawnEcho!Next
<1>3. CASE ClientStep /\ UNCHANGED spawnOwn
  BY <1>3, SpawnClientImplements DEF SpawnEcho!Next
<1>4. CASE UNCHANGED spawnVars
  <2>1. UNCHANGED <<peer, srv, ended, kid>>
    BY <1>4 DEF spawnVars, net, spawnOwn
  <2> QED BY Zenon, <2>1 DEF Here, Phase, spawnOwed, SpawnOwed
<1> QED BY <1>1, <1>2, <1>3, <1>4 DEF SpawnNext

\* The servers with a process or a thread for each client implement
\* EchoService: nobody is answered who did not ask, admitted twice, or given up
\* while still there, in whatever order parent and child close.
THEOREM SpawnImplementsEcho == SpawnSpec => SpawnImplementsEchoService
<1>1. SpawnIInv /\ [SpawnNext]_spawnVars => [SpawnEcho!Next]_SpawnEcho!vars
  BY SpawnStepIsEcho DEF SpawnEcho!vars, spawnOwed
<1> QED BY <1>1, SpawnStartsEcho, SpawnInductive, PTL DEF SpawnSpec, SpawnEcho!Spec,
      SpawnImplementsEchoService

-----------------------------------------------------------------------------
(* The limits, and the end of the main loop. *)

\* There are never more processes or threads than the system allows.
KidsFit == Cardinality(Kids) <= MaxKids

\* The process ends for a call that failed; the parent, also at the limit on
\* processes; the threads' process, also for a peer that one of them answered
\* (SIGPIPE) and where a connection was left without a thread.
SpawnEnds == ended => \/ faults > 0
                      \/ byProcess /\ Cardinality(Kids) = MaxKids
                      \/ ~ byProcess /\ \E c \in Clients : peer[c] \in {"reset", "dead"}
                      \/ ~ byProcess /\ \E c \in Clients : Orphan(c)

SpawnRest == Bounds /\ KidsFit /\ SpawnEnds

\* The agents are finitely many.
LEMMA KidsAreFinite == /\ IsFiniteSet(Kids) /\ Kids \subseteq Clients /\ Cardinality(Kids) \in Nat
<1>1. IsFiniteSet(Clients)
  <2>1. 1 \in Int /\ NumClients \in Int
    BY SMT, SocketsAssumption
  <2> QED BY <2>1, FS_Interval DEF Clients
<1>2. Kids \subseteq Clients
  BY DEF Kids
<1>3. IsFiniteSet(Kids)
  BY <1>1, <1>2, FS_Subset
<1> QED BY <1>2, <1>3, FS_CardinalityType

\* fork and pthread_create add one where there is room; nothing else adds any,
\* and a child that has ended stays in the table of the processes.
LEMMA KidsChange ==
    ASSUME SpawnIInv, SpawnNext
    PROVE  \/ /\ Cardinality(Kids) < MaxKids /\ ~ ended /\ UNCHANGED ended
              /\ \E c \in Clients : Kids' = Kids \union {c}
           \/ Kids' \subseteq Kids /\ (byProcess => Kids' = Kids)
<1>1. byProcess' = byProcess /\ kid \in [Clients -> {"none", "recv", "reply", "done"}]
  BY DEF SpawnNext, Main, Kid, spawnOwn, SpawnIInv, SpawnOwnTypes
<1>2. CASE Fork \/ Create
  <2>1. /\ kid' = [kid EXCEPT ![connfd] = "recv"] /\ Cardinality(Kids) < MaxKids
        /\ ~ ended /\ UNCHANGED ended
    BY <1>2 DEF Fork, Create, net
  <2>2. connfd \in Clients
    BY <1>2 DEF Fork, Create, SpawnIInv, MainInv
  <2>3. Kids' = Kids \union {connfd}
    BY <1>1, <2>1, <2>2 DEF Kids
  <2> QED BY <2>1, <2>2, <2>3
<1>3. CASE kid' = kid
  BY <1>1, <1>3 DEF Kids
<1>4. ASSUME NEW c \in Clients, Kid(c) PROVE Kids' \subseteq Kids /\ (byProcess => Kids' = Kids)
  <2>1. kid' = kid \/ (/\ kid[c] \in {"recv", "reply"}
                       /\ \E to \in {"recv", "reply", "done"} : kid' = [kid EXCEPT ![c] = to])
    BY <1>4, Zenon DEF Kid, KidReads, KidReplies, KidIsKilled, KidEnds
  <2> QED BY <1>1, <1>3, <2>1 DEF Kids
<1>5. CASE SpawnAcceptFails \/ ForkFails \/ Accept \/ Close \/ CreateFails \/ UNCHANGED spawnOwn
  BY <1>3, <1>5 DEF SpawnAcceptFails, ForkFails, Accept, Close, CreateFails, spawnOwn
<1> QED BY <1>2, <1>4, <1>5 DEF SpawnNext, Main

\* So there are never too many.
LEMMA KidsKeepFit == ASSUME SpawnIInv, KidsFit, SpawnNext PROVE KidsFit'
<1>1. MaxKids \in Nat
  BY SpawnAssumption
<1>2. CASE Kids' \subseteq Kids
  <2>1. Cardinality(Kids') <= Cardinality(Kids) /\ Cardinality(Kids') \in Nat
    BY <1>2, KidsAreFinite, FS_Subset, FS_CardinalityType
  <2> QED BY SMT, <1>1, <2>1, KidsAreFinite DEF KidsFit
<1>3. ASSUME NEW c \in Clients, Kids' = Kids \union {c}, Cardinality(Kids) < MaxKids
        PROVE KidsFit'
  <2>1. Cardinality(Kids') = IF c \in Kids THEN Cardinality(Kids) ELSE Cardinality(Kids) + 1
    BY <1>3, KidsAreFinite, FS_AddElement
  <2> QED BY SMT, <1>1, <1>3, <2>1, KidsAreFinite DEF KidsFit
<1> QED BY <1>2, <1>3, KidsChange

\* Every step counts.
LEMMA SpawnCounts == ASSUME SpawnIInv, SpawnNext PROVE Counts
<1>1. CASE Main
  BY <1>1, Zenon DEF Main, Accept, SpawnAcceptFails, Fork, ForkFails, Close, Create,
       CreateFails, net, Counts
<1>2. ASSUME NEW c \in Clients, Kid(c) PROVE Counts
  BY <1>2, Zenon DEF Kid, KidReads, KidReplies, KidIsKilled, KidEnds, Counts
<1> QED BY <1>1, <1>2, ClientsCount DEF SpawnNext

\* The reason for an end does not go away.
LEMMA ReasonStays == ASSUME SpawnIInv, SpawnEnds, SpawnNext, ended PROVE SpawnEnds'
<1>1. /\ byProcess' = byProcess /\ faults \in Nat
      /\ peer \in [Clients -> {"idle", "open", "closed", "reset", "dead"}]
  BY DEF SpawnNext, Main, Kid, spawnOwn, SpawnIInv, NetInv, NetTypes
<1>2. ~ Main
  BY DEF Main, Accept, SpawnAcceptFails, Fork, ForkFails, Close, Create, CreateFails
<1>3. CASE faults > 0
  <2>1. faults' = faults \/ faults' = faults + 1
    BY SpawnCounts, Zenon DEF Counts, Send, Fails
  <2> QED BY SMT, <1>1, <1>3, <2>1 DEF SpawnEnds
<1>4. CASE byProcess /\ Cardinality(Kids) = MaxKids
  BY <1>1, <1>4, KidsChange DEF SpawnEnds
<1>5. CASE ~ byProcess
  <2>1. ~ \E c \in Clients : Kid(c)
    BY <1>5 DEF Kid, KidReads, KidReplies, KidIsKilled, KidEnds, Alive
  <2>2. ClientStep /\ UNCHANGED <<byProcess, mpc, connfd, kid, held>>
    BY <1>2, <2>1 DEF SpawnNext, spawnOwn
  <2>3. PICK c \in Clients : Connect(c) \/ Send(c) \/ Leave(c)
    BY <2>2 DEF ClientStep
  <2>4. UNCHANGED <<srv, faults>>
    BY Zenon, <2>3 DEF Connect, Send, Leave
  <2>5. \A d \in Clients : peer[d] \in {"reset", "dead"} => peer'[d] = peer[d]
    <3>1. CASE Connect(c)
      BY <1>1, <3>1 DEF Connect
    <3>2. CASE Send(c)
      BY <3>2 DEF Send
    <3>3. CASE Leave(c)
      BY <1>1, <3>3 DEF Leave, Active
    <3> QED BY <2>3, <3>1, <3>2, <3>3
  <2>6. \A d \in Clients : Orphan(d) => Orphan(d)'
    BY <2>2, <2>4 DEF Orphan
  <2> QED BY <1>5, <2>2, <2>4, <2>5, <2>6 DEF SpawnEnds
<1> QED BY <1>3, <1>4, <1>5 DEF SpawnEnds

\* A step that ends the process has one.
LEMMA EndHasReason == ASSUME SpawnIInv, SpawnRest, SpawnNext, ~ ended, ended' PROVE SpawnEnds'
<1>1. /\ byProcess' = byProcess /\ faults \in Nat
      /\ MaxKids \in Nat /\ Cardinality(Kids) \in Nat /\ Cardinality(Kids) <= MaxKids
  BY SpawnAssumption, KidsAreFinite
     DEF SpawnNext, Main, Kid, spawnOwn, SpawnIInv, NetInv, NetTypes, SpawnRest, KidsFit
<1>2. CASE Fails
  <2>1. faults' > 0
    BY SMT, <1>1, <1>2 DEF Fails
  <2> QED BY <2>1 DEF SpawnEnds
<1>3. CASE SpawnAcceptFails
  BY <1>2, <1>3 DEF SpawnAcceptFails
<1>4. CASE ForkFails /\ ~ Fails
  <2>1. Cardinality(Kids) >= MaxKids /\ byProcess /\ kid' = kid
    BY <1>4 DEF ForkFails, spawnOwn
  <2>2. Kids' = Kids
    BY <1>1, <2>1 DEF Kids
  <2>3. Cardinality(Kids) = MaxKids
    BY SMT, <1>1, <2>1
  <2> QED BY <1>1, <2>1, <2>2, <2>3 DEF SpawnEnds
<1>5. CASE CreateFails
  <2>1. PICK c \in Clients : "main" \in held[c] /\ kid[c] = "none" /\ ~ byProcess
    BY <1>5 DEF CreateFails, SpawnIInv, MainInv
  <2>2. srv[c] = "open" /\ c # NoClient
    BY <2>1, ClientsAreNumbered DEF SpawnIInv, HeldInv
  <2>3. UNCHANGED <<srv, kid>> /\ connfd' = NoClient
    BY <1>5 DEF CreateFails
  <2>4. Orphan(c)'
    BY <2>1, <2>2, <2>3 DEF Orphan
  <2> QED BY <1>1, <2>1, <2>4 DEF SpawnEnds
<1>6. ASSUME NEW c \in Clients, Kid(c) PROVE SpawnEnds'
  <2>1. KidIsKilled(c) /\ ~ byProcess /\ BrokenPipe(c) /\ UNCHANGED peer
    BY <1>6 DEF Kid, KidReads, KidReplies, KidIsKilled, KidEnds
  <2> QED BY <1>1, <2>1 DEF BrokenPipe, SpawnEnds
<1>7. CASE Accept \/ Fork \/ Close \/ Create \/ ClientStep
  BY <1>7, ClientsCount, Zenon DEF Accept, Fork, Close, Create, net
<1> QED BY <1>2, <1>3, <1>4, <1>5, <1>6, <1>7 DEF SpawnNext, Main

\* Bounds, limits and reasons hold from the start, and are kept.
LEMMA SpawnRestKept == ASSUME SpawnIInv, SpawnRest, [SpawnNext]_spawnVars PROVE SpawnRest'
<1>1. CASE SpawnNext
  <2>1. Bounds' /\ KidsFit'
    BY <1>1, SpawnCounts, BoundsKept, KidsKeepFit DEF SpawnIInv, SpawnRest
  <2>2. SpawnEnds'
    <3>1. CASE ended'
      BY <1>1, <3>1, ReasonStays, EndHasReason DEF SpawnRest
    <3>2. CASE ~ ended'
      BY <3>2 DEF SpawnEnds
    <3> QED BY <3>1, <3>2
  <2> QED BY <2>1, <2>2 DEF SpawnRest
<1>2. CASE UNCHANGED spawnVars
  <2>1. UNCHANGED <<peer, srv, sent, got, faults, ended, byProcess, connfd, kid>>
    BY <1>2 DEF spawnVars, net, spawnOwn
  <2>2. Kids' = Kids /\ \A c \in Clients : Orphan(c)' <=> Orphan(c)
    BY Zenon, <2>1 DEF Kids, Orphan
  <2> QED BY <2>1, <2>2 DEF SpawnRest, Bounds, KidsFit, SpawnEnds
<1> QED BY <1>1, <1>2

\* With them every variable has its type.
LEMMA SpawnTypes == SpawnIInv /\ SpawnRest => SpawnTypeOK
BY BoundsAreTypes DEF SpawnIInv, SpawnOwnTypes, SpawnRest, SpawnTypeOK

\* They hold at the start.
LEMMA SpawnRestStarts == ASSUME SpawnInit PROVE SpawnRest
<1>1. Kids = {}
  BY DEF SpawnInit, Kids
<1>2. KidsFit
  BY SMT, <1>1, FS_EmptySet, SpawnAssumption DEF KidsFit
<1> QED BY <1>2, InitialBounds DEF SpawnInit, NetInit, SpawnRest, SpawnEnds

\* The processes and threads stay within the limit, however connections and
\* agents come and go.
THEOREM KidsStayFit == SpawnSpec => []KidsFit
<1>1. SpawnInit => SpawnIInv /\ SpawnRest
  BY SpawnStarts, SpawnRestStarts
<1>2. SpawnIInv /\ SpawnRest /\ [SpawnNext]_spawnVars => (SpawnIInv /\ SpawnRest)'
  BY SpawnStepKeeps, SpawnRestKept
<1>3. SpawnRest => KidsFit
  BY DEF SpawnRest
<1> QED BY <1>1, <1>2, <1>3, PTL DEF SpawnSpec

-----------------------------------------------------------------------------
(* Why the servers with agents go on. *)

\* The guards of the main loop's next step and of an agent's.
MainGoes == (mpc = "accept" /\ backlog # << >>) \/ mpc \in {"spawn", "close"}

KidGoes(c) == \/ kid[c] = "recv" /\ Readable(c)
              \/ kid[c] = "reply" /\ peer[c] # "idle"

\* Once the agent is there the parent keeps its descriptor only until it closes it,
\* and a thread closes the only one at its end; so nobody holds a connection whose
\* agent is through but a parent about to close it.
HolderInv ==
    /\ \A c \in Clients :
          /\ "main" \in held[c] /\ kid[c] # "none" =>
                IF byProcess THEN mpc = "close" /\ connfd = c ELSE kid[c] # "done"
          /\ "child" \in held[c] => byProcess /\ kid[c] \in {"recv", "reply"}
    /\ ended => mpc # "close"

\* The main loop's steps.
LEMMA MainKeepsHolder ==
    ASSUME SpawnIInv, HolderInv, UNCHANGED byProcess, Main PROVE HolderInv'
<1>1. CASE Accept
  <2>1. /\ mpc = "accept" /\ mpc' = "spawn" /\ ~ ended /\ ended' = ended /\ kid' = kid
        /\ held' = [held EXCEPT ![Accepted] = {"main"}] /\ backlog # << >>
    BY <1>1 DEF Accept, Accepts
  <2>2. Accepted \in Clients /\ kid[Accepted] = "none"
    BY <2>1, HeadIsNew DEF SpawnIInv, HeldInv
  <2>3. \A d \in Clients : held'[d] = IF d = Accepted THEN {"main"} ELSE held[d]
    BY <2>1, <2>2 DEF SpawnIInv, SpawnOwnTypes
  <2> QED BY <2>1, <2>2, <2>3 DEF HolderInv
<1>2. CASE SpawnAcceptFails \/ ForkFails \/ CreateFails
  <2>1. /\ UNCHANGED <<kid, held>> /\ mpc # "close" /\ mpc' # "close" /\ (mpc' = mpc \/ ~ byProcess)
    BY <1>2 DEF SpawnAcceptFails, ForkFails, CreateFails, spawnOwn
  <2> QED BY <2>1 DEF HolderInv
<1>3. CASE Fork \/ Create
  <2>1. /\ mpc = "spawn" /\ ~ ended /\ ended' = ended /\ kid' = [kid EXCEPT ![connfd] = "recv"]
        /\ \/ byProcess /\ mpc' = "close" /\ connfd' = connfd
              /\ held' = [held EXCEPT ![connfd] = {"main", "child"}]
           \/ ~ byProcess /\ mpc' = "accept" /\ held' = held
    BY <1>3 DEF Fork, Create, net
  <2>2. connfd \in Clients
    BY <2>1 DEF SpawnIInv, MainInv
  <2>3. \A d \in Clients : kid'[d] = IF d = connfd THEN "recv" ELSE kid[d]
    BY <2>1 DEF SpawnIInv, SpawnOwnTypes
  <2>4. \A d \in Clients : held'[d] = held[d] \/ (d = connfd /\ byProcess)
    BY <2>1 DEF SpawnIInv, SpawnOwnTypes
  <2> QED BY <2>1, <2>2, <2>3, <2>4 DEF HolderInv
<1>4. CASE Close
  <2>1. /\ mpc = "close" /\ mpc' = "accept" /\ UNCHANGED <<kid, ended>> /\ Drops("main", connfd)
    BY <1>4 DEF Close
  <2>2. connfd \in Clients /\ byProcess
    BY <2>1 DEF SpawnIInv, MainInv
  <2>3. \A d \in Clients : held'[d] = IF d = connfd THEN held[d] \ {"main"} ELSE held[d]
    BY <2>1, <2>2 DEF Drops, SpawnIInv, SpawnOwnTypes
  <2> QED BY <2>1, <2>2, <2>3 DEF HolderInv
<1> QED BY <1>1, <1>2, <1>3, <1>4 DEF Main

\* An agent's steps.
LEMMA KidKeepsHolder ==
    ASSUME SpawnIInv, HolderInv, UNCHANGED byProcess, NEW c \in Clients, Kid(c) PROVE HolderInv'
<1>1. CASE KidReads(c) \/ KidReplies(c)
  <2>1. /\ UNCHANGED <<held, mpc, connfd, ended>> /\ kid[c] \in {"recv", "reply"}
        /\ \E to \in {"recv", "reply"} : kid' = [kid EXCEPT ![c] = to]
    BY <1>1 DEF KidReads, KidReplies
  <2>2. kid'[c] \in {"recv", "reply"} /\ \A d \in Clients : d # c => kid'[d] = kid[d]
    BY <2>1 DEF SpawnIInv, SpawnOwnTypes
  <2> QED BY <2>1, <2>2 DEF HolderInv
<1>2. CASE KidEnds(c) \/ KidIsKilled(c)
  <2>1. CASE AgentGone(c)
    <3>1. /\ UNCHANGED <<mpc, connfd, ended>> /\ kid[c] \in {"recv", "reply"}
          /\ held' = [held EXCEPT ![c] = held[c] \ {Mine}]
          /\ kid' = [kid EXCEPT ![c] = "done"]
      BY <2>1 DEF AgentGone, Drops
    <3>2. \A d \in Clients : /\ held'[d] = IF d = c THEN held[d] \ {Mine} ELSE held[d]
                             /\ kid'[d] = IF d = c THEN "done" ELSE kid[d]
      BY <3>1 DEF SpawnIInv, SpawnOwnTypes
    <3>3. Mine = IF byProcess THEN "child" ELSE "main"
      BY DEF Mine
    <3> QED BY <3>1, <3>2, <3>3 DEF HolderInv
  <2>2. CASE ~ ended /\ ended' = TRUE /\ UNCHANGED <<srv, mpc, connfd, kid, held>>
    <3>1. ~ byProcess
      BY <1>2, <2>2 DEF KidEnds, KidIsKilled
    <3> QED BY <2>2, <3>1 DEF HolderInv, SpawnIInv, MainInv
  <2> QED BY <1>2, <2>1, <2>2, AgentEnds
<1> QED BY <1>1, <1>2 DEF Kid

\* A descriptor is given up in time.
LEMMA HolderKept == ASSUME SpawnIInv, HolderInv, [SpawnNext]_spawnVars PROVE HolderInv'
<1>1. CASE Main
  BY <1>1, MainKeepsHolder DEF Main
<1>2. CASE \E c \in Clients : Kid(c)
  BY <1>2, KidKeepsHolder DEF Kid
<1>3. CASE ClientStep /\ UNCHANGED spawnOwn
  <2>1. UNCHANGED <<byProcess, mpc, connfd, kid, held, ended>>
    BY <1>3, Zenon DEF ClientStep, Connect, Send, Leave, spawnOwn
  <2> QED BY <2>1 DEF HolderInv
<1>4. CASE UNCHANGED spawnVars
  <2>1. UNCHANGED <<byProcess, mpc, connfd, kid, held, ended>>
    BY <1>4 DEF spawnVars, spawnOwn, net
  <2> QED BY <2>1 DEF HolderInv
<1> QED BY <1>1, <1>2, <1>3, <1>4 DEF SpawnNext

\* No call fails on a connection that waits at the door.
LEMMA SpawnKeepsDoor == ASSUME SpawnIInv, DoorInv, [SpawnNext]_spawnVars PROVE DoorInv'
<1>1. CASE Accept
  BY <1>1, AcceptKeepsDoor DEF Accept, SpawnIInv
<1>2. CASE Close
  <2>1. mpc = "close" /\ Drops("main", connfd) /\ UNCHANGED <<peer, backlog>>
    BY <1>2 DEF Close
  <2>2. \A d \in Clients : srv'[d] = "none" <=> srv[d] = "none"
    BY <2>1, DropsKeeps DEF SpawnIInv, MainInv
  <2> QED BY <2>1, <2>2, CallKeepsDoor
<1>3. CASE SpawnAcceptFails \/ ForkFails \/ CreateFails \/ Fork \/ Create \/ UNCHANGED spawnVars
  <2>1. UNCHANGED <<peer, backlog, srv>>
    BY <1>3, Zenon DEF SpawnAcceptFails, ForkFails, CreateFails, Fork, Create, spawnVars, net
  <2> QED BY <2>1 DEF DoorInv
<1>4. ASSUME NEW c \in Clients, Kid(c) PROVE DoorInv'
  <2>1. kid[c] \in {"recv", "reply"} /\ srv[c] = "open"
    BY <1>4, AgentHolds DEF Kid, KidReads, KidReplies, KidIsKilled, KidEnds
  <2>2. /\ backlog' = backlog
        /\ UNCHANGED peer \/ Takes(c) \/ Refuses(c) \/ ErrorTaken(c)
        /\ UNCHANGED srv \/ Drops(Mine, c)
    BY <1>4, Zenon DEF Kid, KidReads, KidReplies, KidIsKilled, KidEnds
  <2>3. \A d \in Clients : srv'[d] = "none" <=> srv[d] = "none"
    BY <2>1, <2>2, AgentHolds, DropsKeeps
  <2>4. \A d \in Clients : d # c => peer'[d] = peer[d]
    BY <2>2 DEF Takes, Refuses, ErrorTaken, SpawnIInv, NetInv, NetTypes
  <2> QED BY <2>1, <2>2, <2>3, <2>4, CallKeepsDoor
<1>5. CASE ClientStep
  BY <1>5, ClientsKeepDoor DEF SpawnIInv
<1> QED BY <1>1, <1>2, <1>3, <1>4, <1>5 DEF SpawnNext, Main

\* An agent is blocked only in recv, by a client that has sent nothing and is still
\* there; a connection whose agent is through waits for its parent's close.
LEMMA AgentGoesOn ==
    ASSUME SpawnIInv, HolderInv, NEW c \in Clients, srv[c] = "open", kid[c] # "none",
           Readable(c) \/ SpawnOwed(c)
    PROVE  KidGoes(c) \/ (mpc = "close" /\ connfd = c /\ ~ ended)
<1>1. CASE kid[c] = "done"
  <2>1. held[c] # {} /\ held[c] \subseteq {"main", "child"}
    BY DEF SpawnIInv, HeldInv, SpawnOwnTypes
  <2>2. "main" \in held[c]
    BY <1>1, <2>1 DEF HolderInv
  <2> QED BY <1>1, <2>2 DEF HolderInv
<1>2. CASE kid[c] = "reply"
  BY <1>2 DEF KidGoes, SpawnIInv, NetInv, QueueInv
<1>3. CASE kid[c] = "recv"
  BY <1>3 DEF KidGoes, SpawnOwed
<1> QED BY <1>1, <1>2, <1>3 DEF SpawnIInv, SpawnOwnTypes

-----------------------------------------------------------------------------
(* The five servers. *)

\* The program is one of the five; its invariant holds, and the variables of
\* the others have the types and the count they started with.
EchoIInv == /\ server \in {"select", "poll", "epoll", "process", "thread"}
            /\ byProcess = (server = "process")
            /\ TypeOK /\ CountMatches
            /\ server = "select" => SelectIInv /\ SelectRest
            /\ server = "poll" => PollIInv /\ PollRest
            /\ server = "epoll" => EpollIInv /\ EpollRest
            /\ server \in {"process", "thread"} => SpawnIInv /\ SpawnRest

\* Every program may be the one that runs.
LEMMA EchoStarts == ASSUME Init PROVE EchoIInv
<1>1. /\ SelectIInv /\ SelectRest /\ PollIInv /\ PollRest
      /\ EpollIInv /\ EpollRest /\ SpawnIInv /\ SpawnRest
  BY SelectStarts, SelectRestStarts, PollStarts, PollRestStarts, EpollStarts, EpollRestStarts,
     SpawnStarts, SpawnRestStarts DEF Init
<1>2. TypeOK /\ CountMatches
  BY <1>1, SelectTypes, PollTypes, EpollTypes, SpawnTypes DEF TypeOK, SelectIInv
<1> QED BY <1>1, <1>2, ProgramsExist DEF Init, EchoIInv

\* A server that does not run keeps its types.
LEMMA IdleKeepTypes ==
    ASSUME TypeOK, NetTypeOK'
    PROVE  /\ UNCHANGED selectOwn => SelectTypeOK'
           /\ UNCHANGED pollOwn => PollTypeOK'
           /\ UNCHANGED epollOwn => EpollTypeOK'
           /\ UNCHANGED spawnOwn => SpawnTypeOK'
<1>1. UNCHANGED selectOwn => SelectTypeOK'
  BY Zenon DEF TypeOK, SelectTypeOK, selectOwn
<1>2. UNCHANGED pollOwn => PollTypeOK'
  BY Zenon DEF TypeOK, PollTypeOK, pollOwn
<1>3. UNCHANGED epollOwn => EpollTypeOK'
  BY Zenon DEF TypeOK, EpollTypeOK, epollOwn
<1>4. UNCHANGED spawnOwn => SpawnTypeOK'
  BY Zenon DEF TypeOK, SpawnTypeOK, spawnOwn
<1> QED BY <1>1, <1>2, <1>3, <1>4

\* A step is one of the server that runs, or none.
LEMMA OneRuns ==
    ASSUME EchoIInv, [Next]_vars
    PROVE  /\ server' = server
           /\ \/ /\ server = "select" /\ [SelectNext]_selectVars
                 /\ UNCHANGED <<pollOwn, epollOwn, spawnOwn>>
              \/ /\ server = "poll" /\ [PollNext]_pollVars
                 /\ UNCHANGED <<selectOwn, epollOwn, spawnOwn>>
              \/ /\ server = "epoll" /\ [EpollNext]_epollVars
                 /\ UNCHANGED <<selectOwn, pollOwn, spawnOwn>>
              \/ /\ server \in {"process", "thread"} /\ [SpawnNext]_spawnVars
                 /\ UNCHANGED <<selectOwn, pollOwn, epollOwn>>
<1>1. CASE Next
  BY <1>1, Zenon DEF Next, SelectRuns, PollRuns, EpollRuns, SpawnRuns
<1>2. CASE UNCHANGED vars
  <2>1. UNCHANGED <<net, server, selectOwn, pollOwn, epollOwn, spawnOwn>>
    BY <1>2 DEF vars
  <2> QED BY <2>1, Zenon DEF EchoIInv, selectVars, pollVars, epollVars, spawnVars
<1> QED BY <1>1, <1>2

\* The server that runs keeps its invariant, and the others their state.
LEMMA EchoStepKeeps == ASSUME EchoIInv, [Next]_vars PROVE EchoIInv'
<1>1. CASE /\ server' = server /\ server = "select" /\ [SelectNext]_selectVars
           /\ UNCHANGED <<pollOwn, epollOwn, spawnOwn>>
  <2>1. SelectIInv' /\ SelectRest'
    BY <1>1, SelectStepKeeps, SelectRestKept DEF EchoIInv
  <2>2. SelectTypeOK'
    BY <2>1, SelectTypes, PTL
  <2>3. CountMatches' /\ NetTypeOK' /\ byProcess' = byProcess
    BY <1>1, <2>1, <2>2 DEF SelectIInv, SelectTypeOK, spawnOwn
  <2> QED BY <1>1, <2>1, <2>2, <2>3, IdleKeepTypes DEF EchoIInv, TypeOK
<1>2. CASE /\ server' = server /\ server = "poll" /\ [PollNext]_pollVars
           /\ UNCHANGED <<selectOwn, epollOwn, spawnOwn>>
  <2>1. PollIInv' /\ PollRest'
    BY <1>2, PollStepKeeps, PollRestKept DEF EchoIInv
  <2>2. PollTypeOK'
    BY <2>1, PollTypes, PTL
  <2>3. CountMatches' /\ NetTypeOK' /\ byProcess' = byProcess
    BY <1>2, <2>1, <2>2 DEF EchoIInv, CountMatches, Occupied, PollTypeOK, selectOwn, spawnOwn
  <2> QED BY <1>2, <2>1, <2>2, <2>3, IdleKeepTypes DEF EchoIInv, TypeOK
<1>3. CASE /\ server' = server /\ server = "epoll" /\ [EpollNext]_epollVars
           /\ UNCHANGED <<selectOwn, pollOwn, spawnOwn>>
  <2>1. EpollIInv' /\ EpollRest'
    BY <1>3, EpollStepKeeps, EpollRestKept DEF EchoIInv
  <2>2. EpollTypeOK'
    BY <2>1, EpollTypes, PTL
  <2>3. CountMatches' /\ NetTypeOK' /\ byProcess' = byProcess
    BY <1>3, <2>1, <2>2 DEF EchoIInv, CountMatches, Occupied, EpollTypeOK, selectOwn, spawnOwn
  <2> QED BY <1>3, <2>1, <2>2, <2>3, IdleKeepTypes DEF EchoIInv, TypeOK
<1>4. CASE /\ server' = server /\ server \in {"process", "thread"} /\ [SpawnNext]_spawnVars
           /\ UNCHANGED <<selectOwn, pollOwn, epollOwn>>
  <2>1. SpawnIInv' /\ SpawnRest'
    BY <1>4, SpawnStepKeeps, SpawnRestKept DEF EchoIInv
  <2>2. SpawnTypeOK'
    BY <2>1, SpawnTypes, PTL
  <2>3. CountMatches' /\ NetTypeOK'
    BY <1>4, <2>1, <2>2 DEF EchoIInv, CountMatches, Occupied, SpawnTypeOK, selectOwn
  <2>4. byProcess' = byProcess
    BY <1>4, Zenon DEF SpawnNext, Main, Kid, spawnVars, spawnOwn
  <2> QED BY <1>4, <2>1, <2>2, <2>3, <2>4, IdleKeepTypes DEF EchoIInv, TypeOK
<1> QED BY <1>1, <1>2, <1>3, <1>4, OneRuns

\* The invariant holds in every reachable state.
THEOREM EchoInductive == Spec => []EchoIInv
BY EchoStarts, EchoStepKeeps, PTL DEF Spec

\* TypeOK: the variables of all the servers have their types, and the clients
\* send no more than they may.
THEOREM TypesCorrect == Spec => []TypeOK
<1>1. EchoIInv => TypeOK
  BY DEF EchoIInv
<1> QED BY <1>1, EchoInductive, PTL

\* SelectTableMatches: the table holds the open connections, each once.
THEOREM SelectTableStaysCorrect == Spec => []SelectTableMatches
<1>1. EchoIInv => SelectTableMatches
  BY DEF EchoIInv, SelectIInv, SelectTableMatches
<1> QED BY <1>1, EchoInductive, PTL

\* EpollTableIsCurrent: the set is the set of open connections, and neither the
\* table nor the batch outlives one.
THEOREM EpollTableStaysCurrent == Spec => []EpollTableIsCurrent
<1>1. EchoIInv => EpollTableIsCurrent
  BY DEF EchoIInv, EpollIInv, EpollTableIsCurrent
<1> QED BY <1>1, EchoInductive, PTL

\* EndsOnlyFor: no order of requests, answers and departures ends a server
\* but for the reasons it lists.
THEOREM EndHasOutsideReason == Spec => []EndsOnlyFor
<1>1. ASSUME EchoIInv PROVE EndsOnlyFor
  <2>1. CASE server = "select"
    BY <1>1, <2>1 DEF EchoIInv, SelectRest, Excused, EndsOnlyFor
  <2>2. CASE server = "poll"
    BY <1>1, <2>2 DEF EchoIInv, PollRest, PollEndsOnlyFor, EndsOnlyFor
  <2>3. CASE server = "epoll"
    BY <1>1, <2>3 DEF EchoIInv, EpollRest, Excused, EndsOnlyFor
  <2>4. CASE server \in {"process", "thread"}
    BY <1>1, <2>4 DEF EchoIInv, SpawnRest, SpawnEnds, EndsOnlyFor
  <2> QED BY <1>1, <2>1, <2>2, <2>3, <2>4 DEF EchoIInv
<1> QED BY <1>1, EchoInductive, PTL

-----------------------------------------------------------------------------
(* Nobody waits for a server that is blocked.                              *)

\* What is left of the inductive invariant: what the calls reported is still true.
WaitInv == /\ DoorInv
           /\ server = "select" => SelectFresh
           /\ server = "poll" => PollFresh
           /\ server = "epoll" => EpollFresh
           /\ server \in {"process", "thread"} => HolderInv

\* The guard of the step of the server's loop, and of the steps that serve c.
LoopGoes == CASE server = "select" -> SelectGoes
              [] server = "poll"   -> PollGoes
              [] server = "epoll"  -> EpollGoes
              [] OTHER             -> MainGoes

WorksFor(c) == IF server \in {"process", "thread"}
               THEN KidGoes(c) \/ (mpc = "close" /\ connfd = c /\ ~ ended)
               ELSE LoopGoes

(* No server is inside a call that waits for somebody else while a client  *)
(* waits for it: as long as a connection is at the door its loop can go    *)
(* on, and as long as a client it attends to has sent a request, has left  *)
(* or is owed an answer, so can what serves this client.                   *)
NobodyIsKeptWaiting ==
    \A c \in Clients :
       /\ peer[c] # "idle" /\ srv[c] = "none" /\ ~ ended => LoopGoes
       /\ ((Attended(c) /\ Readable(c)) \/ Owed(c)) /\ ~ Stopped => WorksFor(c)

\* Nothing has been reported at the start.
LEMMA WaitStarts == ASSUME Init PROVE WaitInv
<1>1. DoorInv
  BY DoorStarts DEF Init, SelectInit
<1>2. SelectFresh /\ EpollFresh
  BY DEF Init, SelectInit, EpollInit, SelectFresh, EpollFresh
<1>3. PollFresh
  <2>1. ppc = "wait" /\ Len(fds) = 0
    BY DEF Init, PollInit
  <2> QED BY <2>1 DEF PollFresh
<1>4. HolderInv
  BY DEF Init, SpawnInit, NetInit, HolderInv
<1> QED BY <1>1, <1>2, <1>3, <1>4 DEF WaitInv

\* The server that runs keeps its part.
LEMMA WaitKept == ASSUME EchoIInv, WaitInv, [Next]_vars PROVE WaitInv'
<1>1. CASE server = "select" /\ server' = server /\ [SelectNext]_selectVars
  BY <1>1, SelectKeepsDoor, SelectStaysFresh DEF EchoIInv, WaitInv
<1>2. CASE server = "poll" /\ server' = server /\ [PollNext]_pollVars
  BY <1>2, PollKeepsDoor, PollStaysFresh DEF EchoIInv, WaitInv
<1>3. CASE server = "epoll" /\ server' = server /\ [EpollNext]_epollVars
  BY <1>3, EpollKeepsDoor, EpollStaysFresh DEF EchoIInv, WaitInv
<1>4. CASE server \in {"process", "thread"} /\ server' = server /\ [SpawnNext]_spawnVars
  BY <1>4, SpawnKeepsDoor, HolderKept DEF EchoIInv, WaitInv
<1> QED BY <1>1, <1>2, <1>3, <1>4, OneRuns

\* At the door: the queue is not empty, and every loop that waits waits for it too.
LEMMA DoorIsHeard ==
    ASSUME EchoIInv, WaitInv, ~ ended, NEW c \in Clients, peer[c] # "idle", srv[c] = "none"
    PROVE  LoopGoes
<1>1. backlog # << >>
  <2>1. PICK a \in 1 .. Len(backlog) : backlog[a] = c
    BY DEF WaitInv, DoorInv
  <2> QED BY <2>1
<1>2. CASE server = "select"
  BY <1>1, <1>2, SelectGoesOn DEF EchoIInv, WaitInv, LoopGoes, SelectGoes
<1>3. CASE server = "poll"
  BY <1>1, <1>3, PollGoesOn DEF EchoIInv, WaitInv, LoopGoes, PollGoes
<1>4. CASE server = "epoll"
  <2>1. EpollReady # {}
    BY <1>1 DEF EpollReady
  <2> QED BY <2>1, <1>4, EpollGoesOn DEF EchoIInv, WaitInv, LoopGoes, EpollGoes
<1>5. CASE server \in {"process", "thread"}
  BY <1>1, <1>5 DEF EchoIInv, SpawnIInv, SpawnOwnTypes, LoopGoes, MainGoes
<1> QED BY <1>2, <1>3, <1>4, <1>5 DEF EchoIInv

\* A request, a departure and an answer that is due.
LEMMA ClientIsHeard ==
    ASSUME EchoIInv, WaitInv, ~ Stopped, NEW c \in Clients,
           (Attended(c) /\ Readable(c)) \/ Owed(c)
    PROVE  WorksFor(c)
<1>1. CASE server = "select"
  <2>1. spc = "wait" => c \in Watched /\ Readable(c)
    BY <1>1 DEF Owed, SelectOwed, Attended, EchoIInv, SelectIInv, TableMatches
  <2> QED BY <1>1, <2>1, SelectGoesOn DEF EchoIInv, WaitInv, WorksFor, LoopGoes, SelectGoes
<1>2. CASE server = "poll"
  <2>1. (srv[c] = "open" /\ got[c] = 0 /\ Readable(c)) \/ PollOwed(c)
    BY <1>2 DEF Owed, Attended
  <2>2. ~ ended
    BY <1>2 DEF Stopped
  <2> QED BY <1>2, <2>1, <2>2, PollGoesOn DEF EchoIInv, WaitInv, WorksFor, LoopGoes
<1>3. CASE server = "epoll"
  <2>1. (srv[c] = "open" /\ Readable(c)) \/ epc = "reply"
    BY <1>3 DEF Owed, Attended, EpollOwed
  <2> QED BY <1>3, <2>1, EpollGoesOn DEF EchoIInv, WaitInv, WorksFor, LoopGoes
<1>4. CASE server \in {"process", "thread"}
  <2>1. Owed(c) = SpawnOwed(c)
    BY <1>4 DEF Owed
  <2>2. srv[c] = "open" /\ kid[c] # "none" /\ (Readable(c) \/ SpawnOwed(c))
    BY <1>4, <2>1, AgentHolds DEF Attended, SpawnOwed, EchoIInv
  <2> QED BY <1>4, <2>2, AgentGoesOn DEF EchoIInv, WaitInv, WorksFor
<1> QED BY <1>1, <1>2, <1>3, <1>4 DEF EchoIInv

\* What EveryoneGetsVerdict, RequestsAreAnswered and LeaversAreReleased need in
\* every state: whoever waits for a server waits for a step that can be taken.
THEOREM NobodyWaitsInVain == Spec => []NobodyIsKeptWaiting
<1>1. EchoIInv /\ WaitInv => NobodyIsKeptWaiting
  BY DoorIsHeard, ClientIsHeard DEF NobodyIsKeptWaiting
<1> QED BY <1>1, WaitStarts, WaitKept, EchoStarts, EchoStepKeeps, PTL DEF Spec

-----------------------------------------------------------------------------
(* Every round of a server ends.                                           *)

\* How much of the round is still to come: entries of a table, or events.
SelectLeft == IF spc \in {"scan", "reply"} THEN SelectSlots - i + 2
              ELSE IF spc = "accept" THEN 1 ELSE 0
PollLeft   == IF ppc = "wait" THEN 0
              ELSE NumClients + (IF ppc = "accept" THEN 3 ELSE 2) - entry
EpollLeft  == IF epc = "wait" THEN 0 ELSE Cardinality(ep) + 1
MainLeft   == IF mpc = "spawn" THEN 2 ELSE IF mpc = "close" THEN 1 ELSE 0

\* How much is to be done for the one at hand.  The poll server reads until there
\* is nothing to read, so it goes on as long as its client sends.
SelectPart == IF spc = "scan" THEN 1 ELSE 0
PollPart   == IF ppc = "read" THEN MaxSends - got[entry] + 1
              ELSE IF ppc = "check" THEN MaxSends + 2 ELSE 0
EpollPart  == IF epc = "reply" THEN 1 ELSE 0

\* Of the server that runs, and the step of its loop.
Left == CASE server = "select" -> SelectLeft
          [] server = "poll"   -> PollLeft
          [] server = "epoll"  -> EpollLeft
          [] OTHER             -> MainLeft
Part == CASE server = "select" -> SelectPart
          [] server = "poll"   -> PollPart
          [] server = "epoll"  -> EpollPart
          [] OTHER             -> 0
LoopStep == CASE server = "select" -> SelectLoop
              [] server = "poll"   -> PollLoop
              [] server = "epoll"  -> EpollLoop
              [] OTHER             -> Main

\* The order in which the rounds descend.
Lower(l, p, m, q) == m < l \/ (m = l /\ q < p)

(* No client keeps a server from coming back to its call of select, poll,  *)
(* epoll_wait or accept: each step of the loop inside a round leaves less  *)
(* to do, entry by entry and then for the entry at hand, or ends the       *)
(* server; and nobody else's step adds to it.                              *)
RoundsEnd == [][IF LoopStep THEN Left = 0 \/ ended' \/ Lower(Left, Part, Left', Part')
                            ELSE UNCHANGED <<Left, Part>>]_vars

\* The scan of the table, then accept.
LEMMA SelectLowers ==
    ASSUME SelectIInv, SelectRest, SelectLoop
    PROVE  SelectLeft = 0 \/ ended' \/ Lower(SelectLeft, SelectPart, SelectLeft', SelectPart')
<1>1. i \in Nat /\ i <= SelectSlots /\ SelectSlots \in Nat
  BY SelectAssumption DEF SelectIInv, SelectOwnTypes, SelectRest
<1>2. CASE SelectWait
  BY <1>2 DEF SelectWait, SelectLeft
<1>3. CASE SelectSkip \/ SelectDrop
  <2>1. spc = "scan" /\ spc' = "scan" /\ i' = i + 1
    BY <1>3 DEF SelectSkip, SelectDrop, InScan
  <2> QED BY <1>1, <2>1 DEF SelectLeft, Lower
<1>4. CASE SelectRead
  <2>1. spc = "scan" /\ spc' = "reply" /\ i' = i
    BY <1>4 DEF SelectRead, InScan
  <2> QED BY <1>1, <2>1 DEF SelectLeft, SelectPart, Lower
<1>5. CASE SelectReply
  <2>1. spc = "reply" /\ (ended' \/ (spc' = "scan" /\ i' = i + 1))
    BY <1>5 DEF SelectReply
  <2> QED BY <1>1, <2>1 DEF SelectLeft, Lower
<1>6. CASE Scanned
  <2>1. spc = "scan" /\ spc' \in {"accept", "wait"}
    BY <1>6 DEF Scanned
  <2> QED BY <1>1, <2>1 DEF SelectLeft, Lower
<1>7. CASE SelectAcceptFails \/ SelectAdmit \/ Refuse
  <2>1. spc = "accept" /\ spc' = "wait"
    BY <1>7 DEF SelectAcceptFails, SelectAdmit, Refuse
  <2> QED BY <2>1 DEF SelectLeft, Lower
<1> QED BY <1>2, <1>3, <1>4, <1>5, <1>6, <1>7 DEF SelectLoop

\* accept, then the entries, and of each the reads.
LEMMA PollLowers ==
    ASSUME PollIInv, PollRest, PollLoop
    PROVE  PollLeft = 0 \/ ended' \/ Lower(PollLeft, PollPart, PollLeft', PollPart')
<1>1. NumClients \in Nat /\ MaxSends \in Nat /\ entry \in Nat
  BY SocketsAssumption DEF PollIInv, PollOwnTypes
<1>2. CASE PollWait
  BY <1>2 DEF PollWait, PollLeft
<1>3. CASE PollAcceptFails \/ PollReadFails \/ WriteFails
  BY <1>3 DEF PollAcceptFails, PollReadFails, WriteFails, Exit
<1>4. CASE PollAdmit
  <2>1. ppc = "accept" /\ ppc' = "check" /\ entry' = entry
    BY <1>4 DEF PollAdmit
  <2> QED BY <1>1, <2>1 DEF PollLeft, Lower
<1>5. CASE PollSkip \/ PollDrop \/ NoWrite \/ Write
  <2>1. ppc \in {"check", "write"} /\ ppc' = "check" /\ entry' = entry + 1
    BY <1>5 DEF PollSkip, PollDrop, NoWrite, Write, InCheck
  <2> QED BY <1>1, <2>1 DEF PollLeft, Lower
<1>6. CASE Checked
  <2>1. ppc = "check" /\ ppc' = "wait"
    BY <1>6 DEF Checked
  <2>2. entry <= NumClients + 1
    BY <1>1, <2>1, EntriesAreClients DEF PollIInv, OrderInv, RoundInv
  <2> QED BY <1>1, <2>1, <2>2 DEF PollLeft, Lower
<1>7. CASE Check \/ PollRead \/ ReadBlocks \/ ReadEnds
  <2>1. entry' = entry
    BY <1>7 DEF Check, PollRead, ReadBlocks, ReadEnds, pollOwn
  <2>2. entry \in Clients /\ got[entry] \in Nat /\ sent[entry] \in Nat
    <3>1. entry \in 1 .. Len(fds)
      BY <1>7, EntriesAreClients DEF Check, PollRead, ReadBlocks, ReadEnds, InCheck, PollIInv,
         RoundInv
    <3>2. entry \in Clients
      BY <3>1, EntriesAreClients
    <3> QED BY <3>2 DEF PollIInv, NetInv, NetTypes
  <2>3. CASE Check
    <3>1. ppc = "check" /\ ppc' \in {"read", "write"} /\ got' = got
      BY <2>3 DEF Check, InCheck, net
    <3> QED BY <1>1, <2>1, <2>2, <3>1 DEF PollLeft, PollPart, Lower
  <2>4. CASE PollRead
    <3>1. ppc = "read" /\ ppc' = "read" /\ fds[entry].fd = entry /\ Receives(entry)
      BY <2>4 DEF PollRead, pollOwn, PollIInv, RoundInv
    <3>2. PICK n \in got[entry] + 1 .. sent[entry] : got' = [got EXCEPT ![entry] = n]
      BY <3>1 DEF Receives
    <3>3. got'[entry] = n /\ n \in Nat /\ n > got[entry]
      BY <2>2, <3>2 DEF PollIInv, NetInv, NetTypes
    <3> QED BY <1>1, <2>1, <2>2, <3>1, <3>3 DEF PollLeft, PollPart, Lower
  <2>5. CASE ReadBlocks \/ ReadEnds
    <3>1. ppc = "read" /\ ppc' = "write"
      BY <2>5 DEF ReadBlocks, ReadEnds
    <3>2. got[entry] <= MaxSends
      BY <1>1, <2>2 DEF PollRest, Bounds
    <3> QED BY <1>1, <2>1, <2>2, <3>1, <3>2 DEF PollLeft, PollPart, Lower
  <2> QED BY <1>7, <2>3, <2>4, <2>5
<1> QED BY <1>2, <1>3, <1>4, <1>5, <1>6, <1>7 DEF PollLoop

\* A batch is finite.
LEMMA BatchIsFinite == ASSUME EpollIInv PROVE IsFiniteSet(ep) /\ Cardinality(ep) \in Nat
<1>1. IsFiniteSet(0 .. NumClients)
  BY FS_Interval, SocketsAssumption
<1>2. ep \subseteq 0 .. NumClients
  BY SocketsAssumption DEF EpollIInv, EpollOwnTypes, Clients, NoClient
<1>3. IsFiniteSet(ep)
  BY <1>1, <1>2, FS_Subset
<1> QED BY <1>3, FS_CardinalityType

\* The events of the batch, and the answer to each.
LEMMA EpollLowers ==
    ASSUME EpollIInv, EpollLoop
    PROVE  EpollLeft = 0 \/ ended' \/ Lower(EpollLeft, EpollPart, EpollLeft', EpollPart')
<1>1. IsFiniteSet(ep) /\ Cardinality(ep) \in Nat
  BY BatchIsFinite
<1>2. CASE EpollWait
  BY <1>2 DEF EpollWait, EpollLeft
<1>3. ASSUME NEW c \in ep, ep' = ep \ {c}, epc = "batch", epc' \in {"batch", "reply"}
      PROVE  Lower(EpollLeft, EpollPart, EpollLeft', EpollPart')
  <2>1. Cardinality(ep') = Cardinality(ep) - 1
    BY <1>1, <1>3, FS_RemoveElement
  <2> QED BY <1>1, <1>3, <2>1 DEF EpollLeft, Lower
<1>4. CASE EpollAdmit \/ EpollAcceptFails
  BY <1>3, <1>4 DEF EpollAdmit, EpollAcceptFails, InBatch
<1>5. CASE EpollRead \/ EpollReadFails \/ EpollDrop
  BY <1>3, <1>5 DEF EpollRead, EpollReadFails, EpollDrop, InBatch
<1>6. CASE EpollReply
  <2>1. epc = "reply" /\ ep' = ep /\ (ended' \/ epc' = "batch")
    BY <1>6 DEF EpollReply
  <2> QED BY <1>1, <2>1 DEF EpollLeft, EpollPart, Lower
<1>7. CASE Handled
  <2>1. epc = "batch" /\ epc' = "wait"
    BY <1>7 DEF Handled
  <2> QED BY <1>1, <2>1 DEF EpollLeft, Lower
<1> QED BY <1>2, <1>4, <1>5, <1>6, <1>7 DEF EpollLoop

\* The main loop of the servers with agents.
LEMMA MainLowers == ASSUME Main PROVE MainLeft = 0 \/ ended' \/ MainLeft' < MainLeft
<1>1. CASE Accept \/ SpawnAcceptFails
  BY <1>1 DEF Accept, SpawnAcceptFails, MainLeft
<1>2. CASE Fork \/ Create \/ CreateFails
  BY <1>2 DEF Fork, Create, CreateFails, MainLeft
<1>3. CASE ForkFails
  BY <1>3 DEF ForkFails
<1>4. CASE Close
  BY <1>4 DEF Close, MainLeft
<1> QED BY <1>1, <1>2, <1>3, <1>4 DEF Main

\* The steps of the clients and of the agents, and the overrun of a table.
LEMMA OthersLeaveRound ==
    ASSUME EchoIInv, [Next]_vars, ~ LoopStep PROVE UNCHANGED <<server, Left, Part>>
<1>1. server' = server
  BY OneRuns
<1>2. CASE server = "select" /\ [SelectNext]_selectVars
  <2>1. UNCHANGED selectOwn
    BY <1>2, Zenon DEF LoopStep, SelectNext, selectVars
  <2> QED BY <1>1, <1>2, <2>1 DEF selectOwn, Left, Part, SelectLeft, SelectPart
<1>3. CASE server = "poll" /\ [PollNext]_pollVars
  <2>1. UNCHANGED <<ppc, entry, got>>
    <3>1. CASE Overrun
      BY <3>1 DEF Overrun, Exit
    <3>2. CASE ClientStep /\ UNCHANGED pollOwn
      BY <3>2, Zenon DEF ClientStep, Connect, Send, Leave, pollOwn
    <3>3. CASE UNCHANGED pollVars
      BY <3>3 DEF pollVars, net, pollOwn
    <3> QED BY <1>3, <3>1, <3>2, <3>3 DEF LoopStep, PollNext
  <2> QED BY <1>1, <1>3, <2>1 DEF Left, Part, PollLeft, PollPart
<1>4. CASE server = "epoll" /\ [EpollNext]_epollVars
  <2>1. UNCHANGED epollOwn
    BY <1>4, Zenon DEF LoopStep, EpollNext, epollVars
  <2> QED BY <1>1, <1>4, <2>1 DEF epollOwn, Left, Part, EpollLeft, EpollPart
<1>5. CASE server \in {"process", "thread"} /\ [SpawnNext]_spawnVars
  <2>1. mpc' = mpc
    <3>1. CASE \E c \in Clients : Kid(c)
      BY <3>1, Zenon DEF Kid, KidReads, KidReplies, KidIsKilled, KidEnds
    <3>2. CASE UNCHANGED spawnOwn
      BY <3>2 DEF spawnOwn
    <3>3. CASE UNCHANGED spawnVars
      BY <3>3 DEF spawnVars, spawnOwn
    <3> QED BY <1>5, <3>1, <3>2, <3>3 DEF LoopStep, SpawnNext
  <2> QED BY <1>1, <1>5, <2>1 DEF Left, Part, MainLeft
<1> QED BY <1>2, <1>3, <1>4, <1>5, OneRuns

\* What is left of a round is a natural number.
LEMMA RoundIsNatural == ASSUME EchoIInv PROVE Left \in Nat /\ Part \in Nat
<1>1. CASE server = "select"
  BY <1>1, SelectAssumption DEF EchoIInv, SelectIInv, SelectOwnTypes, SelectRest, Left, Part,
     SelectLeft, SelectPart
<1>2. CASE server = "poll"
  <2>1. PollIInv /\ Bounds /\ NumClients \in Nat /\ MaxSends \in Nat
    BY <1>2, SocketsAssumption DEF EchoIInv, PollRest
  <2>2. entry \in Nat /\ (ppc # "wait" => entry <= NumClients + 1)
    BY <2>1, EntriesAreClients DEF PollIInv, PollOwnTypes, OrderInv, RoundInv
  <2>3. ppc = "read" => got[entry] \in Nat /\ got[entry] <= MaxSends
    <3>1. ppc = "read" => entry \in Clients
      BY <2>1, EntriesAreClients DEF PollIInv, RoundInv
    <3>2. \A d \in Clients : got[d] \in Nat /\ sent[d] \in Nat
      BY <2>1 DEF PollIInv, NetInv, NetTypes
    <3>3. \A d \in Clients : sent[d] <= MaxSends /\ got[d] <= sent[d]
      BY <2>1 DEF Bounds
    <3> QED BY <2>1, <3>1, <3>2, <3>3
  <2> QED BY <1>2, <2>1, <2>2, <2>3 DEF Left, Part, PollLeft, PollPart
<1>3. CASE server = "epoll"
  BY <1>3, BatchIsFinite DEF EchoIInv, Left, Part, EpollLeft, EpollPart
<1>4. CASE server \in {"process", "thread"}
  BY <1>4 DEF Left, Part, MainLeft
<1> QED BY <1>1, <1>2, <1>3, <1>4 DEF EchoIInv

\* RoundsEnd: what is left of a round is a pair of natural numbers that goes down
\* with every step of the loop until it waits again, and that no client raises.
THEOREM EveryRoundEnds == Spec => [](Left \in Nat /\ Part \in Nat) /\ RoundsEnd
<1>1. ASSUME EchoIInv, [Next]_vars, LoopStep
      PROVE  Left = 0 \/ ended' \/ Lower(Left, Part, Left', Part')
  <2>1. server' = server
    BY <1>1, OneRuns
  <2>2. CASE server = "select"
    BY <1>1, <2>1, <2>2, SelectLowers DEF EchoIInv, LoopStep, Left, Part
  <2>3. CASE server = "poll"
    BY <1>1, <2>1, <2>3, PollLowers DEF EchoIInv, LoopStep, Left, Part
  <2>4. CASE server = "epoll"
    BY <1>1, <2>1, <2>4, EpollLowers DEF EchoIInv, LoopStep, Left, Part
  <2>5. CASE server \in {"process", "thread"}
    BY <1>1, <2>1, <2>5, MainLowers DEF LoopStep, Left, Lower
  <2> QED BY <1>1, <2>2, <2>3, <2>4, <2>5 DEF EchoIInv
<1>2. ASSUME EchoIInv, [Next]_vars
      PROVE  IF LoopStep THEN Left = 0 \/ ended' \/ Lower(Left, Part, Left', Part')
                         ELSE UNCHANGED <<Left, Part>>
  BY <1>1, <1>2, OthersLeaveRound
<1> QED BY <1>2, RoundIsNatural, EchoStarts, EchoStepKeeps, PTL DEF Spec, RoundsEnd

-----------------------------------------------------------------------------
(* The refinement by all five. *)

owed == [c \in Clients |-> Owed(c)]

\* A step that is EchoService's with what the select server owes is so here.
LEMMA EchoSelectStep ==
    ASSUME server = "select", server' = server,
           SelectEcho!Next \/ UNCHANGED <<Here, Phase, selectOwed, ended>>
    PROVE  [Echo!Next]_Echo!vars
<1>1. owed = selectOwed
  BY Zenon DEF owed, Owed, selectOwed
<1>2. owed' = selectOwed'
  BY Zenon DEF owed, Owed, selectOwed
<1>3. CASE SelectEcho!Next
  BY Zenon, <1>1, <1>2, <1>3 DEF owed, selectOwed, Echo!Next, SelectEcho!Next, Echo!Stop,
       SelectEcho!Stop,
     Echo!Arrive, SelectEcho!Arrive, Echo!Leave, SelectEcho!Leave, Echo!Admit, SelectEcho!Admit,
     Echo!Refuse, SelectEcho!Refuse, Echo!Take, SelectEcho!Take, Echo!Answer, SelectEcho!Answer,
     Echo!Release, SelectEcho!Release
<1>4. CASE UNCHANGED <<Here, Phase, selectOwed, ended>>
  <2>1. UNCHANGED <<Here, Phase, owed, ended>>
    BY <1>1, <1>2, <1>4
  <2> QED BY <2>1, Zenon DEF owed, Echo!vars
<1> QED BY <1>3, <1>4

\* A step that is EchoService's with what the poll server owes is so here.
LEMMA EchoPollStep ==
    ASSUME server = "poll", server' = server,
           PollEcho!Next \/ UNCHANGED <<Here, Phase, pollOwed, ended>>
    PROVE  [Echo!Next]_Echo!vars
<1>1. owed = pollOwed
  BY Zenon DEF owed, Owed, pollOwed
<1>2. owed' = pollOwed'
  BY Zenon DEF owed, Owed, pollOwed
<1>3. CASE PollEcho!Next
  BY Zenon, <1>1, <1>2, <1>3 DEF owed, pollOwed, Echo!Next, PollEcho!Next, Echo!Stop,
       PollEcho!Stop,
     Echo!Arrive, PollEcho!Arrive, Echo!Leave, PollEcho!Leave, Echo!Admit, PollEcho!Admit,
     Echo!Refuse, PollEcho!Refuse, Echo!Take, PollEcho!Take, Echo!Answer, PollEcho!Answer,
     Echo!Release, PollEcho!Release
<1>4. CASE UNCHANGED <<Here, Phase, pollOwed, ended>>
  <2>1. UNCHANGED <<Here, Phase, owed, ended>>
    BY <1>1, <1>2, <1>4
  <2> QED BY <2>1, Zenon DEF owed, Echo!vars
<1> QED BY <1>3, <1>4

\* A step that is EchoService's with what the epoll server owes is so here.
LEMMA EchoEpollStep ==
    ASSUME server = "epoll", server' = server,
           EpollEcho!Next \/ UNCHANGED <<Here, Phase, epollOwed, ended>>
    PROVE  [Echo!Next]_Echo!vars
<1>1. owed = epollOwed
  BY Zenon DEF owed, Owed, epollOwed
<1>2. owed' = epollOwed'
  BY Zenon DEF owed, Owed, epollOwed
<1>3. CASE EpollEcho!Next
  BY Zenon, <1>1, <1>2, <1>3 DEF owed, epollOwed, Echo!Next, EpollEcho!Next, Echo!Stop,
       EpollEcho!Stop,
     Echo!Arrive, EpollEcho!Arrive, Echo!Leave, EpollEcho!Leave, Echo!Admit, EpollEcho!Admit,
     Echo!Refuse, EpollEcho!Refuse, Echo!Take, EpollEcho!Take, Echo!Answer, EpollEcho!Answer,
     Echo!Release, EpollEcho!Release
<1>4. CASE UNCHANGED <<Here, Phase, epollOwed, ended>>
  <2>1. UNCHANGED <<Here, Phase, owed, ended>>
    BY <1>1, <1>2, <1>4
  <2> QED BY <2>1, Zenon DEF owed, Echo!vars
<1> QED BY <1>3, <1>4

\* A step that is EchoService's with what the spawn server owes is so here.
LEMMA EchoSpawnStep ==
    ASSUME server \in {"process", "thread"}, server' = server,
           SpawnEcho!Next \/ UNCHANGED <<Here, Phase, spawnOwed, ended>>
    PROVE  [Echo!Next]_Echo!vars
<1>1. owed = spawnOwed
  BY Zenon DEF owed, Owed, spawnOwed
<1>2. owed' = spawnOwed'
  BY Zenon DEF owed, Owed, spawnOwed
<1>3. CASE SpawnEcho!Next
  BY Zenon, <1>1, <1>2, <1>3 DEF owed, spawnOwed, Echo!Next, SpawnEcho!Next, Echo!Stop,
       SpawnEcho!Stop,
     Echo!Arrive, SpawnEcho!Arrive, Echo!Leave, SpawnEcho!Leave, Echo!Admit, SpawnEcho!Admit,
     Echo!Refuse, SpawnEcho!Refuse, Echo!Take, SpawnEcho!Take, Echo!Answer, SpawnEcho!Answer,
     Echo!Release, SpawnEcho!Release
<1>4. CASE UNCHANGED <<Here, Phase, spawnOwed, ended>>
  <2>1. UNCHANGED <<Here, Phase, owed, ended>>
    BY <1>1, <1>2, <1>4
  <2> QED BY <2>1, Zenon DEF owed, Echo!vars
<1> QED BY <1>3, <1>4

\* The five start as EchoService does.
LEMMA EchoStartsEcho == ASSUME Init PROVE Echo!Init
<1>1. SelectEcho!Init /\ PollEcho!Init /\ EpollEcho!Init /\ SpawnEcho!Init
  BY SelectStartsEcho, PollStartsEcho, EpollStartsEcho, SpawnStartsEcho DEF Init
<1>2. \/ owed = selectOwed \/ owed = pollOwed \/ owed = epollOwed \/ owed = spawnOwed
  BY Zenon DEF owed, Owed, selectOwed, pollOwed, epollOwed, spawnOwed
<1> QED BY Zenon, <1>1, <1>2 DEF owed, selectOwed, pollOwed, epollOwed, spawnOwed,
       Echo!Init, SelectEcho!Init, PollEcho!Init, EpollEcho!Init, SpawnEcho!Init

\* ImplementsEchoService: whichever server runs, nobody is answered who did not
\* ask, admitted twice, or given up while still there.
THEOREM AllImplementEcho == Spec => ImplementsEchoService
<1>1. ASSUME EchoIInv, [Next]_vars PROVE [Echo!Next]_Echo!vars
  <2>1. CASE server' = server /\ server = "select" /\ [SelectNext]_selectVars
    BY <1>1, <2>1, SelectStepIsEcho, EchoSelectStep DEF EchoIInv
  <2>2. CASE server' = server /\ server = "poll" /\ [PollNext]_pollVars
    BY <1>1, <2>2, PollStepIsEcho, EchoPollStep DEF EchoIInv
  <2>3. CASE server' = server /\ server = "epoll" /\ [EpollNext]_epollVars
    BY <1>1, <2>3, EpollStepIsEcho, EchoEpollStep DEF EchoIInv
  <2>4. CASE server' = server /\ server \in {"process", "thread"} /\ [SpawnNext]_spawnVars
    BY <1>1, <2>4, SpawnStepIsEcho, EchoSpawnStep DEF EchoIInv
  <2> QED BY <1>1, <2>1, <2>2, <2>3, <2>4, OneRuns
<1> QED BY <1>1, EchoStartsEcho, EchoInductive, PTL DEF Spec, Echo!Spec, ImplementsEchoService
=============================================================================
