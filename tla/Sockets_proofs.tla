----------------------------- MODULE Sockets_proofs -----------------------------
(***************************************************************************)
(* What the proofs about the servers of ch07 share: the state of the       *)
(* connections that every server relies on, and what the clients' steps    *)
(* and the servers' calls are to EchoService, for any number of clients.   *)
(***************************************************************************)
EXTENDS Sockets, TLAPS, SequenceTheorems, WellFoundedInduction, FiniteSetTheorems

\* The types, without the bounds on what is sent.
NetTypes == /\ peer \in [Clients -> {"idle", "open", "closed", "reset", "dead"}]
            /\ backlog \in Seq(Clients)
            /\ srv \in [Clients -> {"none", "open", "refused", "closed"}]
            /\ sent \in [Clients -> Nat] /\ got \in [Clients -> Nat]
            /\ faults \in Nat /\ ended \in BOOLEAN

\* A connection that waits to be accepted is in the queue once, has a client,
\* and was not accepted before; one that was accepted has a client as well.
QueueInv == /\ \A a, b \in 1 .. Len(backlog) : backlog[a] = backlog[b] => a = b
            /\ \A a \in 1 .. Len(backlog) :
                  srv[backlog[a]] = "none" /\ peer[backlog[a]] # "idle"
            /\ \A c \in Clients : peer[c] = "idle" => srv[c] = "none"

NetInv == NetTypes /\ QueueInv

OpenClients == {c \in Clients : srv[c] = "open"}

\* No client is the 0 that stands for an empty entry.
LEMMA ClientsAreNumbered == Clients \subseteq Nat /\ NoClient \notin Clients
BY SocketsAssumption DEF Clients, NoClient

\* A set of indices that is not empty has a least member: the loops that look
\* for the first free entry find one.
LEMMA LeastExists == ASSUME NEW S \in SUBSET Nat, S # {}
                     PROVE  \E k \in S : \A l \in S : k <= l
<1>1. PICK k \in S : \A l \in S : <<l, k>> \notin OpToRel(<, Nat)
  BY WFMin, NatLessThanWellFounded
<1>2. ASSUME NEW l \in S, l < k PROVE FALSE
  <2>1. <<l, k>> \in Nat \X Nat /\ <<l, k>>[1] < <<l, k>>[2]
    BY <1>2
  <2>2. <<l, k>> \in OpToRel(<, Nat)
    BY <2>1, Zenon DEF OpToRel
  <2> QED BY <2>2, <1>1
<1> QED BY SMT, <1>2

\* At the start nobody is there and nothing is queued.
LEMMA InitialNet == NetInit => NetInv
<1> SUFFICES ASSUME NetInit PROVE NetInv
  OBVIOUS
<1>1. Len(backlog) = 0 /\ backlog \in Seq(Clients)
  BY DEF NetInit
<1>2. NetTypes
  BY <1>1, Zenon, 0 \in Nat DEF NetInit, NetTypes
<1>3. QueueInv
  BY <1>1, SMT DEF NetInit, QueueInv
<1> QED BY <1>2, <1>3 DEF NetInv

-----------------------------------------------------------------------------
(* The steps that change the queue. *)

\* Connecting puts a client into the queue that was not there.
LEMMA ConnectQueues == ASSUME NetInv, NEW c \in Clients, Connect(c)
                       PROVE  NetInv'
<1> USE DEF NetInv
<1>1. NetTypes'
  BY SMT DEF NetTypes, Connect
<1>2. /\ Len(backlog') = Len(backlog) + 1 /\ backlog'[Len(backlog) + 1] = c
      /\ \A a \in 1 .. Len(backlog) : backlog'[a] = backlog[a]
      /\ Len(backlog) \in Nat
  BY SMT DEF NetTypes, Connect
<1>3. \A a \in 1 .. Len(backlog) : backlog[a] # c
  BY SMT DEF QueueInv, Connect
<1>4. /\ peer[c] = "idle" /\ srv' = srv /\ peer' = [peer EXCEPT ![c] = "open"]
      /\ peer \in [Clients -> {"idle", "open", "closed", "reset", "dead"}]
  BY DEF Connect, NetTypes
<1>5. \A a \in 1 .. Len(backlog) : backlog[a] \in Clients
  BY SMT DEF NetTypes
<1>6. \A a, b \in 1 .. Len(backlog') : backlog'[a] = backlog'[b] => a = b
  BY SMT, <1>2, <1>3 DEF QueueInv
<1>7. \A a \in 1 .. Len(backlog') : srv'[backlog'[a]] = "none" /\ peer'[backlog'[a]] # "idle"
  <2> SUFFICES ASSUME NEW a \in 1 .. Len(backlog')
               PROVE  srv'[backlog'[a]] = "none" /\ peer'[backlog'[a]] # "idle"
    OBVIOUS
  <2>1. CASE a = Len(backlog) + 1
    BY SMT, <2>1, <1>2, <1>4 DEF QueueInv
  <2>2. CASE a # Len(backlog) + 1
    <3>1. a \in 1 .. Len(backlog)
      BY SMT, <2>2, <1>2
    <3>2. backlog[a] # c /\ backlog[a] \in Clients /\ backlog'[a] = backlog[a]
      BY <3>1, <1>2, <1>3, <1>5
    <3> QED BY SMT, <3>1, <3>2, <1>4 DEF QueueInv
  <2> QED BY <2>1, <2>2
<1>8. \A d \in Clients : peer'[d] = "idle" => srv'[d] = "none"
  BY SMT, <1>4 DEF QueueInv
<1> QED BY <1>1, <1>6, <1>7, <1>8 DEF QueueInv

\* Sending and leaving concern clients that are there.
LEMMA OthersKeepQueue == ASSUME NetInv, NEW c \in Clients, Send(c) \/ Leave(c)
                         PROVE  NetInv'
<1>1. UNCHANGED <<backlog, srv, got, faults, ended>>
  BY Zenon DEF Send, Leave
<1>2. sent' \in [Clients -> Nat]
  <2>1. sent' = sent \/ sent' = [sent EXCEPT ![c] = @ + 1]
    BY Zenon DEF Send, Leave
  <2> QED BY SMT, <2>1 DEF NetInv, NetTypes
<1>3. peer' = peer \/ \E how \in {"closed", "reset"} : peer[c] = "open"
        /\ peer' = [peer EXCEPT ![c] = how]
  BY Zenon DEF Send, Leave, Active
<1>4. peer' \in [Clients -> {"idle", "open", "closed", "reset", "dead"}]
  <2>1. CASE peer' = peer
    BY <2>1 DEF NetInv, NetTypes
  <2>2. ASSUME NEW how \in {"closed", "reset"}, peer' = [peer EXCEPT ![c] = how]
        PROVE  peer' \in [Clients -> {"idle", "open", "closed", "reset", "dead"}]
    BY Zenon, <2>2 DEF NetInv, NetTypes
  <2> QED BY <2>1, <2>2, <1>3
<1>5. \A d \in Clients : peer'[d] # "idle" <=> peer[d] # "idle"
  BY SMT, <1>3 DEF NetInv, NetTypes
<1>6. \A a \in 1 .. Len(backlog) : backlog[a] \in Clients
  BY SMT DEF NetInv, NetTypes
<1> QED BY SMT, <1>1, <1>2, <1>4, <1>5, <1>6 DEF NetInv, NetTypes, QueueInv

\* The connection at the head of the queue is one that was never accepted.
LEMMA HeadIsNew == ASSUME NetInv, backlog # << >>
                   PROVE  /\ Accepted \in Clients
                          /\ srv[Accepted] = "none" /\ peer[Accepted] # "idle"
<1>1. Accepted = backlog[1] /\ 1 \in 1 .. Len(backlog) /\ backlog[1] \in Clients
  BY SMT DEF NetInv, NetTypes, Accepted
<1> QED BY <1>1 DEF NetInv, QueueInv

\* accept takes one connection off the queue and leaves the others new.
LEMMA AcceptKeepsQueue ==
    ASSUME NetInv, NEW state \in {"open", "refused"}, Accepts(state),
           peer' \in [Clients -> {"idle", "open", "closed", "reset", "dead"}],
           \A d \in Clients : peer'[d] = "idle" <=> peer[d] = "idle",
           UNCHANGED <<sent, got, faults, ended>>
    PROVE  NetInv'
<1>1. NetTypes'
  <2>1. backlog' \in Seq(Clients)
    BY SMT DEF NetInv, NetTypes, Accepts
  <2>2. srv' = [srv EXCEPT ![Accepted] = state]
        /\ srv \in [Clients -> {"none", "open", "refused", "closed"}]
    BY DEF NetInv, NetTypes, Accepts
  <2>3. srv' \in [Clients -> {"none", "open", "refused", "closed"}]
    BY Zenon, <2>2
  <2> QED BY <2>1, <2>3 DEF NetInv, NetTypes
<1>2. /\ Len(backlog) \in Nat /\ Len(backlog) >= 1
      /\ Len(backlog') = Len(backlog) - 1
      /\ \A a \in 1 .. Len(backlog') : backlog'[a] = backlog[a + 1]
      /\ Accepted = backlog[1]
      /\ \A a \in 1 .. Len(backlog) : backlog[a] \in Clients
  BY SMT DEF NetInv, NetTypes, Accepts, Accepted
<1>3. Accepted \in Clients /\ peer[Accepted] # "idle"
  BY HeadIsNew DEF Accepts
<1>4. srv' = [srv EXCEPT ![Accepted] = state]
        /\ srv \in [Clients -> {"none", "open", "refused", "closed"}]
  BY DEF Accepts, NetInv, NetTypes
<1>5. \A a, b \in 1 .. Len(backlog') : backlog'[a] = backlog'[b] => a = b
  BY SMT, <1>2 DEF NetInv, QueueInv
<1>6. \A a \in 1 .. Len(backlog') : /\ a + 1 \in 1 .. Len(backlog)
                                    /\ backlog[a + 1] # Accepted
  BY SMT, <1>2 DEF NetInv, QueueInv
<1>7. \A a \in 1 .. Len(backlog') : srv'[backlog'[a]] = "none" /\ peer'[backlog'[a]] # "idle"
  BY SMT, <1>2, <1>4, <1>6 DEF NetInv, QueueInv
<1>8. \A d \in Clients : peer'[d] = "idle" => srv'[d] = "none"
  BY SMT, <1>3, <1>4 DEF NetInv, QueueInv
<1> QED BY <1>1, <1>5, <1>7, <1>8 DEF NetInv, QueueInv

\* A step that leaves the connections alone keeps what is known of them.
LEMMA NetUnchanged == ASSUME NetInv, UNCHANGED net
                      PROVE  NetInv' /\ Here' = Here /\ Phase' = Phase
<1>1. UNCHANGED <<peer, backlog, srv, sent, got, faults, ended>>
  BY DEF net
<1>2. NetTypes' /\ Here' = Here /\ Phase' = Phase
  BY <1>1, Zenon DEF NetInv, NetTypes, Here, Phase
<1>3. QueueInv'
  BY <1>1 DEF NetInv, QueueInv
<1> QED BY <1>2, <1>3 DEF NetInv

\* A call on an accepted connection leaves the queue alone.
LEMMA CallKeepsQueue ==
    ASSUME NetInv, UNCHANGED <<backlog, sent>>, faults' \in Nat,
           got' \in [Clients -> Nat], ended' \in BOOLEAN,
           peer' \in [Clients -> {"idle", "open", "closed", "reset", "dead"}],
           srv' \in [Clients -> {"none", "open", "refused", "closed"}],
           \A d \in Clients : peer'[d] = "idle" <=> peer[d] = "idle",
           \A d \in Clients : srv'[d] = "none" <=> srv[d] = "none"
    PROVE  NetInv'
<1>1. \A a \in 1 .. Len(backlog) : backlog[a] \in Clients
  BY SMT DEF NetInv, NetTypes
<1> QED BY SMT, <1>1 DEF NetInv, NetTypes, QueueInv

\* Answers and errors taken from a socket leave its client where it is.
LEMMA CallsKeepPeer ==
    ASSUME NetInv, NEW c \in Clients, UNCHANGED peer \/ Takes(c) \/ Refuses(c) \/ ErrorTaken(c)
    PROVE  /\ peer' \in [Clients -> {"idle", "open", "closed", "reset", "dead"}]
           /\ \A d \in Clients : peer'[d] = "idle" <=> peer[d] = "idle"
           /\ Here' = Here
<1>1. peer' = peer \/ (peer[c] \in {"closed", "reset"} /\ peer' = [peer EXCEPT ![c] = "dead"])
  <2>1. ASSUME ErrorTaken(c)
        PROVE  peer' = [peer EXCEPT ![c] = IF peer[c] = "reset" THEN "dead" ELSE peer[c]]
    BY <2>1, Zenon DEF ErrorTaken
  <2>2. ASSUME ErrorTaken(c), peer[c] # "reset" PROVE peer' = peer
    BY <2>1, <2>2 DEF NetInv, NetTypes
  <2>3. ASSUME ErrorTaken(c), peer[c] = "reset" PROVE peer' = [peer EXCEPT ![c] = "dead"]
    BY <2>1, <2>3, SMT
  <2> QED BY <2>2, <2>3, Zenon DEF Takes, Refuses
<1>2. peer' \in [Clients -> {"idle", "open", "closed", "reset", "dead"}]
  BY <1>1, Zenon DEF NetInv, NetTypes
<1>3. \A d \in Clients : /\ peer'[d] = "idle" <=> peer[d] = "idle"
                         /\ peer'[d] = "open" <=> peer[d] = "open"
  BY SMT, <1>1 DEF NetInv, NetTypes
<1> QED BY <1>2, <1>3 DEF Here

-----------------------------------------------------------------------------
(* Who waits at the door. *)

\* A connection that was not accepted is in the queue once its client has come,
\* and no call has failed on it.
DoorInv == \A c \in Clients : srv[c] = "none" =>
               /\ peer[c] # "dead"
               /\ peer[c] # "idle" => \E a \in 1 .. Len(backlog) : backlog[a] = c

\* At the start nobody has come.
LEMMA DoorStarts == ASSUME NetInit PROVE DoorInv
BY DEF NetInit, DoorInv

\* A client joins the queue when it connects, and stays in it when it leaves.
LEMMA ClientsKeepDoor == ASSUME NetInv, DoorInv, ClientStep PROVE DoorInv'
<1>1. PICK c \in Clients : Connect(c) \/ Send(c) \/ Leave(c)
  BY DEF ClientStep
<1>2. /\ srv' = srv
      /\ \A d \in Clients : d # c => peer'[d] = peer[d]
      /\ peer'[c] # "dead" \/ peer'[c] = peer[c]
  BY <1>1 DEF Connect, Send, Leave, NetInv, NetTypes
<1>3. backlog \in Seq(Clients) /\ Len(backlog) \in Nat
  BY DEF NetInv, NetTypes
<1>4. CASE Connect(c)
  <2>1. backlog' = Append(backlog, c)
    BY <1>4 DEF Connect
  <2>2. /\ Len(backlog') = Len(backlog) + 1 /\ backlog'[Len(backlog) + 1] = c
        /\ \A a \in 1 .. Len(backlog) : backlog'[a] = backlog[a]
    BY <1>3, <2>1
  <2>3. /\ \E a \in 1 .. Len(backlog') : backlog'[a] = c
        /\ \A a \in 1 .. Len(backlog) : a \in 1 .. Len(backlog')
    BY <1>3, <2>2
  <2> QED BY <1>2, <2>2, <2>3 DEF DoorInv
<1>5. CASE Send(c) \/ Leave(c)
  <2>1. backlog' = backlog /\ (peer[c] = "idle" => peer'[c] = "idle")
    BY <1>5 DEF Send, Leave, Active
  <2> QED BY <1>2, <2>1 DEF DoorInv
<1> QED BY <1>1, <1>4, <1>5

\* accept takes one connection and leaves the others in the queue.
LEMMA AcceptKeepsDoor ==
    ASSUME NetInv, DoorInv, NEW state \in {"open", "refused"}, Accepts(state),
           \A d \in Clients : d # Accepted => peer'[d] = peer[d]
    PROVE  DoorInv'
<1>1. /\ Len(backlog) \in Nat /\ Len(backlog') = Len(backlog) - 1
      /\ \A a \in 1 .. Len(backlog') : backlog'[a] = backlog[a + 1]
      /\ Accepted = backlog[1] /\ Accepted \in Clients
  BY SMT, HeadIsNew DEF NetInv, NetTypes, Accepts, Accepted
<1>2. /\ srv'[Accepted] = state /\ \A d \in Clients : d # Accepted => srv'[d] = srv[d]
  BY <1>1 DEF Accepts, NetInv, NetTypes
<1> SUFFICES ASSUME NEW c \in Clients, srv'[c] = "none"
             PROVE  /\ peer'[c] # "dead"
                    /\ peer'[c] # "idle" => \E a \in 1 .. Len(backlog') : backlog'[a] = c
  BY DEF DoorInv
<1>3. c # Accepted /\ peer'[c] = peer[c] /\ srv[c] = "none"
  BY <1>2
<1>4. CASE peer[c] # "idle"
  <2>1. PICK a \in 1 .. Len(backlog) : backlog[a] = c
    BY <1>3, <1>4 DEF DoorInv
  <2>2. a - 1 \in 1 .. Len(backlog') /\ (a - 1) + 1 = a
    BY <1>1, <1>3, <2>1
  <2>3. backlog'[a - 1] = c
    BY <1>1, <2>1, <2>2
  <2> QED BY <1>3, <2>2, <2>3 DEF DoorInv
<1> QED BY <1>3, <1>4 DEF DoorInv

\* A call on an accepted connection is not one on those in the queue.
LEMMA CallKeepsDoor ==
    ASSUME DoorInv, UNCHANGED backlog,
           \A d \in Clients : srv'[d] = "none" => srv[d] = "none" /\ peer'[d] = peer[d]
    PROVE  DoorInv'
BY DEF DoorInv

\* What can be read stays so, whatever the clients do.
LEMMA ReadableStays == ASSUME NetInv, ClientStep
                       PROVE  \A d \in Clients : Readable(d) => Readable(d)'
<1>1. PICK c \in Clients : Connect(c) \/ Send(c) \/ Leave(c)
  BY DEF ClientStep
<1>2. /\ got' = got
      /\ \A d \in Clients : sent[d] \in Nat /\ got[d] \in Nat /\ sent'[d] \in Nat
                            /\ sent'[d] >= sent[d]
  <2>1. got' = got /\ (sent' = sent \/ sent' = [sent EXCEPT ![c] = sent[c] + 1])
    BY <1>1 DEF Connect, Send, Leave
  <2>2. \A d \in Clients : sent[d] \in Nat /\ got[d] \in Nat
    BY DEF NetInv, NetTypes
  <2>3. \A d \in Clients : sent'[d] = sent[d] \/ sent'[d] = sent[d] + 1
    BY <2>1 DEF NetInv, NetTypes
  <2> QED BY <2>1, <2>2, <2>3
<1>3. \A d \in Clients : Gone(d) => Gone(d)'
  BY <1>1 DEF Connect, Send, Leave, NetInv, NetTypes, Gone, Active
<1> SUFFICES ASSUME NEW d \in Clients, Readable(d) PROVE Readable(d)'
  OBVIOUS
<1>4. Unread(d) => Unread(d)'
  BY <1>2 DEF Unread
<1> QED BY <1>3, <1>4 DEF Readable

\* A client that has gone stays so, whatever is read from or written to it.
LEMMA GoneForGood ==
    ASSUME NetInv, NEW c \in Clients, UNCHANGED peer \/ Takes(c) \/ Refuses(c) \/ ErrorTaken(c)
    PROVE  \A d \in Clients : Gone(d) => Gone(d)'
<1>1. \A d \in Clients : Gone(d) <=> Here[d] = "left"
  BY DEF Gone, Here, NetInv, NetTypes
<1>2. Here' = Here /\ peer' \in [Clients -> {"idle", "open", "closed", "reset", "dead"}]
  BY CallsKeepPeer
<1>3. \A d \in Clients : Here'[d] = "left" => Gone(d)'
  BY <1>2 DEF Gone, Here
<1> QED BY <1>1, <1>2, <1>3

\* A call on one connection leaves the others as readable as they were.
LEMMA OthersReadable ==
    ASSUME NetInv, NEW c \in Clients, sent' = sent,
           UNCHANGED peer \/ Takes(c) \/ Refuses(c) \/ ErrorTaken(c),
           \A d \in Clients : d # c => got'[d] = got[d]
    PROVE  \A d \in Clients : d # c /\ Readable(d) => Readable(d)'
<1>1. \A d \in Clients : Gone(d) => Gone(d)'
  BY GoneForGood
<1> QED BY <1>1 DEF Readable, Unread

-----------------------------------------------------------------------------
(* The bounds. *)

\* No more is read than was sent, and no more sent than allowed.
Bounds == /\ \A c \in Clients : sent[c] <= MaxSends /\ got[c] <= sent[c]
          /\ faults <= MaxFaults

\* What a step of any server or client does to the counters.
Counts == \/ UNCHANGED <<sent, got, faults>>
          \/ \E c \in Clients : Send(c)
          \/ UNCHANGED <<sent, faults>> /\ \E c \in Clients : Receives(c)
          \/ UNCHANGED <<sent, got>> /\ Fails

\* A server ends for a call that failed, or for a peer it was answering.
Excused == ended => faults > 0 \/ \E c \in Clients : peer[c] \in {"reset", "dead"}

\* At the start nothing is counted.
LEMMA InitialBounds == ASSUME NetInit PROVE Bounds /\ Excused
<1>1. /\ sent = [c \in Clients |-> 0] /\ got = [c \in Clients |-> 0]
      /\ faults = 0 /\ ended = FALSE
  BY DEF NetInit
<1>2. \A c \in Clients : sent[c] = 0 /\ got[c] = 0
  BY <1>1
<1> QED BY SMT, <1>1, <1>2, SocketsAssumption DEF Bounds, Excused

\* A client that may send has sent fewer requests than all may together.
LEMMA SendsBounded == ASSUME NetInv, Bounds, NEW c \in Clients, Send(c)
                      PROVE  sent[c] < MaxSends
<1>1. sent[c] \in Nat /\ sent[c] <= MaxSends /\ MaxSends \in Nat /\ NumClients \in Nat
  BY SocketsAssumption DEF NetInv, NetTypes, Bounds
<1>2. IsFiniteSet(1 .. sent[c]) /\ Cardinality(1 .. sent[c]) = sent[c]
  <2>1. 1 \in Int /\ sent[c] \in Int
    BY SMT, <1>1
  <2>2. /\ IsFiniteSet(1 .. sent[c])
        /\ Cardinality(1 .. sent[c]) = IF 1 > sent[c] THEN 0 ELSE sent[c] - 1 + 1
    BY <2>1, FS_Interval
  <2> QED BY SMT, <1>1, <2>2
<1>3. IsFiniteSet({c}) /\ Cardinality({c}) = 1
  BY FS_Singleton
<1>4. Cardinality({c} \X (1 .. sent[c])) = sent[c]
  <2>1. Cardinality({c} \X (1 .. sent[c])) = 1 * sent[c]
    BY <1>2, <1>3, FS_Product
  <2> QED BY SMT, <1>1, <2>1
<1>5. IsFiniteSet(Clients) /\ IsFiniteSet(1 .. MaxSends)
  BY <1>1, FS_Interval, SMT DEF Clients
<1>6. IsFiniteSet(Clients \X (1 .. MaxSends))
  BY <1>5, FS_Product
<1>7. Requests \subseteq Clients \X (1 .. MaxSends)
  BY DEF Requests
<1>8. IsFiniteSet(Requests)
  BY <1>6, <1>7, FS_Subset
<1>9. {c} \X (1 .. sent[c]) \subseteq Requests
  BY SMT, <1>1 DEF Requests
<1>10. sent[c] <= Cardinality(Requests) /\ Cardinality(Requests) \in Nat
  BY <1>4, <1>8, <1>9, FS_Subset, FS_CardinalityType
<1>11. Cardinality(Requests) < MaxSends
  BY DEF Send
<1> QED BY SMT, <1>1, <1>10, <1>11

\* So the bounds are kept ...
LEMMA BoundsKept == ASSUME NetInv, Bounds, Counts PROVE Bounds'
<1>1. sent \in [Clients -> Nat] /\ got \in [Clients -> Nat] /\ faults \in Nat
  BY DEF NetInv, NetTypes
<1>2. CASE UNCHANGED <<sent, got, faults>>
  BY <1>2 DEF Bounds
<1>3. ASSUME NEW c \in Clients, Send(c) PROVE Bounds'
  <2>1. sent' = [sent EXCEPT ![c] = sent[c] + 1] /\ UNCHANGED <<got, faults>>
    BY Zenon, <1>3 DEF Send
  <2>2. sent[c] < MaxSends
    BY <1>3, SendsBounded
  <2> QED BY SMT, <1>1, <2>1, <2>2, SocketsAssumption DEF Bounds
<1>4. ASSUME NEW c \in Clients, Receives(c), UNCHANGED <<sent, faults>> PROVE Bounds'
  <2>1. PICK n \in got[c] + 1 .. sent[c] : got' = [got EXCEPT ![c] = n]
    BY <1>4 DEF Receives
  <2>2. got[c] \in Nat /\ sent[c] \in Nat
    BY <1>1
  <2>3. n <= sent[c]
    BY SMT, <2>2
  <2>4. \A d \in Clients : got'[d] = IF d = c THEN n ELSE got[d]
    BY <1>1, <2>1
  <2> QED BY <1>4, <2>3, <2>4 DEF Bounds
<1>5. CASE UNCHANGED <<sent, got>> /\ Fails
  BY SMT, <1>1, <1>5, SocketsAssumption DEF Fails, Bounds
<1> QED BY <1>2, <1>3, <1>4, <1>5 DEF Counts

\* ... and the state of the connections has its type.
LEMMA BoundsAreTypes == ASSUME NetInv, Bounds PROVE NetTypeOK
<1>1. sent \in [Clients -> Nat] /\ got \in [Clients -> Nat] /\ faults \in Nat
  BY DEF NetInv, NetTypes
<1>2. \A c \in Clients : sent[c] \in 0 .. MaxSends /\ got[c] \in 0 .. MaxSends
  BY SMT, <1>1, SocketsAssumption DEF Bounds
<1>3. sent \in [Clients -> 0 .. MaxSends] /\ got \in [Clients -> 0 .. MaxSends]
  BY <1>1, <1>2
<1>4. faults \in 0 .. MaxFaults
  BY SMT, <1>1, SocketsAssumption DEF Bounds
<1> QED BY Zenon, <1>3, <1>4 DEF NetInv, NetTypes, NetTypeOK

\* What the clients do is counted, and ends no server.
LEMMA ClientsCount == ASSUME ClientStep PROVE Counts /\ UNCHANGED ended
<1>1. PICK c \in Clients : Connect(c) \/ Send(c) \/ Leave(c)
  BY DEF ClientStep
<1> QED BY Zenon, <1>1 DEF Counts, Connect, Send, Leave

-----------------------------------------------------------------------------
(* The steps as EchoService sees them. *)

\* A client that connects arrives.
LEMMA ConnectArrives == ASSUME NetInv, NEW c \in Clients, Connect(c)
                        PROVE  /\ Here[c] = "away" /\ Here' = [Here EXCEPT ![c] = "here"]
                               /\ Phase' = Phase
<1>1. peer[c] = "idle" /\ peer' = [peer EXCEPT ![c] = "open"] /\ srv' = srv
  BY DEF Connect
<1>2. \A d \in Clients : peer'[d] = IF d = c THEN "open" ELSE peer[d]
  BY SMT, <1>1 DEF NetInv, NetTypes
<1>3. \A d \in Clients : Here'[d] = IF d = c THEN "here" ELSE Here[d]
  BY <1>2 DEF Here
<1>4. Here[c] = "away" /\ Here = [d \in Clients |-> Here[d]]
        /\ Here' = [d \in Clients |-> Here'[d]]
  BY <1>1 DEF Here
<1> QED BY Zenon, <1>1, <1>3, <1>4 DEF Phase

\* A client that closes or is reset leaves.
LEMMA LeaveLeaves == ASSUME NetInv, NEW c \in Clients, Leave(c)
                     PROVE  /\ Here[c] = "here" /\ Here' = [Here EXCEPT ![c] = "left"]
                            /\ Phase' = Phase
<1>1. PICK how \in {"closed", "reset"} : peer' = [peer EXCEPT ![c] = how]
  BY DEF Leave
<1>2. \A d \in Clients : peer'[d] = IF d = c THEN how ELSE peer[d]
  BY SMT, <1>1 DEF NetInv, NetTypes
<1>3. \A d \in Clients : Here'[d] = IF d = c THEN "left" ELSE Here[d]
  BY <1>2 DEF Here
<1>4. Here[c] = "here" /\ Here = [d \in Clients |-> Here[d]]
        /\ Here' = [d \in Clients |-> Here'[d]]
  BY DEF Here, Leave, Active
<1>5. srv' = srv
  BY DEF Leave
<1> QED BY Zenon, <1>3, <1>4, <1>5 DEF Phase

\* What is sent is not seen before it is read.
LEMMA SendIsUnseen == ASSUME NEW c \in Clients, Send(c)
                      PROVE  Here' = Here /\ Phase' = Phase
<1>1. peer' = peer /\ srv' = srv
  BY Zenon DEF Send
<1> QED BY Zenon, <1>1 DEF Here, Phase

\* accept admits, or refuses, a client that has arrived.
LEMMA AcceptDecides ==
    ASSUME NetInv, NEW state \in {"open", "refused"}, Accepts(state)
    PROVE  /\ Here[Accepted] # "away" /\ Phase[Accepted] = "new"
           /\ Phase' = [Phase EXCEPT ![Accepted] = IF state = "open" THEN "served" ELSE "refused"]
<1>1. Accepted \in Clients /\ srv[Accepted] = "none" /\ peer[Accepted] # "idle"
  BY HeadIsNew DEF Accepts
<1>2. srv' = [srv EXCEPT ![Accepted] = state]
  BY DEF Accepts
<1>3. \A d \in Clients : srv'[d] = IF d = Accepted THEN state ELSE srv[d]
  BY SMT, <1>1, <1>2 DEF NetInv, NetTypes
<1>4. \A d \in Clients :
        Phase'[d] = IF d = Accepted THEN (IF state = "open" THEN "served" ELSE "refused")
                                                    ELSE Phase[d]
  BY <1>3 DEF Phase
<1>5. Phase = [d \in Clients |-> Phase[d]] /\ Phase' = [d \in Clients |-> Phase'[d]]
  BY Zenon DEF Phase
<1>6. Phase' = [Phase EXCEPT ![Accepted] = IF state = "open" THEN "served" ELSE "refused"]
  BY Zenon, <1>1, <1>4, <1>5
<1> QED BY <1>1, <1>6 DEF Phase, Here

\* close gives an open connection up.
LEMMA CloseReleases ==
    ASSUME NetInv, NEW c \in Clients, srv[c] = "open", Closes(c)
    PROVE  /\ Phase[c] = "served"
           /\ Phase' = [Phase EXCEPT ![c] = "over"]
           /\ srv' \in [Clients -> {"none", "open", "refused", "closed"}]
           /\ \A d \in Clients : srv'[d] = "none" <=> srv[d] = "none"
           /\ {d \in Clients : srv'[d] = "open"} = {d \in Clients : srv[d] = "open"} \ {c}
<1>1. srv' = [srv EXCEPT ![c] = "closed"]
  BY DEF Closes
<1>2. \A d \in Clients : srv'[d] = IF d = c THEN "closed" ELSE srv[d]
  BY SMT, <1>1 DEF NetInv, NetTypes
<1>3. \A d \in Clients : Phase'[d] = IF d = c THEN "over" ELSE Phase[d]
  BY <1>2 DEF Phase
<1>4. Phase = [d \in Clients |-> Phase[d]] /\ Phase' = [d \in Clients |-> Phase'[d]]
  BY Zenon DEF Phase
<1>5. Phase' = [Phase EXCEPT ![c] = "over"]
  BY Zenon, <1>3, <1>4
<1>6. srv' \in [Clients -> {"none", "open", "refused", "closed"}]
  BY Zenon, <1>1 DEF NetInv, NetTypes
<1>7. \A d \in Clients : srv'[d] = "none" <=> srv[d] = "none"
  BY <1>2
<1>8. {d \in Clients : srv'[d] = "open"} = {d \in Clients : srv[d] = "open"} \ {c}
  BY <1>2
<1> QED BY <1>5, <1>6, <1>7, <1>8 DEF Phase
=============================================================================
