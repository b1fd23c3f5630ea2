------------------------------ MODULE EpollServer ------------------------------
(***************************************************************************)
(* The epoll server of ch07/7.5 (7.7/srv/main.cpp): one thread that takes  *)
(* a batch of events from epoll_wait and works it off.  Which sockets are  *)
(* watched is the kernel's set; client[] only records them, and overflows  *)
(* without any effect on the set.                                          *)
(***************************************************************************)
EXTENDS Sockets

CONSTANTS EpollSlots,   \* the size of client[]
          MaxEvents     \* the size of ep[]; OPEN_MAX both in the code

ASSUME EpollAssumption == EpollSlots \in Nat \ {0}

VARIABLES epc,          \* "wait" in epoll_wait, "batch" or "reply"
          ep,           \* the events of the batch still to be handled;
                        \* NoClient stands for listenfd
          postponed,    \* ready, and left out of the last batch
          sockfd,       \* the client being served
          interest,     \* the sockets in the epoll set
          client,       \* the table; NoClient is the -1 of the code
          maxi          \* one more than the code's maxi

epollOwn  == <<epc, ep, postponed, sockfd, interest, client, maxi>>
epollVars == <<net, epollOwn>>

EpollIndices == 0 .. EpollSlots - 1

EpollTypeOK == /\ NetTypeOK
               /\ epc \in {"wait", "batch", "reply"}
               /\ ep \subseteq Clients \union {NoClient}
               /\ postponed \subseteq Clients \union {NoClient}
               /\ sockfd \in Clients \union {NoClient}
               /\ interest \subseteq Clients
               /\ client \in [EpollIndices -> Clients \union {NoClient}]
               /\ maxi \in 0 .. EpollSlots + 1

EpollInit == /\ NetInit
             /\ epc = "wait" /\ ep = {} /\ postponed = {} /\ sockfd = NoClient
             /\ interest = {}
             /\ client = [k \in EpollIndices |-> NoClient]
             /\ maxi = 0

EpollReady == {c \in interest : Readable(c)} \union (IF backlog # << >> THEN {NoClient} ELSE {})

\* At most MaxEvents; the kernel's ready list is a queue, so what was
\* left out comes first in the next batch.
EpollWait == /\ ~ ended /\ epc = "wait" /\ EpollReady # {}
             /\ \E batch \in SUBSET EpollReady :
                   /\ \/ batch = EpollReady /\ Cardinality(EpollReady) <= MaxEvents
                      \/ batch # EpollReady /\ Cardinality(batch) = MaxEvents
                   /\ LET first == postponed \intersect EpollReady
                      IN  first \subseteq batch \/ batch \subseteq first
                   /\ ep' = batch
                   /\ postponed' = EpollReady \ batch
             /\ epc' = "batch"
             /\ UNCHANGED <<net, sockfd, interest, client, maxi>>

InBatch(c) == ~ ended /\ epc = "batch" /\ c \in ep /\ ep' = ep \ {c}

Unused == {k \in EpollIndices : client[k] = NoClient}

\* The loop's j: the first free entry, or OPEN_MAX.
FreeEntry == IF Unused = {} THEN EpollSlots
             ELSE CHOOSE k \in Unused : \A l \in Unused : k <= l

\* maxi counts the connections instead of bounding their entries.
Raise_Mutant(j) == maxi' = maxi + 1

Raise(j) == maxi' = IF j + 1 > maxi THEN j + 1 ELSE maxi

\* A full table is reported and the connection watched all the same.
EpollAdmit == /\ InBatch(NoClient) /\ Accepts("open")
              /\ client' = IF FreeEntry < EpollSlots THEN [client EXCEPT ![FreeEntry] = Accepted]
                                                     ELSE client
              /\ Raise(FreeEntry)
              /\ interest' = interest \union {Accepted}
              /\ UNCHANGED <<peer, sent, got, faults, ended, epc, postponed, sockfd>>

\* accept's -1 is stored and registered: the entry stays free, epoll_ctl fails.
EpollAcceptFails == /\ InBatch(NoClient) /\ Fails
                    /\ Raise(FreeEntry)
                    /\ UNCHANGED <<peer, backlog, srv, sent, got, ended, epc, postponed, sockfd,
                                   interest, client>>

EpollRead == \E c \in ep \ {NoClient} :
                /\ InBatch(c) /\ Receives(c)
                /\ sockfd' = c /\ epc' = "reply"
                /\ UNCHANGED <<peer, backlog, srv, sent, faults, ended, postponed, interest,
                               client, maxi>>

\* n == -1 is not an end of file: nothing is converted, and write refuses the
\* size before it looks at the socket.
EpollReadFails == \E c \in ep \ {NoClient} :
                     /\ InBatch(c) /\ AtError(c) /\ ErrorTaken(c)
                     /\ UNCHANGED <<backlog, srv, sent, got, faults, ended, epc,
                                    postponed, sockfd, interest, client, maxi>>

\* The loop that frees the entry stops one short of maxi.
Forget_Mutant(c) ==
    [k \in EpollIndices |-> IF k < maxi - 1 /\ client[k] = c THEN NoClient ELSE client[k]]

\* The loop goes to maxi, and with maxi == OPEN_MAX past the table, where
\* what it finds is not written back into it.
Forget(c) == [k \in EpollIndices |-> IF k < maxi /\ client[k] = c THEN NoClient ELSE client[k]]

EpollDrop == \E c \in ep \ {NoClient} :
                /\ InBatch(c) /\ AtEnd(c)
                /\ client' = Forget(c)
                /\ interest' = interest \ {c}
                /\ Closes(c)
                /\ UNCHANGED <<peer, backlog, sent, got, faults, ended, epc, postponed, sockfd,
                               maxi>>

EpollReply == /\ ~ ended /\ epc = "reply"
              /\ \/ /\ (Takes(sockfd) \/ Refuses(sockfd))
                    /\ epc' = "batch" /\ sockfd' = NoClient
                    /\ UNCHANGED ended
                 \/ /\ BrokenPipe(sockfd)
                    /\ ended' = TRUE
                    /\ UNCHANGED <<peer, epc, sockfd>>
              /\ UNCHANGED <<backlog, srv, sent, got, faults, ep, postponed, interest,
                              client, maxi>>

Handled == /\ ~ ended /\ epc = "batch" /\ ep = {}
           /\ epc' = "wait"
           /\ UNCHANGED <<net, ep, postponed, sockfd, interest, client, maxi>>

EpollLoop == \/ EpollWait \/ EpollAdmit \/ EpollAcceptFails \/ EpollRead
             \/ EpollReadFails \/ EpollDrop \/ EpollReply \/ Handled

EpollNext == EpollLoop \/ (~ ended /\ ClientStep /\ UNCHANGED epollOwn)

EpollSpec == EpollInit /\ [][EpollNext]_epollVars

EpollFairness == WF_epollVars(EpollLoop)

EpollFairSpec == EpollSpec /\ EpollFairness

-----------------------------------------------------------------------------
EpollOwed(c) == epc = "reply" /\ sockfd = c

Listed == {client[k] : k \in EpollIndices} \ {NoClient}

(* The epoll set is the set of open connections; the table lists none that *)
(* is closed, for a stale entry would be taken for good and the table      *)
(* would fill up over time; and no event of a batch is for a socket that   *)
(* was closed while the batch was worked off.                              *)
TableIsCurrent == /\ interest = {c \in Clients : srv[c] = "open"}
                  /\ Listed \subseteq interest
                  /\ ep \ {NoClient} \subseteq interest
===============================================================================
