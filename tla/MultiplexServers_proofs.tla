------------------------ MODULE MultiplexServers_proofs ------------------------
(***************************************************************************)
(* Theorems about the servers of ch07/7.5, for any number of clients and   *)
(* any sizes of their tables and batches: the select server's count and    *)
(* table are right; what the epoll server watches is what is open, and no  *)
(* event of a batch is for a socket that was closed meanwhile; each of     *)
(* them implements EchoService, and none is ever blocked but in its call   *)
(* of select, poll or epoll_wait.                                          *)
(***************************************************************************)
EXTENDS SelectServer, PollServer, EpollServer, Sockets_proofs

-----------------------------------------------------------------------------
(* The select server. *)

SelectEcho == INSTANCE EchoService WITH here <- Here, phase <- Phase,
                                         owed <- [c \in Clients |-> SelectOwed(c)],
                                         admitting <- ~ ended

SelectImplementsEchoService == SelectEcho!Spec

SelectOwnTypes == /\ spc \in {"wait", "scan", "reply", "accept"}
                  /\ i \in Nat /\ conn_amount \in Nat
                  /\ fd \in [SelectIndices -> Clients \union {NoClient}]

\* The answer goes to the connection in the entry at hand.
SelectReplyInv == spc = "reply" => i \in Occupied

SelectIInv == NetInv /\ SelectOwnTypes /\ SelectReplyInv /\ CountMatches /\ TableMatches

-----------------------------------------------------------------------------
(* The table. *)

\* The indices are a finite set with as many members as there are entries.
LEMMA IndicesAreFinite == IsFiniteSet(SelectIndices) /\ Cardinality(SelectIndices) = SelectSlots
<1>1. 0 \in Int /\ SelectSlots - 1 \in Int /\ SelectSlots \in Nat \ {0}
  BY SMT, SelectAssumption
<1> QED BY SMT, <1>1, FS_Interval DEF SelectIndices

\* So are the entries in use, and there are no more of them.
LEMMA OccupiedIsFinite == /\ IsFiniteSet(Occupied) /\ Occupied \subseteq SelectIndices
                          /\ Cardinality(Occupied) \in Nat /\ Cardinality(Occupied) <= SelectSlots
<1>1. Occupied \subseteq SelectIndices
  BY DEF Occupied
<1>2. IsFiniteSet(Occupied) /\ Cardinality(Occupied) <= Cardinality(SelectIndices)
  BY <1>1, IndicesAreFinite, FS_Subset
<1> QED BY <1>1, <1>2, IndicesAreFinite, FS_CardinalityType

\* The scan stays inside the table.
LEMMA ScanInTable == ASSUME SelectIInv, InScan PROVE i \in SelectIndices
<1>1. i < conn_amount /\ conn_amount <= SelectSlots
  BY OccupiedIsFinite DEF SelectIInv, InScan, CountMatches
<1> QED BY SMT, <1>1, SelectAssumption DEF SelectIInv, SelectOwnTypes, SelectIndices

\* As long as the count is below the size there is a free entry, and the
\* search finds one.
LEMMA FreeIsFree == ASSUME SelectIInv, conn_amount < SelectSlots
                    PROVE  Free \in SelectIndices /\ fd[Free] = NoClient
<1> DEFINE Empty == {k \in SelectIndices : fd[k] = NoClient}
<1>1. \E k \in SelectIndices : k \in Empty
  <2> SUFFICES ASSUME Empty = {} PROVE FALSE
    OBVIOUS
  <2>1. Occupied = SelectIndices
    BY DEF Occupied
  <2> QED BY SMT, <2>1, IndicesAreFinite, SelectAssumption DEF SelectIInv, CountMatches,
       SelectOwnTypes
<1>2. Empty \in SUBSET Nat /\ Empty # {}
  BY SMT, <1>1 DEF SelectIndices
<1>3. \E k \in Empty : \A j \in Empty : k <= j
  BY <1>2, LeastExists
<1>4. PICK k \in Empty : \A j \in Empty : k <= j
  BY <1>3
<1>5. k \in SelectIndices /\ fd[k] = NoClient /\ \A j \in 0 .. k - 1 : fd[j] # NoClient
  <2>1. \A j \in 0 .. k - 1 : j \in SelectIndices /\ j \notin Empty
    BY SMT, <1>4, SelectAssumption DEF SelectIndices
  <2> QED BY <2>1, <1>4
<1> QED BY <1>5 DEF Free

-----------------------------------------------------------------------------
(* The invariant. *)

\* What the connections have to do with the table is in these three.
LEMMA SelectTableUnchanged == ASSUME SelectIInv, UNCHANGED <<fd, conn_amount, srv>>
                              PROVE  CountMatches' /\ TableMatches'
BY DEF SelectIInv, CountMatches, TableMatches, Watched, Occupied

\* The steps that move only the scan.
LEMMA ScanStep == ASSUME SelectIInv, SelectWait \/ SelectSkip \/ Scanned PROVE SelectIInv'
<1>1. UNCHANGED <<peer, backlog, srv, sent, got, faults, ended, fd, conn_amount>>
  BY DEF SelectWait, SelectSkip, Scanned, net
<1>2. NetInv'
  BY <1>1 DEF SelectIInv, NetInv, NetTypes, QueueInv
<1>3. i' \in Nat /\ spc' \in {"wait", "scan", "accept"}
  BY SMT DEF SelectIInv, SelectOwnTypes, SelectWait, SelectSkip, Scanned, InScan
<1> QED BY <1>1, <1>2, <1>3, SelectTableUnchanged DEF SelectIInv, SelectOwnTypes, SelectReplyInv

\* recv with data.
LEMMA SelectReadStep == ASSUME SelectIInv, SelectRead PROVE SelectIInv'
<1>1. i \in Occupied /\ fd[i] \in Clients
  BY ScanInTable DEF SelectRead, SelectIInv, SelectOwnTypes, Selected, Occupied
<1>2. UNCHANGED <<peer, backlog, srv, sent, faults, ended, i, fd, conn_amount>> /\ spc' = "reply"
  BY DEF SelectRead
<1>3. got' \in [Clients -> Nat]
  <2>1. PICK n \in got[fd[i]] + 1 .. sent[fd[i]] : got' = [got EXCEPT ![fd[i]] = n]
    BY DEF SelectRead, Receives
  <2>2. got[fd[i]] \in Nat /\ sent[fd[i]] \in Nat /\ got \in [Clients -> Nat]
    BY <1>1 DEF SelectIInv, NetInv, NetTypes
  <2>3. n \in Nat
    BY SMT, <2>2
  <2> QED BY <2>1, <2>2, <2>3
<1>4. NetInv'
  BY <1>2, <1>3, CallKeepsQueue DEF SelectIInv, NetInv, NetTypes
<1>5. SelectReplyInv'
  BY <1>1, <1>2 DEF SelectReplyInv, Occupied
<1> QED BY <1>2, <1>4, <1>5, SelectTableUnchanged DEF SelectIInv, SelectOwnTypes

\* A client has left: its entry is freed and its connection closed.
LEMMA SelectDropStep == ASSUME SelectIInv, SelectDrop PROVE SelectIInv'
<1> DEFINE k == i
<1>1. k \in Occupied /\ fd[k] \in Clients
  BY ScanInTable DEF SelectDrop, SelectIInv, SelectOwnTypes, Selected, Occupied
<1>2. /\ UNCHANGED <<backlog, sent, got, faults, ended, spc>> /\ spc = "scan"
      /\ fd' = [fd EXCEPT ![k] = NoClient] /\ conn_amount' = conn_amount - 1
      /\ i' = i + 1 /\ ErrorTaken(fd[k]) /\ Closes(fd[k])
  BY DEF SelectDrop, InScan
<1>3. srv[fd[k]] = "open"
  BY <1>1 DEF SelectIInv, TableMatches, Watched
<1>4. /\ srv' \in [Clients -> {"none", "open", "refused", "closed"}]
      /\ \A d \in Clients : srv'[d] = "none" <=> srv[d] = "none"
      /\ OpenClients' = OpenClients \ {fd[k]}
  BY <1>1, <1>2, <1>3, CloseReleases DEF SelectIInv, OpenClients
<1>5. NetInv'
  BY <1>1, <1>2, <1>4, CallsKeepPeer, CallKeepsQueue DEF SelectIInv, NetInv, NetTypes
<1>6. /\ Occupied' = Occupied \ {k}
      /\ \A l \in Occupied' : fd'[l] = fd[l] /\ l # k
      /\ fd' \in [SelectIndices -> Clients \union {NoClient}]
  BY <1>1, <1>2 DEF Occupied, SelectIInv, SelectOwnTypes
<1>7. conn_amount' \in Nat /\ CountMatches'
  <2>1. Cardinality(Occupied') = Cardinality(Occupied) - 1
    BY <1>1, <1>6, OccupiedIsFinite, FS_RemoveElement
  <2>2. Cardinality(Occupied') \in Nat
    BY <1>6, OccupiedIsFinite, FS_Subset, FS_CardinalityType
  <2> QED BY <2>1, <2>2, <1>2 DEF SelectIInv, CountMatches
<1>8. TableMatches'
  <2>1. Watched' = Watched \ {fd[k]}
    BY <1>1, <1>6 DEF Watched, SelectIInv, TableMatches
  <2>2. Watched = OpenClients /\ \A m, l \in Occupied : fd[m] = fd[l] => m = l
    BY DEF SelectIInv, TableMatches, OpenClients
  <2>3. \A m, l \in Occupied' : fd'[m] = fd'[l] => m = l
    BY <2>2, <1>6
  <2> QED BY <2>1, <2>2, <2>3, <1>4 DEF TableMatches, OpenClients
<1>9. i' \in Nat
  BY <1>2 DEF SelectIInv, SelectOwnTypes
<1> QED BY <1>2, <1>5, <1>6, <1>7, <1>8, <1>9 DEF SelectIInv, SelectOwnTypes, SelectReplyInv

\* send: the next entry, or the end of the process.
LEMMA SelectReplyStep == ASSUME SelectIInv, SelectReply PROVE SelectIInv'
<1>1. i \in Occupied /\ fd[i] \in Clients
  BY DEF SelectReply, SelectIInv, SelectReplyInv, SelectOwnTypes, Occupied
<1>2. /\ UNCHANGED <<backlog, srv, sent, got, faults, fd, conn_amount>>
      /\ UNCHANGED peer \/ Takes(fd[i]) \/ Refuses(fd[i])
      /\ UNCHANGED ended \/ ended' = TRUE
      /\ (spc' = "scan" /\ i' = i + 1) \/ (spc' = spc /\ i' = i)
  BY Zenon DEF SelectReply
<1>3. NetInv'
  <2>1. ended' \in BOOLEAN /\ NetInv /\ srv' = srv
    BY <1>2, Zenon DEF SelectIInv, NetInv, NetTypes
  <2>2. got' \in [Clients -> Nat] /\ faults' \in Nat
       /\ srv' \in [Clients -> {"none", "open", "refused", "closed"}]
    BY <1>2, Zenon DEF SelectIInv, NetInv, NetTypes
  <2> QED BY <1>1, <1>2, <2>1, <2>2, CallsKeepPeer, CallKeepsQueue
<1>4. SelectOwnTypes' /\ SelectReplyInv'
  BY <1>2 DEF SelectIInv, SelectOwnTypes, SelectReplyInv, Occupied
<1> QED BY <1>2, <1>3, <1>4, SelectTableUnchanged DEF SelectIInv

\* accept fails, or the table is full.
LEMMA TurnAwayStep == ASSUME SelectIInv, SelectAcceptFails \/ Refuse PROVE SelectIInv'
<1>1. UNCHANGED <<sent, got, ended, i, fd, conn_amount>> /\ spc' = "wait"
  BY DEF SelectAcceptFails, Refuse
<1>2. CASE SelectAcceptFails
  <2>1. UNCHANGED <<peer, backlog, srv>> /\ faults' \in Nat
    BY <1>2 DEF SelectAcceptFails, Fails, SelectIInv, NetInv, NetTypes
  <2>2. NetInv'
    BY <1>1, <2>1, CallKeepsQueue DEF SelectIInv, NetInv, NetTypes
  <2> QED BY <1>1, <2>1, <2>2, SelectTableUnchanged DEF SelectIInv, SelectOwnTypes, SelectReplyInv
<1>3. CASE Refuse
  <2>1. Accepts("refused") /\ (Takes(Accepted) \/ Refuses(Accepted)) /\ UNCHANGED faults
    BY <1>3 DEF Refuse
  <2>2. NetInv /\ Accepted \in Clients /\ srv[Accepted] = "none"
    BY <2>1, HeadIsNew DEF Accepts, SelectIInv
  <2>3. NetInv'
    BY <1>1, <2>1, <2>2, CallsKeepPeer, AcceptKeepsQueue
  <2>4. OpenClients' = OpenClients
    BY SMT, <2>1, <2>2 DEF Accepts, OpenClients, NetInv, NetTypes
  <2>5. CountMatches' /\ TableMatches'
    BY <1>1, <2>4 DEF SelectIInv, CountMatches, TableMatches, Watched, Occupied, OpenClients
  <2> QED BY <1>1, <2>3, <2>5 DEF SelectIInv, SelectOwnTypes, SelectReplyInv
<1> QED BY <1>2, <1>3

\* A new connection takes the first free entry.
LEMMA SelectAdmitStep == ASSUME SelectIInv, SelectAdmit PROVE SelectIInv'
<1> DEFINE k == Free
<1>1. k \in SelectIndices /\ fd[k] = NoClient /\ k \notin Occupied
  BY FreeIsFree DEF SelectAdmit, Occupied
<1>2. /\ UNCHANGED <<peer, sent, got, faults, ended, i>> /\ spc' = "wait"
      /\ fd' = [fd EXCEPT ![k] = Accepted] /\ conn_amount' = conn_amount + 1
      /\ Accepts("open")
  BY DEF SelectAdmit
<1>3. NetInv /\ Accepted \in Clients /\ srv[Accepted] = "none" /\ Accepted # NoClient
  BY <1>2, HeadIsNew, ClientsAreNumbered DEF Accepts, SelectIInv
<1>4. NetInv'
  BY <1>2, <1>3, AcceptKeepsQueue DEF NetInv, NetTypes
<1>5. OpenClients' = OpenClients \union {Accepted}
  BY SMT, <1>2, <1>3 DEF Accepts, OpenClients, NetInv, NetTypes
<1>6. /\ Occupied' = Occupied \union {k}
      /\ \A l \in Occupied : fd'[l] = fd[l]
      /\ fd'[k] = Accepted
      /\ fd' \in [SelectIndices -> Clients \union {NoClient}]
  BY <1>1, <1>2, <1>3 DEF Occupied, SelectIInv, SelectOwnTypes
<1>7. conn_amount' \in Nat /\ CountMatches'
  <2>1. Cardinality(Occupied') = Cardinality(Occupied) + 1
    BY <1>1, <1>6, OccupiedIsFinite, FS_AddElement
  <2> QED BY <2>1, <1>2 DEF SelectIInv, CountMatches, SelectOwnTypes
<1>8. TableMatches'
  <2>1. Watched = OpenClients /\ \A m, l \in Occupied : fd[m] = fd[l] => m = l
    BY DEF SelectIInv, TableMatches, OpenClients
  <2>2. \A l \in Occupied : fd[l] # Accepted
    BY <2>1, <1>3 DEF Watched, OpenClients
  <2>3. Watched' = Watched \union {Accepted}
    BY <1>6 DEF Watched
  <2>4. \A m, l \in Occupied' : fd'[m] = fd'[l] => m = l
    BY <2>1, <2>2, <1>6
  <2> QED BY <2>1, <2>3, <2>4, <1>5 DEF TableMatches, OpenClients
<1> QED BY <1>2, <1>4, <1>6, <1>7, <1>8 DEF SelectIInv, SelectOwnTypes, SelectReplyInv

\* The clients.
LEMMA SelectClientKeeps == ASSUME SelectIInv, ClientStep, UNCHANGED selectOwn PROVE SelectIInv'
<1>1. PICK c \in Clients : Connect(c) \/ Send(c) \/ Leave(c)
  BY DEF ClientStep
<1>2. NetInv' /\ srv' = srv
  BY Zenon, <1>1, ConnectQueues, OthersKeepQueue DEF SelectIInv, Connect, Send, Leave
<1>3. UNCHANGED <<spc, i, fd, conn_amount>>
  BY DEF selectOwn
<1> QED BY <1>2, <1>3, SelectTableUnchanged DEF SelectIInv, SelectOwnTypes, SelectReplyInv,
     Occupied

\* The invariant holds at the start ...
LEMMA SelectStarts == ASSUME SelectInit PROVE SelectIInv
<1>1. NetInv
  BY InitialNet DEF SelectInit
<1>2. SelectOwnTypes /\ SelectReplyInv
  BY DEF SelectInit, SelectOwnTypes, SelectReplyInv
<1>3. Occupied = {}
  BY DEF SelectInit, Occupied
<1>4. CountMatches
  BY <1>3, FS_EmptySet DEF CountMatches, SelectInit
<1>5. TableMatches
  BY <1>3 DEF TableMatches, Watched, SelectInit, NetInit
<1> QED BY <1>1, <1>2, <1>4, <1>5 DEF SelectIInv

\* ... and is kept by every step.
LEMMA SelectStepKeeps == ASSUME SelectIInv, [SelectNext]_selectVars PROVE SelectIInv'
<1>1. CASE SelectLoop
  BY <1>1, ScanStep, SelectReadStep, SelectDropStep, SelectReplyStep, TurnAwayStep,
       SelectAdmitStep DEF SelectLoop
<1>2. CASE ClientStep /\ UNCHANGED selectOwn
  BY <1>2, SelectClientKeeps
<1>3. CASE UNCHANGED selectVars
  <2>1. UNCHANGED <<peer, backlog, srv, sent, got, faults, ended, spc, i, fd, conn_amount>>
    BY <1>3 DEF selectVars, net, selectOwn
  <2>2. NetInv'
    BY <2>1 DEF SelectIInv, NetInv, NetTypes, QueueInv
  <2> QED BY <2>1, <2>2, SelectTableUnchanged DEF SelectIInv, SelectOwnTypes, SelectReplyInv,
       Occupied
<1> QED BY <1>1, <1>2, <1>3 DEF SelectNext

\* The invariant holds in every reachable state.
THEOREM SelectInductive == SelectSpec => []SelectIInv
BY SelectStarts, SelectStepKeeps, PTL DEF SelectSpec

\* The number of connections is the number of entries in use, so no client is
\* refused while there is room, and one that is accepted finds an entry: what the
\* code does, against the header of 7.5/main.cpp.
THEOREM CountCorrect == SelectSpec => []CountMatches
<1>1. SelectIInv => CountMatches
  BY DEF SelectIInv
<1> QED BY <1>1, SelectInductive, PTL

\* The table holds the open connections and no others, each of them once.
THEOREM SelectTableCorrect == SelectSpec => []TableMatches
<1>1. SelectIInv => TableMatches
  BY DEF SelectIInv
<1> QED BY <1>1, SelectInductive, PTL

-----------------------------------------------------------------------------
(* The refinement. *)

selectOwed == [c \in Clients |-> SelectOwed(c)]

\* What is owed, entry by entry.
LEMMA NothingOwed == ASSUME spc # "reply" PROVE selectOwed = [c \in Clients |-> FALSE]
BY Zenon DEF selectOwed, SelectOwed

\* The steps that EchoService does not see.
LEMMA SelectUnseenSteps == ASSUME SelectIInv,
     SelectWait \/ SelectSkip \/ Scanned \/ SelectAcceptFails
                           PROVE  UNCHANGED <<Here, Phase, selectOwed, ended>>
<1>1. UNCHANGED <<peer, srv, ended>> /\ spc # "reply" /\ spc' # "reply"
  BY DEF SelectWait, SelectSkip, Scanned, SelectAcceptFails, InScan, net
<1>2. UNCHANGED <<Here, Phase>>
  BY Zenon, <1>1 DEF Here, Phase
<1>3. selectOwed = [c \in Clients |-> FALSE] /\ selectOwed' = [c \in Clients |-> FALSE]
  BY Zenon, <1>1 DEF selectOwed, SelectOwed
<1> QED BY <1>1, <1>2, <1>3

\* recv takes a request.
LEMMA SelectReadTakes == ASSUME SelectIInv, SelectRead PROVE \E c \in Clients : SelectEcho!Take(c)
<1> DEFINE c == fd[i]
<1>1. i \in Occupied /\ c \in Clients
  BY ScanInTable DEF SelectRead, SelectIInv, SelectOwnTypes, Selected, Occupied
<1>2. UNCHANGED <<peer, srv, ended, fd, i>> /\ spc = "scan" /\ spc' = "reply"
  BY DEF SelectRead, InScan
<1>3. UNCHANGED <<Here, Phase>>
  BY Zenon, <1>2 DEF Here, Phase
<1>4. srv[c] = "open"
  BY <1>1 DEF SelectIInv, TableMatches, Watched
<1>5. Phase[c] = "served"
  BY <1>1, <1>4 DEF Phase
<1>6. selectOwed' = [selectOwed EXCEPT ![c] = TRUE]
  <2>1. selectOwed = [d \in Clients |-> FALSE]
    BY <1>2, NothingOwed
  <2>2. selectOwed' = [d \in Clients |-> c = d]
    BY Zenon, <1>2 DEF selectOwed, SelectOwed
  <2>3. \A k, l \in Occupied : fd[k] = fd[l] => k = l
    BY DEF SelectIInv, TableMatches
  <2> QED BY <1>1, <2>1, <2>2
<1> QED BY <1>1, <1>2, <1>3, <1>5, <1>6 DEF SelectEcho!Take, selectOwed

\* The end of a connection that was read releases it.
LEMMA SelectDropReleases == ASSUME SelectIInv, SelectDrop
     PROVE \E c \in Clients : SelectEcho!Release(c)
<1> DEFINE c == fd[i]
<1>1. i \in Occupied /\ c \in Clients
  BY ScanInTable DEF SelectDrop, SelectIInv, SelectOwnTypes, Selected, Occupied
<1>2. /\ AtEnd(c) \/ AtError(c)
      /\ ErrorTaken(c) /\ Closes(c) /\ UNCHANGED ended
      /\ spc = "scan" /\ spc' = "scan"
  BY DEF SelectDrop, InScan
<1>3. NetInv /\ srv[c] = "open"
  BY <1>1 DEF SelectIInv, TableMatches, Watched
<1>4. Phase[c] = "served" /\ Phase' = [Phase EXCEPT ![c] = "over"]
  BY <1>1, <1>2, <1>3, CloseReleases
<1>5. Here' = Here
  BY <1>1, <1>2, <1>3, CallsKeepPeer
<1>6. Here[c] = "left"
  BY <1>1, <1>2 DEF Here, AtEnd, AtError
<1>7. selectOwed = [d \in Clients |-> FALSE] /\ selectOwed' = [d \in Clients |-> FALSE]
  BY Zenon, <1>2 DEF selectOwed, SelectOwed
<1>8. selectOwed' = [selectOwed EXCEPT ![c] = FALSE]
  BY <1>7
<1> QED BY <1>1, <1>2, <1>4, <1>5, <1>6, <1>8 DEF SelectEcho!Release, selectOwed

\* send answers the request, or ends the server.
LEMMA SelectReplyAnswers == ASSUME SelectIInv, SelectReply
                            PROVE  SelectEcho!Stop \/ \E c \in Clients : SelectEcho!Answer(c)
<1> DEFINE c == fd[i]
<1>1. i \in Occupied /\ c \in Clients /\ NetInv
  BY DEF SelectReply, SelectIInv, SelectReplyInv, SelectOwnTypes, Occupied
<1>2. srv[c] = "open" /\ UNCHANGED <<srv, fd>> /\ spc = "reply" /\ ~ ended
  BY <1>1 DEF SelectIInv, TableMatches, Watched, SelectReply
<1>3. Phase[c] = "served" /\ Phase' = Phase
  BY <1>1, <1>2, Zenon DEF Phase
<1>4. selectOwed = [d \in Clients |-> c = d]
  BY Zenon, <1>2 DEF selectOwed, SelectOwed
<1>5. CASE (Takes(c) \/ Refuses(c)) /\ spc' = "scan" /\ UNCHANGED ended
  <2>1. Here' = Here
    BY <1>1, <1>5, CallsKeepPeer
  <2>2. selectOwed' = [d \in Clients |-> FALSE]
    BY Zenon, <1>5 DEF selectOwed, SelectOwed
  <2>3. selectOwed[c] /\ selectOwed' = [selectOwed EXCEPT ![c] = FALSE]
    BY <1>1, <1>4, <2>2
  <2>4. SelectEcho!Answer(c)
    BY <1>3, <1>5, <2>1, <2>3 DEF SelectEcho!Answer, selectOwed
  <2> QED BY <1>1, <2>4
<1>6. CASE ended' = TRUE /\ UNCHANGED <<peer, spc, i>>
  <2>1. Here' = Here
    BY Zenon, <1>6 DEF Here
  <2>2. selectOwed' = selectOwed
    BY Zenon, <1>2, <1>6 DEF selectOwed, SelectOwed
  <2> QED BY <1>2, <1>3, <1>6, <2>1, <2>2 DEF SelectEcho!Stop, selectOwed
<1> QED BY <1>5, <1>6 DEF SelectReply

\* accept admits, or refuses, the client that has waited longest.
LEMMA SelectAcceptAdmits == ASSUME SelectIInv, SelectAdmit \/ Refuse
                            PROVE  \E c \in Clients : SelectEcho!Admit(c) \/ SelectEcho!Refuse(c)
<1> DEFINE c == Accepted
<1>1. ~ ended /\ UNCHANGED ended /\ spc # "reply" /\ spc' # "reply" /\ backlog # << >>
  BY DEF SelectAdmit, Refuse, Accepts
<1>2. NetInv /\ c \in Clients
  BY <1>1, HeadIsNew DEF SelectIInv
<1>3. selectOwed = [d \in Clients |-> FALSE] /\ selectOwed' = [d \in Clients |-> FALSE]
  BY Zenon, <1>1 DEF selectOwed, SelectOwed
<1>4. CASE SelectAdmit
  <2>1. Accepts("open") /\ Here' = Here
    BY Zenon, <1>4 DEF SelectAdmit, Here
  <2>2. Here[c] # "away" /\ Phase[c] = "new" /\ Phase' = [Phase EXCEPT ![c] = "served"]
    BY <1>2, <2>1, AcceptDecides
  <2> QED BY <1>1, <1>2, <1>3, <2>1, <2>2 DEF SelectEcho!Admit, selectOwed
<1>5. CASE Refuse
  <2>1. Accepts("refused") /\ (Takes(c) \/ Refuses(c))
    BY <1>5 DEF Refuse
  <2>2. Here' = Here
    BY <1>2, <2>1, CallsKeepPeer
  <2>3. Here[c] # "away" /\ Phase[c] = "new" /\ Phase' = [Phase EXCEPT ![c] = "refused"]
    BY <1>2, <2>1, AcceptDecides
  <2> QED BY <1>1, <1>2, <1>3, <2>2, <2>3 DEF SelectEcho!Refuse, selectOwed
<1> QED BY <1>4, <1>5

\* The clients come, leave, and send unseen.
LEMMA SelectClientImplements == ASSUME SelectIInv, ClientStep, UNCHANGED selectOwn
                                 PROVE  \/ \E c \in Clients : \/ SelectEcho!Arrive(c)
                                                              \/ SelectEcho!Leave(c)
                                       \/ UNCHANGED <<Here, Phase, selectOwed, ended>>
<1>1. PICK c \in Clients : Connect(c) \/ Send(c) \/ Leave(c)
  BY DEF ClientStep
<1>2. UNCHANGED ended /\ NetInv
  BY Zenon, <1>1 DEF Connect, Send, Leave, SelectIInv
<1>3. selectOwed' = selectOwed
  BY Zenon DEF selectOwed, SelectOwed, selectOwn
<1>4. CASE Connect(c)
  BY <1>2, <1>3, <1>4, ConnectArrives DEF SelectEcho!Arrive, selectOwed
<1>5. CASE Leave(c)
  BY <1>2, <1>3, <1>5, LeaveLeaves DEF SelectEcho!Leave, selectOwed
<1>6. CASE Send(c)
  BY <1>2, <1>3, <1>6, SendIsUnseen
<1> QED BY <1>1, <1>4, <1>5, <1>6

\* It starts as EchoService does ...
LEMMA SelectStartsEcho == ASSUME SelectInit PROVE SelectEcho!Init
<1>1. peer = [c \in Clients |-> "idle"] /\ srv = [c \in Clients |-> "none"] /\ ended = FALSE
        /\ spc = "wait"
  BY DEF SelectInit, NetInit
<1>2. Here = [c \in Clients |-> "away"] /\ Phase = [c \in Clients |-> "new"]
  BY <1>1 DEF Here, Phase
<1>3. selectOwed = [c \in Clients |-> FALSE]
  BY <1>1, NothingOwed
<1> QED BY <1>1, <1>2, <1>3 DEF SelectEcho!Init, selectOwed

\* ... and takes one of its steps, or none, with each of its own.
LEMMA SelectStepIsEcho == ASSUME SelectIInv, [SelectNext]_selectVars
                       PROVE  SelectEcho!Next \/ UNCHANGED <<Here, Phase, selectOwed, ended>>
<1>1. CASE SelectLoop
  BY <1>1, SelectUnseenSteps, SelectReadTakes, SelectDropReleases, SelectReplyAnswers,
       SelectAcceptAdmits DEF SelectLoop, SelectEcho!Next
<1>2. CASE ClientStep /\ UNCHANGED selectOwn
  BY <1>2, SelectClientImplements DEF SelectEcho!Next
<1>3. CASE UNCHANGED selectVars
  <2>1. UNCHANGED <<peer, srv, ended, spc, i, fd>>
    BY <1>3 DEF selectVars, net, selectOwn
  <2> QED BY Zenon, <2>1 DEF Here, Phase, selectOwed, SelectOwed
<1> QED BY <1>1, <1>2, <1>3 DEF SelectNext

\* The select server implements EchoService: nobody is answered who did not
\* ask, admitted twice, or given up while still there.
THEOREM SelectImplementsEcho == SelectSpec => SelectImplementsEchoService
<1>1. SelectIInv /\ [SelectNext]_selectVars => [SelectEcho!Next]_SelectEcho!vars
  BY SelectStepIsEcho DEF SelectEcho!vars, selectOwed
<1> QED BY <1>1, SelectStartsEcho, SelectInductive, PTL DEF SelectSpec, SelectEcho!Spec,
      SelectImplementsEchoService

-----------------------------------------------------------------------------
(* The types and the end of the process. *)

SelectRest == /\ Bounds /\ Excused
              /\ i <= SelectSlots /\ fdsr \subseteq Clients \union {NoClient}

\* The scan's index and the set select returned stay in their ranges, and the
\* process ends for SIGPIPE only.
LEMMA SelectRestKept == ASSUME SelectIInv, SelectRest, [SelectNext]_selectVars PROVE SelectRest'
<1>1. /\ i \in Nat /\ conn_amount \in Nat /\ conn_amount <= SelectSlots /\ SelectSlots \in Nat
      /\ \A k \in Occupied : k < SelectSlots /\ fd[k] \in Clients
      /\ Watched \subseteq Clients
  <2>1. \A k \in Occupied : k \in SelectIndices /\ fd[k] \in Clients
    BY DEF SelectIInv, SelectOwnTypes, Occupied
  <2>2. \A k \in SelectIndices : k < SelectSlots
    BY SMT, SelectAssumption DEF SelectIndices
  <2> QED BY <2>1, <2>2, OccupiedIsFinite, SelectAssumption
          DEF SelectIInv, SelectOwnTypes, CountMatches, Watched
<1>2. ASSUME SelectLoop PROVE /\ Counts
                               /\ \/ UNCHANGED ended /\ ~ ended
                                  \/ \E c \in Clients : peer'[c] = "dead"
  <2>1. CASE SelectRead
    <3>1. fd[i] \in Clients
      BY <2>1, ScanInTable DEF SelectRead, SelectIInv, SelectOwnTypes, Selected
    <3> QED BY <2>1, <3>1 DEF SelectRead, InScan, Counts
  <2>2. CASE SelectReply
    <3>1. fd[i] \in Clients
      BY <2>2, <1>1 DEF SelectReply, SelectIInv, SelectReplyInv
    <3> QED BY <2>2, <3>1 DEF SelectReply, BrokenPipe, Counts
  <2>3. CASE SelectAcceptFails
    BY <2>3 DEF SelectAcceptFails, Counts
  <2>4. CASE SelectWait \/ SelectSkip \/ SelectDrop \/ Scanned \/ SelectAdmit \/ Refuse
    BY <2>4, Zenon DEF SelectWait, SelectSkip, SelectDrop, Scanned, SelectAdmit, Refuse, InScan,
         net, Counts
  <2> QED BY <1>2, <2>1, <2>2, <2>3, <2>4 DEF SelectLoop
<1>3. ASSUME SelectLoop PROVE i' <= SelectSlots /\ fdsr' \subseteq Clients \union {NoClient}
  <2>1. CASE SelectWait
    BY <2>1, <1>1 DEF SelectWait
  <2>2. CASE SelectSkip \/ SelectDrop
    BY <2>2, <1>1 DEF SelectSkip, SelectDrop, InScan, SelectRest
  <2>3. CASE SelectReply
    BY <2>3, <1>1 DEF SelectReply, SelectRest, SelectIInv, SelectReplyInv
  <2>4. CASE Scanned
    BY <2>4, <1>1 DEF Scanned
  <2>5. CASE SelectRead \/ SelectAcceptFails \/ SelectAdmit \/ Refuse
    BY <2>5, Zenon DEF SelectRead, SelectAcceptFails, SelectAdmit, Refuse, SelectRest
  <2> QED BY <1>3, <2>1, <2>2, <2>3, <2>4, <2>5 DEF SelectLoop
<1>4. CASE SelectLoop
  BY <1>2, <1>3, <1>4, BoundsKept DEF SelectIInv, SelectRest, Excused
<1>5. CASE ~ ended /\ ClientStep /\ UNCHANGED selectOwn
  BY <1>5, ClientsCount, BoundsKept DEF SelectIInv, SelectRest, Excused, selectOwn
<1>6. CASE UNCHANGED selectVars
  BY <1>6, BoundsKept DEF SelectIInv, SelectRest, Excused, Counts, selectVars, net, selectOwn
<1> QED BY <1>4, <1>5, <1>6 DEF SelectNext

\* It holds at the start.
LEMMA SelectRestStarts == ASSUME SelectInit PROVE SelectRest
BY SMT, InitialBounds, SelectAssumption DEF SelectInit, SelectRest

\* With it every variable has its type.
LEMMA SelectTypes == SelectIInv /\ SelectRest => SelectTypeOK
<1> SUFFICES ASSUME SelectIInv, SelectRest PROVE SelectTypeOK
  OBVIOUS
<1>1. i \in 0 .. SelectSlots /\ conn_amount \in 0 .. SelectSlots
  BY SMT, OccupiedIsFinite, SelectAssumption DEF SelectIInv, SelectOwnTypes, SelectRest,
       CountMatches
<1> QED BY <1>1, BoundsAreTypes DEF SelectIInv, SelectOwnTypes, SelectRest, SelectTypeOK

-----------------------------------------------------------------------------
(* Why the select server goes on: it is never inside recv or accept for    *)
(* somebody who has sent nothing, although what select reported may be     *)
(* old by the time it is used.                                             *)

\* The guard of the server's next step.
SelectGoes ==
    \/ spc = "wait" /\ (backlog # << >> \/ \E c \in Watched : Readable(c))
    \/ spc = "scan" /\ (InScan /\ Selected => Readable(fd[i]))
    \/ spc = "reply" /\ peer[fd[i]] # "idle"
    \/ /\ spc = "accept" /\ backlog # << >>
       /\ conn_amount >= SelectSlots => peer[Accepted] \notin {"idle", "dead"}

\* The entries the scan has yet to come to.
Ahead(k) == k >= i /\ (spc = "reply" => k # i)

\* What select reported of them still holds, and of the listening socket.
SelectFresh ==
    /\ spc \in {"scan", "reply"} =>
          /\ \A k \in Occupied : Ahead(k) /\ fd[k] \in fdsr => Readable(fd[k])
          /\ NoClient \in fdsr => backlog # << >>
    /\ spc = "accept" => backlog # << >>

\* The steps that look at the next entry keep what is known of those behind it.
LEMMA ScanFresh ==
    ASSUME SelectIInv, SelectFresh, SelectSkip \/ SelectRead \/ SelectDrop \/ SelectReply
    PROVE  SelectFresh'
<1> DEFINE c == fd[i]
<1>1. spc \in {"scan", "reply"} /\ spc' \in {"scan", "reply"} /\ backlog' = backlog
      /\ fdsr' \subseteq fdsr /\ sent' = sent
  BY DEF SelectSkip, SelectRead, SelectDrop, SelectReply, InScan, net
<1>2. i \in SelectIndices /\ i \in Nat /\ SelectIndices \subseteq Nat
  <2>1. CASE SelectReply
    BY <2>1 DEF SelectReply, SelectIInv, SelectReplyInv, SelectOwnTypes, Occupied, SelectIndices
  <2>2. CASE ~ SelectReply
    BY <2>2, ScanInTable DEF SelectSkip, SelectRead, SelectDrop, SelectIInv, SelectOwnTypes,
         SelectIndices
  <2> QED BY <2>1, <2>2
<1>3. \A k \in Occupied' : k \in Occupied /\ fd'[k] = fd[k]
  BY <1>2 DEF SelectSkip, SelectRead, SelectDrop, SelectReply, net, Occupied, SelectIInv,
       SelectOwnTypes
<1>4. \A k \in Occupied' : Ahead(k)' => Ahead(k)
  <2>1. \A k \in SelectIndices : k \in Nat
    BY <1>2
  <2>2. i' = i + 1 \/ (i' = i /\ (spc' = spc \/ spc' = "reply"))
    BY Zenon DEF SelectSkip, SelectRead, SelectDrop, SelectReply
  <2> QED BY <1>2, <1>3, <2>1, <2>2 DEF Ahead, Occupied
<1>5. \A k \in Occupied' : Ahead(k)' /\ fd[k] \in fdsr' => Readable(fd[k])'
  <2> SUFFICES ASSUME NEW k \in Occupied', Ahead(k)', fd[k] \in fdsr' PROVE Readable(fd[k])'
    OBVIOUS
  <2>1. k \in Occupied /\ Ahead(k) /\ fd[k] \in fdsr /\ fd[k] \in Clients
    BY <1>1, <1>3, <1>4 DEF Occupied, SelectIInv, SelectOwnTypes
  <2>2. Readable(fd[k])
    BY <1>1, <2>1 DEF SelectFresh
  <2>3. CASE UNCHANGED <<peer, got>>
    BY <1>1, <1>3, <2>2, <2>3 DEF Readable, Unread, Gone
  <2>4. CASE ~ UNCHANGED <<peer, got>>
    <3>1. ~ SelectSkip
      BY <2>4 DEF SelectSkip, net
    <3>2. c \in Clients /\ i \in Occupied
      BY <1>2, <3>1 DEF SelectRead, SelectDrop, SelectReply, Selected, SelectIInv,
           SelectReplyInv, SelectOwnTypes, Occupied
    <3>3. k # i
      <4>1. CASE SelectRead
        BY <4>1 DEF SelectRead, Ahead
      <4>2. CASE SelectDrop
        BY <1>2, <4>2 DEF SelectDrop, Ahead
      <4>3. CASE SelectReply
        <5>1. i' = i + 1
          BY <2>4, <4>3 DEF SelectReply
        <5> QED BY <1>2, <5>1 DEF Ahead
      <4> QED BY <3>1, <4>1, <4>2, <4>3
    <3>4. fd[k] # c
      BY <2>1, <3>2, <3>3 DEF SelectIInv, TableMatches
    <3>5. UNCHANGED peer \/ Takes(c) \/ Refuses(c) \/ ErrorTaken(c)
      BY <3>1, Zenon DEF SelectRead, SelectDrop, SelectReply
    <3>6. \A d \in Clients : d # c => got'[d] = got[d]
      BY <3>1, <3>2 DEF SelectRead, SelectDrop, SelectReply, Receives, SelectIInv, NetInv,
           NetTypes
    <3>7. \A d \in Clients : d # c /\ Readable(d) => Readable(d)'
      BY <1>1, <3>2, <3>5, <3>6, OthersReadable DEF SelectIInv
    <3> QED BY <1>3, <2>1, <2>2, <3>4, <3>7 DEF Readable, Unread, Gone
  <2> QED BY <2>3, <2>4
<1> QED BY <1>1, <1>3, <1>5 DEF SelectFresh

\* What select reports is true when it returns, and stays so until it is used.
LEMMA SelectStaysFresh ==
    ASSUME SelectIInv, SelectFresh, [SelectNext]_selectVars PROVE SelectFresh'
<1>1. CASE SelectWait
  <2>1. /\ fdsr' = {c \in Watched : Readable(c)}
                   \union (IF backlog # << >> THEN {NoClient} ELSE {})
        /\ spc' = "scan" /\ fd' = fd
        /\ UNCHANGED <<peer, backlog, sent, got>>
    BY <1>1 DEF SelectWait, net
  <2>2. \A k \in Occupied : fd[k] \in fdsr' => Readable(fd[k])
    BY <2>1 DEF Occupied
  <2>3. NoClient \in fdsr' => backlog # << >>
    BY <2>1 DEF Watched, Occupied
  <2> QED BY <2>1, <2>2, <2>3 DEF SelectFresh, Occupied, Readable, Unread, Gone
<1>2. CASE SelectSkip \/ SelectRead \/ SelectDrop \/ SelectReply
  BY <1>2, ScanFresh
<1>3. CASE Scanned
  BY <1>3 DEF Scanned, SelectFresh, net
<1>4. CASE SelectAcceptFails \/ SelectAdmit \/ Refuse
  BY <1>4 DEF SelectAcceptFails, SelectAdmit, Refuse, SelectFresh
<1>5. CASE ClientStep /\ UNCHANGED selectOwn
  <2>1. \A d \in Clients : Readable(d) => Readable(d)'
    BY <1>5, ReadableStays DEF SelectIInv
  <2>2. UNCHANGED <<spc, i, fd, fdsr>>
    BY <1>5 DEF selectOwn
  <2>3. backlog # << >> => backlog' # << >>
    <3>1. backlog' = backlog \/ \E c \in Clients : backlog' = Append(backlog, c)
      BY <1>5 DEF ClientStep, Connect, Send, Leave
    <3>2. backlog \in Seq(Clients)
      BY DEF SelectIInv, NetInv, NetTypes
    <3> QED BY <3>1, <3>2
  <2>4. \A k \in Occupied : fd[k] \in Clients
    BY DEF Occupied, SelectIInv, SelectOwnTypes
  <2>5. Occupied' = Occupied /\ \A k : Ahead(k)' <=> Ahead(k)
    BY <2>2 DEF Occupied, Ahead
  <2> QED BY <2>1, <2>2, <2>3, <2>4, <2>5 DEF SelectFresh
<1>6. CASE UNCHANGED selectVars
  <2>1. UNCHANGED <<peer, backlog, sent, got, spc, i, fd, fdsr>>
    BY <1>6 DEF selectVars, net, selectOwn
  <2> QED BY <2>1 DEF SelectFresh, Occupied, Ahead, Readable, Unread, Gone
<1> QED BY <1>1, <1>2, <1>3, <1>4, <1>5, <1>6 DEF SelectNext, SelectLoop

\* No call fails on a connection that waits at the door.
LEMMA SelectKeepsDoor == ASSUME SelectIInv, DoorInv, [SelectNext]_selectVars PROVE DoorInv'
<1>1. CASE SelectAdmit \/ Refuse
  <2>1. PICK state \in {"open", "refused"} : Accepts(state)
    BY <1>1 DEF SelectAdmit, Refuse
  <2>2. \A d \in Clients : d # Accepted => peer'[d] = peer[d]
    BY <1>1 DEF SelectAdmit, Refuse, Takes, Refuses, ErrorTaken, SelectIInv, NetInv, NetTypes
  <2> QED BY <2>1, <2>2, AcceptKeepsDoor DEF SelectIInv
<1>2. CASE SelectRead \/ SelectDrop \/ SelectReply
  <2>1. i \in Occupied /\ fd[i] \in Clients
    BY <1>2, ScanInTable DEF SelectRead, SelectDrop, SelectReply, Selected, SelectIInv,
         SelectReplyInv, SelectOwnTypes, Occupied
  <2>2. srv[fd[i]] = "open"
    BY <2>1 DEF SelectIInv, TableMatches, Watched
  <2>3. backlog' = backlog /\ (srv' = srv \/ Closes(fd[i]))
        /\ (UNCHANGED peer \/ Takes(fd[i]) \/ Refuses(fd[i]) \/ ErrorTaken(fd[i]))
    BY <1>2, Zenon DEF SelectRead, SelectDrop, SelectReply
  <2>4. \A d \in Clients : srv'[d] = "none" => srv[d] = "none" /\ peer'[d] = peer[d]
    BY <2>1, <2>2, <2>3 DEF Closes, Takes, Refuses, ErrorTaken, SelectIInv, NetInv, NetTypes
  <2> QED BY <2>3, <2>4, CallKeepsDoor
<1>3. CASE SelectWait \/ SelectSkip \/ Scanned \/ SelectAcceptFails \/ UNCHANGED selectVars
  <2>1. UNCHANGED <<peer, backlog, srv>>
    BY <1>3 DEF SelectWait, SelectSkip, Scanned, SelectAcceptFails, selectVars, net
  <2> QED BY <2>1 DEF DoorInv
<1>4. CASE ClientStep
  BY <1>4, ClientsKeepDoor DEF SelectIInv
<1> QED BY <1>1, <1>2, <1>3, <1>4 DEF SelectNext, SelectLoop

\* So the server is at work whenever it is not waiting in select.
LEMMA SelectGoesOn ==
    ASSUME SelectIInv, DoorInv, SelectFresh
    PROVE  spc = "wait" \/ SelectGoes
<1>1. ASSUME spc = "scan", InScan, Selected PROVE Readable(fd[i])
  <2>1. i \in Occupied
    BY <1>1, ScanInTable DEF Selected, Occupied
  <2>2. Ahead(i)
    BY <1>1 DEF Ahead, SelectIInv, SelectOwnTypes
  <2> QED BY <1>1, <2>1, <2>2 DEF SelectFresh, Selected
<1>2. ASSUME spc = "reply" PROVE peer[fd[i]] # "idle"
  <2>1. i \in Occupied /\ fd[i] \in Clients
    BY <1>2 DEF SelectIInv, SelectReplyInv, SelectOwnTypes, Occupied
  <2>2. srv[fd[i]] = "open"
    BY <2>1 DEF SelectIInv, TableMatches, Watched
  <2> QED BY <2>1, <2>2 DEF SelectIInv, NetInv, QueueInv
<1>3. ASSUME spc = "accept" PROVE backlog # << >> /\ peer[Accepted] \notin {"idle", "dead"}
  <2>1. backlog # << >>
    BY <1>3 DEF SelectFresh
  <2> QED BY <2>1, HeadIsNew DEF SelectIInv, DoorInv
<1> QED BY <1>1, <1>2, <1>3 DEF SelectGoes, SelectIInv, SelectOwnTypes

-----------------------------------------------------------------------------
(* The poll server. *)

PollEcho == INSTANCE EchoService WITH here <- Here, phase <- Phase,
                                      owed <- [c \in Clients |-> PollOwed(c)],
                                      admitting <- ~ ended

PollImplementsEchoService == PollEcho!Spec

PollOwnTypes ==
    /\ ppc \in {"wait", "accept", "check", "read", "write"} /\ entry \in Nat
    /\ fds \in Seq([fd : Nat, events : SUBSET Flags])
    /\ revents \in Seq(SUBSET Flags)
    /\ Len(revents) = Len(fds)

\* The clients are accepted in the order in which they connect, so the k-th
\* entry is client k's until it is cleared; the queue holds those that follow.
OrderInv == /\ Len(fds) + Len(backlog) <= NumClients
            /\ \A a \in 1 .. Len(backlog) : backlog[a] = Len(fds) + a
            /\ \A c \in Clients : peer[c] = "idle" <=> c > Len(fds) + Len(backlog)
            /\ \A k \in 1 .. Len(fds) : \/ fds[k].fd = k /\ srv[k] = "open"
                                        \/ fds[k] = [fd |-> NoClient, events |-> {}]

\* What poll reported is true of the entries the round has yet to come to.
Reported(k) == /\ revents[k] # {} => fds[k].fd = k
               /\ "OUT" \in revents[k] => "OUT" \in fds[k].events
               /\ revents[k] \intersect {"HUP", "RDHUP"} # {} => Gone(k)

RoundInv == /\ IF ppc = "wait" THEN entry = 0 ELSE entry \in 1 .. Len(fds) + 1
            /\ ppc \in {"read", "write"} => entry <= Len(fds) /\ fds[entry].fd = entry
            /\ \A k \in 1 .. Len(fds) : k >= entry => Reported(k)

PollIInv == NetInv /\ PollOwnTypes /\ OrderInv /\ RoundInv

-----------------------------------------------------------------------------
(* The invariant. *)

\* The table holds clients, and its entries are of the table's type.
LEMMA EntriesAreClients ==
    ASSUME PollIInv
    PROVE  /\ Len(fds) \in Nat /\ Len(backlog) \in Nat /\ NumClients \in Nat
           /\ 1 .. Len(fds) \subseteq Clients /\ DOMAIN fds = 1 .. Len(fds)
           /\ \A k \in 1 .. Len(fds) : /\ fds[k] \in [fd : Nat, events : SUBSET Flags]
                                       /\ revents[k] \subseteq Flags
           /\ DOMAIN revents = 1 .. Len(fds) /\ NoClient = 0
<1> DEFINE E == [fd : Nat, events : SUBSET Flags]
<1>1. /\ Len(fds) \in Nat /\ Len(backlog) \in Nat /\ Len(revents) = Len(fds)
      /\ DOMAIN fds = 1 .. Len(fds) /\ DOMAIN revents = 1 .. Len(revents)
      /\ \A k \in 1 .. Len(fds) : fds[k] \in E
      /\ \A k \in 1 .. Len(revents) : revents[k] \in SUBSET Flags
  <2>1. backlog \in Seq(Clients) /\ fds \in Seq(E) /\ revents \in Seq(SUBSET Flags)
        /\ Len(revents) = Len(fds)
    BY DEF PollIInv, NetInv, NetTypes, PollOwnTypes
  <2> HIDE DEF E
  <2> QED BY <2>1, SMT
<1>2. NumClients \in Nat /\ 1 .. Len(fds) \subseteq Clients /\ NoClient = 0
  BY SMT, <1>1, SocketsAssumption DEF PollIInv, OrderInv, Clients, NoClient
<1> QED BY <1>1, <1>2

\* A call that fails, and a step that only moves on, keep table and queue.
LEMMA PollMoves ==
    ASSUME PollIInv, NetInv', UNCHANGED <<backlog, srv, fds, revents>>,
           \A d \in Clients : peer'[d] = "idle" <=> peer[d] = "idle",
           \A d \in Clients : Gone(d) => Gone(d)',
           ppc' \in {"wait", "accept", "check", "read", "write"},
           IF ppc' = "wait" THEN entry' = 0 ELSE entry' \in 1 .. Len(fds) + 1,
           ppc' \in {"read", "write"} => entry' <= Len(fds) /\ fds[entry'].fd = entry',
           entry' >= entry
    PROVE  PollIInv'
<1>1. OrderInv'
  BY Zenon DEF PollIInv, OrderInv
<1>2. entry \in Nat /\ entry' \in Nat
  BY SMT, EntriesAreClients DEF PollIInv, PollOwnTypes
<1>3. PollOwnTypes'
  BY <1>2 DEF PollIInv, PollOwnTypes
<1>4. \A k \in 1 .. Len(fds) : k >= entry' => Reported(k)'
  <2> SUFFICES ASSUME NEW k \in 1 .. Len(fds), k >= entry' PROVE Reported(k)'
    OBVIOUS
  <2>1. k >= entry /\ k \in Clients
    BY SMT, <1>2, EntriesAreClients
  <2>2. Reported(k) /\ (Gone(k) => Gone(k)')
    BY <2>1 DEF PollIInv, RoundInv
  <2> QED BY <2>2 DEF Reported
<1>5. RoundInv'
  BY <1>4, Zenon DEF RoundInv
<1> QED BY <1>1, <1>3, <1>5 DEF PollIInv

\* poll reports what is true when it returns.
LEMMA PollWaitStep == ASSUME PollIInv, PollWait PROVE PollIInv'
<1>1. /\ UNCHANGED <<net, fds>> /\ revents' = [k \in DOMAIN fds |-> PollReady(fds[k])]
      /\ ppc' \in {"accept", "check"} /\ entry' = 1
  BY DEF PollWait
<1>2. NetInv' /\ OrderInv' /\ fds' = fds /\ peer' = peer
  <2>1. UNCHANGED <<peer, backlog, srv, fds>>
    BY <1>1 DEF net
  <2>2. OrderInv'
    BY Zenon, <2>1 DEF PollIInv, OrderInv
  <2> QED BY <1>1, <2>1, <2>2, NetUnchanged DEF PollIInv
<1>3. ASSUME NEW k \in 1 .. Len(fds)
      PROVE  /\ PollReady(fds[k]) \in SUBSET Flags
             /\ PollReady(fds[k]) # {} => fds[k].fd = k
             /\ "OUT" \in PollReady(fds[k]) => "OUT" \in fds[k].events
             /\ PollReady(fds[k]) \intersect {"HUP", "RDHUP"} # {} => Gone(k)
  <2>1. /\ k \in Clients /\ k # NoClient
        /\ fds[k].fd = k \/ fds[k].fd = NoClient
        /\ fds[k].events \subseteq Flags
    <3>1. k \in Clients /\ fds[k] \in [fd : Nat, events : SUBSET Flags]
      BY EntriesAreClients
    <3>2. fds[k].fd = k \/ fds[k] = [fd |-> NoClient, events |-> {}]
      BY DEF PollIInv, OrderInv
    <3> QED BY <3>1, <3>2, ClientsAreNumbered
  <2>2. CASE fds[k].fd = NoClient
    BY <2>1, <2>2 DEF PollReady
  <2>3. CASE fds[k].fd = k
    BY <2>1, <2>3 DEF PollReady, Gone, Flags
  <2> QED BY <2>1, <2>2, <2>3
<1>4. revents' \in Seq(SUBSET Flags) /\ Len(revents') = Len(fds)
  BY <1>1, <1>3, EntriesAreClients
<1>5. PollOwnTypes'
  BY <1>1, <1>2, <1>4 DEF PollIInv, PollOwnTypes
<1>6. \A k \in 1 .. Len(fds) : Reported(k)'
  BY <1>1, <1>2, <1>3, EntriesAreClients DEF Reported, Gone
<1>7. RoundInv'
  BY <1>1, <1>2, <1>6, EntriesAreClients DEF RoundInv
<1> QED BY <1>2, <1>5, <1>7 DEF PollIInv

\* The round is over.
LEMMA CheckedStep == ASSUME PollIInv, Checked PROVE PollIInv'
<1>1. /\ UNCHANGED <<net, fds>> /\ revents' = [k \in DOMAIN fds |-> {}]
      /\ ppc' = "wait" /\ entry' = 0
  BY DEF Checked
<1>2. NetInv' /\ OrderInv' /\ fds' = fds
  <2>1. UNCHANGED <<peer, backlog, srv, fds>>
    BY <1>1 DEF net
  <2>2. OrderInv'
    BY Zenon, <2>1 DEF PollIInv, OrderInv
  <2> QED BY <1>1, <2>1, <2>2, NetUnchanged DEF PollIInv
<1>3. revents' \in Seq(SUBSET Flags) /\ Len(revents') = Len(fds)
  BY <1>1, EntriesAreClients
<1>4. PollOwnTypes' /\ RoundInv'
  BY <1>1, <1>2, <1>3, EntriesAreClients DEF PollIInv, PollOwnTypes, RoundInv, Reported
<1> QED BY <1>2, <1>4 DEF PollIInv

\* accept: the new entry is that of the client next in order.
LEMMA PollAdmitStep == ASSUME PollIInv, PollAdmit PROVE PollIInv'
<1> DEFINE c == Accepted
           e == [fd |-> c, events |-> {"IN", "RDHUP"}]
<1>1. /\ Accepts("open") /\ backlog # << >>
      /\ fds' = Append(fds, e) /\ revents' = Append(revents, {})
      /\ ppc = "accept" /\ ppc' = "check" /\ UNCHANGED <<peer, sent, got, faults, ended, entry>>
  BY DEF PollAdmit, Accepts
<1>2. NetInv /\ c \in Clients /\ srv[c] = "none"
  BY <1>1, HeadIsNew DEF PollIInv
<1>3. NetInv'
  BY <1>1, <1>2, AcceptKeepsQueue DEF NetInv, NetTypes
<1>4. /\ Len(backlog) \in Nat /\ Len(backlog) >= 1 /\ Len(backlog') = Len(backlog) - 1
      /\ \A a \in 1 .. Len(backlog') : backlog'[a] = backlog[a + 1]
      /\ c = backlog[1]
  BY SMT, <1>1, <1>2 DEF NetInv, NetTypes, Accepts, Accepted
<1>5. c = Len(fds) + 1 /\ Len(fds) \in Nat
  BY SMT, <1>4, EntriesAreClients DEF PollIInv, OrderInv
<1>6. e \in [fd : Nat, events : SUBSET Flags]
  BY <1>2, ClientsAreNumbered DEF Flags
<1>7. /\ fds' \in Seq([fd : Nat, events : SUBSET Flags]) /\ Len(fds') = Len(fds) + 1
      /\ fds'[c] = e /\ \A k \in 1 .. Len(fds) : fds'[k] = fds[k]
      /\ revents' \in Seq(SUBSET Flags) /\ Len(revents') = Len(fds')
      /\ revents'[c] = {} /\ \A k \in 1 .. Len(fds) : revents'[k] = revents[k]
  <2> HIDE DEF e
  <2>1. fds \in Seq([fd : Nat, events : SUBSET Flags]) /\ revents \in Seq(SUBSET Flags)
        /\ Len(revents) = Len(fds)
    BY DEF PollIInv, PollOwnTypes
  <2> QED BY SMT, <1>1, <1>5, <1>6, <2>1
<1>8. \A d \in Clients : srv'[d] = IF d = c THEN "open" ELSE srv[d]
  BY <1>1, <1>2 DEF Accepts, NetInv, NetTypes
<1>9. OrderInv'
  <2>1. Len(fds') + Len(backlog') <= NumClients
    BY SMT, <1>4, <1>5, <1>7 DEF PollIInv, OrderInv
  <2>2. \A a \in 1 .. Len(backlog') : backlog'[a] = Len(fds') + a
    BY SMT, <1>4, <1>5, <1>7 DEF PollIInv, OrderInv
  <2>3. \A d \in Clients : peer'[d] = "idle" <=> d > Len(fds') + Len(backlog')
    BY SMT, <1>1, <1>4, <1>5, <1>7, ClientsAreNumbered DEF PollIInv, OrderInv
  <2>4. ASSUME NEW k \in 1 .. Len(fds')
        PROVE  (fds'[k].fd = k /\ srv'[k] = "open") \/ fds'[k] = [fd |-> NoClient, events |-> {}]
    <3>1. CASE k = c
      BY <3>1, <1>2, <1>7, <1>8
    <3>2. CASE k # c
      <4>1. k \in 1 .. Len(fds) /\ k \in Clients
        BY SMT, <3>2, <1>5, <1>7, EntriesAreClients
      <4> QED BY <4>1, <3>2, <1>7, <1>8 DEF PollIInv, OrderInv
    <3> QED BY <3>1, <3>2
  <2> QED BY <2>1, <2>2, <2>3, <2>4 DEF OrderInv
<1>10. PollOwnTypes'
  BY <1>1, <1>7 DEF PollIInv, PollOwnTypes
<1>11. RoundInv'
  <2>1. entry' \in 1 .. Len(fds') + 1
    BY SMT, <1>1, <1>5, <1>7 DEF PollIInv, RoundInv
  <2>2. ASSUME NEW k \in 1 .. Len(fds'), k >= entry PROVE Reported(k)'
    <3>1. CASE k = c
      BY <3>1, <1>7 DEF Reported
    <3>2. CASE k # c
      <4>1. k \in 1 .. Len(fds)
        BY SMT, <3>2, <1>5, <1>7
      <4> QED BY <4>1, <2>2, <1>1, <1>7 DEF PollIInv, RoundInv, Reported, Gone
    <3> QED BY <3>1, <3>2
  <2> QED BY <1>1, <2>1, <2>2 DEF RoundInv
<1> QED BY <1>3, <1>9, <1>10, <1>11 DEF PollIInv

\* The steps of the round that change no entry.
LEMMA PollUnwritten ==
    ASSUME PollIInv, PollSkip \/ Check \/ PollRead \/ ReadEnds \/ NoWrite
    PROVE  PollIInv'
<1>1. /\ UNCHANGED <<peer, backlog, srv, sent, faults, ended, fds, revents>>
      /\ UNCHANGED got \/ (ppc = "read" /\ Receives(fds[entry].fd))
  BY Zenon DEF PollSkip, Check, PollRead, ReadEnds, NoWrite, net, pollOwn
<1>2. got' \in [Clients -> Nat]
  <2>1. got \in [Clients -> Nat] /\ sent \in [Clients -> Nat]
    BY DEF PollIInv, NetInv, NetTypes
  <2>2. CASE ppc = "read" /\ Receives(fds[entry].fd)
    <3>1. entry \in Clients /\ fds[entry].fd = entry
      BY <2>2, EntriesAreClients DEF PollIInv, RoundInv
    <3>2. PICK n \in got[entry] + 1 .. sent[entry] : got' = [got EXCEPT ![entry] = n]
      BY <2>2, <3>1 DEF Receives
    <3>3. got[entry] \in Nat /\ sent[entry] \in Nat
      BY <2>1, <3>1
    <3>4. n \in Nat
      BY SMT, <3>2, <3>3
    <3> QED BY <2>1, <3>2, <3>4
  <2> QED BY <1>1, <2>1, <2>2
<1>3. NetInv'
  BY <1>1, <1>2, CallKeepsQueue DEF PollIInv, NetInv, NetTypes
<1>4. \A d \in Clients : (peer'[d] = "idle" <=> peer[d] = "idle") /\ (Gone(d) => Gone(d)')
  BY <1>1 DEF Gone
<1>5. entry \in Nat /\ Len(fds) \in Nat /\ (ppc # "wait" => entry \in 1 .. Len(fds) + 1)
  BY EntriesAreClients DEF PollIInv, PollOwnTypes, RoundInv
<1>6. CASE PollSkip
  <2>1. ppc = "check" /\ ppc' = ppc /\ entry' = entry + 1 /\ entry <= Len(fds)
    BY <1>6 DEF PollSkip, InCheck
  <2>2. entry' \in 1 .. Len(fds) + 1 /\ entry' >= entry
    BY SMT, <1>5, <2>1
  <2> QED BY <1>1, <1>3, <1>4, <2>1, <2>2, PollMoves
<1>7. CASE Check
  <2>1. /\ ppc = "check" /\ ppc' \in {"read", "write"} /\ entry' = entry /\ entry <= Len(fds)
        /\ revents[entry] # {}
    BY <1>7 DEF Check, InCheck
  <2>2. entry \in 1 .. Len(fds)
    BY SMT, <1>5, <2>1
  <2>3. fds[entry].fd = entry
    BY SMT, <1>5, <2>1, <2>2 DEF PollIInv, RoundInv, Reported
  <2>4. entry' \in 1 .. Len(fds) + 1 /\ entry' >= entry
    BY SMT, <1>5, <2>1, <2>2
  <2> QED BY <1>1, <1>3, <1>4, <2>1, <2>3, <2>4, PollMoves
<1>8. CASE PollRead \/ ReadEnds
  <2>1. ppc = "read" /\ ppc' \in {"read", "write"} /\ entry' = entry
    BY <1>8 DEF PollRead, ReadEnds, pollOwn
  <2>2. fds[entry].fd = entry /\ entry <= Len(fds) /\ entry' \in 1 .. Len(fds) + 1
          /\ entry' >= entry
    BY SMT, <1>5, <2>1 DEF PollIInv, RoundInv
  <2> QED BY <1>1, <1>3, <1>4, <2>1, <2>2, PollMoves
<1>9. CASE NoWrite
  <2>1. ppc = "write" /\ ppc' = "check" /\ entry' = entry + 1
    BY <1>9 DEF NoWrite
  <2>2. entry' \in 1 .. Len(fds) + 1 /\ entry' >= entry
    BY SMT, <1>5, <2>1 DEF PollIInv, RoundInv
  <2> QED BY <1>1, <1>3, <1>4, <2>1, <2>2, PollMoves
<1> QED BY <1>6, <1>7, <1>8, <1>9

\* A call that fails ends the process, as an overrun of the table may.
LEMMA PollExits ==
    ASSUME PollIInv, PollAcceptFails \/ PollReadFails \/ WriteFails \/ Overrun
    PROVE  /\ PollIInv' /\ ~ ended /\ ended' = TRUE /\ Here' = Here
           /\ UNCHANGED <<srv, ppc, entry, fds, revents>>
<1>1. /\ ~ ended /\ ended' = TRUE
      /\ UNCHANGED <<backlog, srv, sent, got, ppc, entry, fds, revents>>
      /\ UNCHANGED faults \/ faults' = faults + 1
      /\ UNCHANGED peer \/ (ppc \in {"read", "write"} /\ ErrorTaken(fds[entry].fd))
  BY Zenon DEF PollAcceptFails, PollReadFails, WriteFails, Overrun, Exit, Fails, Refuses
<1>2. /\ peer' \in [Clients -> {"idle", "open", "closed", "reset", "dead"}] /\ Here' = Here
      /\ \A d \in Clients : peer'[d] = "idle" <=> peer[d] = "idle"
      /\ \A d \in Clients : Gone(d) => Gone(d)'
  <2>1. CASE UNCHANGED peer
    BY Zenon, <2>1 DEF PollIInv, NetInv, NetTypes, Here, Gone
  <2>2. CASE ppc \in {"read", "write"} /\ ErrorTaken(fds[entry].fd)
    <3>1. entry \in Clients /\ ErrorTaken(entry)
      BY <2>2, EntriesAreClients DEF PollIInv, RoundInv
    <3> QED BY <3>1, CallsKeepPeer, GoneForGood DEF PollIInv
  <2> QED BY <1>1, <2>1, <2>2
<1>3. NetInv'
  <2>1. faults' \in Nat
    BY SMT, <1>1 DEF PollIInv, NetInv, NetTypes
  <2> QED BY <1>1, <1>2, <2>1, CallKeepsQueue DEF PollIInv, NetInv, NetTypes
<1>4. entry' >= entry /\ Len(fds) \in Nat
  BY SMT, <1>1, EntriesAreClients DEF PollIInv, PollOwnTypes
<1>5. PollIInv'
  BY <1>1, <1>2, <1>3, <1>4, PollMoves DEF PollIInv, PollOwnTypes, RoundInv
<1> QED BY <1>1, <1>2, <1>5

\* A step that writes the entry at hand, or clears it, keeps the others.
LEMMA EntryWritten ==
    ASSUME PollIInv, entry \in 1 .. Len(fds), fds[entry].fd = entry,
           NEW e \in [fd : Nat, events : SUBSET Flags], fds' = [fds EXCEPT ![entry] = e],
           NetInv', UNCHANGED <<backlog, revents>>,
           \A d \in Clients : peer'[d] = "idle" <=> peer[d] = "idle",
           \A d \in Clients : Gone(d) => Gone(d)',
           \/ e.fd = entry /\ srv' = srv
           \/ /\ e = [fd |-> NoClient, events |-> {}]
              /\ \A d \in Clients : d # entry => srv'[d] = srv[d],
           \/ /\ entry' = entry /\ ppc' = "write"
              /\ e.fd = entry /\ fds[entry].events \subseteq e.events
           \/ entry' = entry + 1 /\ ppc' = "check"
    PROVE  PollIInv'
<1>1. /\ fds \in Seq([fd : Nat, events : SUBSET Flags]) /\ Len(fds) \in Nat /\ entry \in Nat
      /\ 1 .. Len(fds) \subseteq Clients
  BY EntriesAreClients DEF PollIInv, PollOwnTypes
<1>2. /\ fds' \in Seq([fd : Nat, events : SUBSET Flags]) /\ Len(fds') = Len(fds)
      /\ fds'[entry] = e
      /\ \A k \in 1 .. Len(fds) : k # entry => fds'[k] = fds[k]
  BY <1>1, SMT
<1>3. srv[entry] = "open"
  BY <1>1, ClientsAreNumbered DEF PollIInv, OrderInv
<1>4. OrderInv'
  <2>1. ASSUME NEW k \in 1 .. Len(fds)
        PROVE  (fds'[k].fd = k /\ srv'[k] = "open") \/ fds'[k] = [fd |-> NoClient, events |-> {}]
    <3>1. CASE k = entry
      BY <3>1, <1>2, <1>3
    <3>2. CASE k # entry
      BY <3>2, <1>1, <1>2 DEF PollIInv, OrderInv
    <3> QED BY <3>1, <3>2
  <2>2. /\ Len(fds') + Len(backlog') <= NumClients
        /\ \A a \in 1 .. Len(backlog') : backlog'[a] = Len(fds') + a
        /\ \A c \in Clients : peer'[c] = "idle" <=> c > Len(fds') + Len(backlog')
    BY <1>2, Zenon DEF PollIInv, OrderInv
  <2> QED BY <1>2, <2>1, <2>2 DEF OrderInv
<1>5. PollOwnTypes'
  BY <1>1, <1>2 DEF PollIInv, PollOwnTypes
<1>6. \A k \in 1 .. Len(fds) : k >= entry' => Reported(k)'
  <2> SUFFICES ASSUME NEW k \in 1 .. Len(fds), k >= entry' PROVE Reported(k)'
    OBVIOUS
  <2>1. k \in Clients /\ k >= entry
    <3>1. k \in Clients /\ k \in Nat
      BY <1>1
    <3>2. entry' = entry \/ entry' = entry + 1
      OBVIOUS
    <3> QED BY SMT, <1>1, <3>1, <3>2
  <2>2. Reported(k) /\ (Gone(k) => Gone(k)')
    BY <2>1 DEF PollIInv, RoundInv
  <2>3. CASE k = entry
    <3>1. entry' = entry
      BY SMT, <2>3, <1>1
    <3> QED BY SMT, <2>2, <2>3, <3>1, <1>1, <1>2 DEF Reported
  <2>4. CASE k # entry
    BY <2>2, <2>4, <1>2 DEF Reported
  <2> QED BY <2>3, <2>4
<1>7. RoundInv'
  <2>1. entry' \in 1 .. Len(fds') + 1 /\ ppc' # "wait"
    BY SMT, <1>1, <1>2
  <2>2. ppc' \in {"read", "write"} => entry' <= Len(fds') /\ fds'[entry'].fd = entry'
    BY SMT, <1>1, <1>2
  <2> QED BY <1>2, <1>6, <2>1, <2>2, Zenon DEF RoundInv
<1> QED BY <1>4, <1>5, <1>7 DEF PollIInv

\* A hangup closes the connection and clears the entry.
LEMMA PollDropStep == ASSUME PollIInv, PollDrop PROVE PollIInv'
<1>1. /\ Closes(fds[entry].fd) /\ fds' = [fds EXCEPT ![entry] = [fd |-> NoClient, events |-> {}]]
      /\ ppc = "check" /\ ppc' = ppc /\ entry' = entry + 1
      /\ revents[entry] # {} /\ entry <= Len(fds)
      /\ UNCHANGED <<peer, backlog, sent, got, faults, ended, revents>>
  BY DEF PollDrop, InCheck
<1>2. entry \in 1 .. Len(fds) /\ entry \in Clients
  BY <1>1, EntriesAreClients DEF PollIInv, RoundInv
<1>3. fds[entry].fd = entry
  BY SMT, <1>1, <1>2 DEF PollIInv, RoundInv, Reported
<1>4. srv[entry] = "open" /\ NetInv
  BY <1>2, <1>3, ClientsAreNumbered DEF PollIInv, OrderInv
<1>5. NetInv'
  BY <1>1, <1>2, <1>3, <1>4, CloseReleases, CallKeepsQueue DEF NetInv, NetTypes
<1>6. \A d \in Clients : d # entry => srv'[d] = srv[d]
  BY <1>1, <1>2, <1>3, <1>4 DEF Closes, NetInv, NetTypes
<1>7. [fd |-> NoClient, events |-> {}] \in [fd : Nat, events : SUBSET Flags]
  BY DEF NoClient
<1>8. \A d \in Clients : (peer'[d] = "idle" <=> peer[d] = "idle") /\ (Gone(d) => Gone(d)')
  BY <1>1 DEF Gone
<1> QED BY <1>1, <1>2, <1>3, <1>5, <1>6, <1>7, <1>8, EntryWritten

\* EAGAIN and an answer change the events the entry asks for.
LEMMA PollWriteStep == ASSUME PollIInv, ReadBlocks \/ Write PROVE PollIInv'
<1> DEFINE c == fds[entry].fd
<1>1. ppc \in {"read", "write"} /\ UNCHANGED <<backlog, srv, sent, got, faults, ended, revents>>
  BY Zenon DEF ReadBlocks, Write, net
<1>2. entry \in 1 .. Len(fds) /\ entry \in Clients /\ fds[entry].fd = entry
      /\ fds[entry] \in [fd : Nat, events : SUBSET Flags]
  BY <1>1, EntriesAreClients DEF PollIInv, RoundInv
<1>3. UNCHANGED peer \/ Takes(entry)
  BY <1>2 DEF ReadBlocks, Write, net
<1>4. /\ peer' \in [Clients -> {"idle", "open", "closed", "reset", "dead"}]
      /\ \A d \in Clients : peer'[d] = "idle" <=> peer[d] = "idle"
      /\ \A d \in Clients : Gone(d) => Gone(d)'
  BY <1>2, <1>3, CallsKeepPeer, GoneForGood DEF PollIInv
<1>5. NetInv'
  BY <1>1, <1>4, CallKeepsQueue DEF PollIInv, NetInv, NetTypes
<1>6. CASE ReadBlocks
  <2> DEFINE e == [fds[entry] EXCEPT !.events = @ \union {"OUT"}]
  <2>1. fds' = [fds EXCEPT ![entry] = e] /\ entry' = entry /\ ppc' = "write"
    BY <1>6 DEF ReadBlocks
  <2>2. e \in [fd : Nat, events : SUBSET Flags] /\ e.fd = entry
          /\ fds[entry].events \subseteq e.events
    BY <1>2 DEF Flags
  <2> HIDE DEF e
  <2> QED BY <1>1, <1>2, <1>4, <1>5, <2>1, <2>2, EntryWritten
<1>7. CASE Write
  <2> DEFINE e == [fds[entry] EXCEPT !.events = {}]
  <2>1. fds' = [fds EXCEPT ![entry] = e] /\ entry' = entry + 1 /\ ppc' = "check"
    BY <1>7 DEF Write
  <2>2. e \in [fd : Nat, events : SUBSET Flags] /\ e.fd = entry
    BY <1>2
  <2> HIDE DEF e
  <2> QED BY <1>1, <1>2, <1>4, <1>5, <2>1, <2>2, EntryWritten
<1> QED BY <1>6, <1>7

\* The clients connect in order, and do not come back.
LEMMA PollClientKeeps == ASSUME PollIInv, ClientStep, UNCHANGED pollOwn PROVE PollIInv'
<1>1. PICK c \in Clients : Connect(c) \/ Send(c) \/ Leave(c)
  BY DEF ClientStep
<1>2. NetInv /\ NetInv' /\ UNCHANGED <<srv, ppc, entry, fds, revents>>
  BY Zenon, <1>1, ConnectQueues, OthersKeepQueue DEF PollIInv, Connect, Send, Leave, pollOwn
<1>3. c \in Nat /\ Clients = 1 .. NumClients /\ NumClients \in Nat
  BY SocketsAssumption DEF Clients
<1>4. /\ peer \in [Clients -> {"idle", "open", "closed", "reset", "dead"}]
      /\ Len(fds) \in Nat /\ Len(backlog) \in Nat
  BY <1>2, EntriesAreClients DEF NetInv, NetTypes
<1>5. /\ \A d \in Clients : peer[d] = "idle" <=> d > Len(fds) + Len(backlog)
      /\ \A a \in 1 .. Len(backlog) : backlog[a] = Len(fds) + a
  BY Zenon DEF PollIInv, OrderInv
<1>6. CASE Connect(c)
  <2>1. /\ peer[c] = "idle"
        /\ c > 1 => peer[c - 1] # "idle"
        /\ peer' = [peer EXCEPT ![c] = "open"] /\ backlog' = Append(backlog, c)
    BY <1>6 DEF Connect
  <2>2. c = Len(fds) + Len(backlog) + 1
    <3>1. c > Len(fds) + Len(backlog)
      BY <1>5, <2>1
    <3>2. CASE c = 1
      BY SMT, <3>1, <3>2, <1>4
    <3>3. CASE c > 1
      <4>1. c - 1 \in Clients
        BY SMT, <1>3, <3>3
      <4>2. ~ (c - 1 > Len(fds) + Len(backlog))
        BY <1>5, <2>1, <3>3, <4>1
      <4> QED BY SMT, <1>3, <1>4, <3>1, <4>2
    <3> QED BY SMT, <1>3, <3>2, <3>3
  <2>3. /\ Len(backlog') = Len(backlog) + 1 /\ backlog'[Len(backlog) + 1] = c
        /\ \A a \in 1 .. Len(backlog) : backlog'[a] = backlog[a]
    BY SMT, <2>1, <1>2 DEF NetInv, NetTypes
  <2>4. Len(fds') + Len(backlog') <= NumClients
    BY SMT, <1>2, <1>3, <1>4, <2>2, <2>3
  <2>5. \A a \in 1 .. Len(backlog') : backlog'[a] = Len(fds') + a
    <3> SUFFICES ASSUME NEW a \in 1 .. Len(backlog') PROVE backlog'[a] = Len(fds) + a
      BY <1>2
    <3>1. CASE a = Len(backlog) + 1
      BY SMT, <1>4, <2>2, <2>3, <3>1
    <3>2. CASE a # Len(backlog) + 1
      <4>1. a \in 1 .. Len(backlog)
        BY SMT, <1>4, <2>3, <3>2
      <4> QED BY <4>1, <1>5, <2>3
    <3> QED BY <3>1, <3>2
  <2>6. \A d \in Clients : peer'[d] = "idle" <=> d > Len(fds') + Len(backlog')
    BY SMT, <1>2, <1>3, <1>4, <1>5, <2>1, <2>2, <2>3
  <2>7. OrderInv'
    BY <1>2, <2>4, <2>5, <2>6, Zenon DEF PollIInv, OrderInv
  <2>8. \A d \in Clients : Gone(d) => Gone(d)'
    <3>1. \A d \in Clients : peer'[d] = IF d = c THEN "open" ELSE peer[d]
      BY <1>4, <2>1
    <3> QED BY <3>1, <2>1 DEF Gone
  <2>9. \A k \in 1 .. Len(fds) : Reported(k) => Reported(k)'
    BY <1>2, <2>8, EntriesAreClients DEF Reported
  <2> QED BY <1>2, <2>7, <2>9, Zenon DEF PollIInv, PollOwnTypes, RoundInv
<1>7. CASE Send(c) \/ Leave(c)
  <2>1. /\ backlog' = backlog
        /\ UNCHANGED peer \/ \E how \in {"closed", "reset"} :
                               peer[c] = "open" /\ peer' = [peer EXCEPT ![c] = how]
    BY Zenon, <1>7 DEF Send, Leave, Active
  <2>2. \A d \in Clients : (peer'[d] = "idle" <=> peer[d] = "idle") /\ (Gone(d) => Gone(d)')
    BY <1>4, <2>1 DEF Gone
  <2>3. entry' >= entry /\ ppc' \in {"wait", "accept", "check", "read", "write"}
    BY SMT, <1>2 DEF PollIInv, PollOwnTypes
  <2> QED BY <1>2, <2>1, <2>2, <2>3, PollMoves DEF PollIInv, RoundInv
<1> QED BY <1>1, <1>6, <1>7

\* The invariant holds at the start ...
LEMMA PollStarts == ASSUME PollInit PROVE PollIInv
<1>1. NetInv /\ NumClients \in Nat
  BY InitialNet, SocketsAssumption DEF PollInit
<1>2. /\ ppc = "wait" /\ entry = 0 /\ fds = << >> /\ revents = << >> /\ backlog = << >>
      /\ peer = [c \in Clients |-> "idle"]
  BY DEF PollInit, NetInit
<1>3. Len(fds) = 0 /\ Len(revents) = 0 /\ Len(backlog) = 0
  BY <1>2
<1>4. PollOwnTypes
  BY <1>2, <1>3 DEF PollOwnTypes
<1>5. OrderInv
  BY SMT, <1>1, <1>2, <1>3 DEF OrderInv, Clients
<1>6. RoundInv
  BY SMT, <1>2, <1>3 DEF RoundInv
<1> QED BY <1>1, <1>4, <1>5, <1>6 DEF PollIInv

\* ... and is kept by every step.
LEMMA PollStepKeeps == ASSUME PollIInv, [PollNext]_pollVars PROVE PollIInv'
<1>1. CASE PollLoop \/ Overrun
  BY <1>1, PollWaitStep, PollAdmitStep, PollUnwritten, PollExits, PollDropStep, PollWriteStep,
       CheckedStep DEF PollLoop
<1>2. CASE ClientStep /\ UNCHANGED pollOwn
  BY <1>2, PollClientKeeps
<1>3. CASE UNCHANGED pollVars
  <2>1. UNCHANGED <<net, ppc, entry, fds, revents, peer, backlog, srv>>
    BY <1>3 DEF pollVars, net, pollOwn
  <2>2. NetInv'
    BY <2>1, NetUnchanged DEF PollIInv
  <2>3. OrderInv' /\ RoundInv' /\ PollOwnTypes'
    BY Zenon, <2>1 DEF PollIInv, OrderInv, RoundInv, PollOwnTypes, Reported, Gone
  <2> QED BY <2>2, <2>3 DEF PollIInv
<1> QED BY <1>1, <1>2, <1>3 DEF PollNext

\* The invariant holds in every reachable state.
THEOREM PollInductive == PollSpec => []PollIInv
BY PollStarts, PollStepKeeps, PTL DEF PollSpec

-----------------------------------------------------------------------------
(* The refinement. *)

pollOwed == [c \in Clients |-> PollOwed(c)]

\* What is owed is told by the client's own entry.
LEMMA OwedEntry ==
    ASSUME PollIInv, NEW c \in Clients
    PROVE  pollOwed[c] <=> c \in 1 .. Len(fds) /\ fds[c].fd = c /\ "OUT" \in fds[c].events
<1>1. pollOwed[c] <=> \E k \in 1 .. Len(fds) : fds[k].fd = c /\ "OUT" \in fds[k].events
  BY EntriesAreClients DEF pollOwed, PollOwed
<1>2. \A k \in 1 .. Len(fds) : fds[k].fd = k \/ fds[k].fd = NoClient
  BY DEF PollIInv, OrderInv
<1> QED BY <1>1, <1>2, ClientsAreNumbered

\* The steps that EchoService does not see.
LEMMA PollUnseenSteps ==
    ASSUME PollIInv, PollWait \/ Checked \/ PollSkip \/ Check \/ PollRead \/ ReadEnds \/ NoWrite
    PROVE  UNCHANGED <<Here, Phase, pollOwed, ended>>
<1>1. UNCHANGED <<peer, srv, ended, fds>>
  BY Zenon DEF PollWait, Checked, PollSkip, Check, PollRead, ReadEnds, NoWrite, net, pollOwn
<1> QED BY Zenon, <1>1 DEF Here, Phase, pollOwed, PollOwed

\* What the entry at hand asks for is what is owed to its client.
LEMMA OwedWritten ==
    ASSUME PollIInv, entry \in 1 .. Len(fds), fds[entry].fd = entry, PollIInv',
           NEW e, fds' = [fds EXCEPT ![entry] = e], e.fd = entry \/ e.events = {}
    PROVE  /\ entry \in Clients /\ Phase[entry] = "served"
           /\ pollOwed' = [pollOwed EXCEPT ![entry] = ("OUT" \in e.events)]
<1>1. /\ 1 .. Len(fds) \subseteq Clients /\ entry \in Clients /\ srv[entry] = "open"
      /\ fds \in Seq([fd : Nat, events : SUBSET Flags])
  <2>1. 1 .. Len(fds) \subseteq Clients /\ entry \in Clients
    BY EntriesAreClients
  <2>2. srv[entry] = "open"
    BY <2>1, ClientsAreNumbered DEF PollIInv, OrderInv
  <2> QED BY <2>1, <2>2 DEF PollIInv, PollOwnTypes
<1>2. Len(fds') = Len(fds) /\ \A k \in 1 .. Len(fds) : fds'[k] = IF k = entry THEN e ELSE fds[k]
  BY <1>1, SMT
<1>3. ASSUME NEW c \in Clients
      PROVE  pollOwed'[c] = IF c = entry THEN "OUT" \in e.events ELSE pollOwed[c]
  <2>1. pollOwed'[c] <=> c \in 1 .. Len(fds') /\ fds'[c].fd = c /\ "OUT" \in fds'[c].events
    <3>1. /\ \A k \in 1 .. Len(fds') : fds'[k].fd = k \/ fds'[k].fd = NoClient
          /\ fds' \in Seq([fd : Nat, events : SUBSET Flags])
      BY DEF PollIInv, OrderInv, PollOwnTypes
    <3>2. DOMAIN fds' = 1 .. Len(fds')
      BY <3>1
    <3>3. pollOwed'[c] <=> \E k \in 1 .. Len(fds') : fds'[k].fd = c /\ "OUT" \in fds'[k].events
      BY <3>2 DEF pollOwed, PollOwed
    <3> QED BY <3>1, <3>3, ClientsAreNumbered
  <2>2. CASE c = entry
    <3>1. "OUT" \in e.events => e.fd = entry
      OBVIOUS
    <3>2. fds'[c] = e /\ c \in 1 .. Len(fds')
      BY <1>2, <2>2
    <3>3. pollOwed'[c] \in BOOLEAN
      BY Zenon DEF pollOwed, PollOwed
    <3> QED BY <2>1, <2>2, <3>1, <3>2, <3>3
  <2>3. CASE c # entry
    BY <1>2, <2>1, <2>3, OwedEntry DEF pollOwed, PollOwed
  <2> QED BY <2>2, <2>3
<1>4. pollOwed = [d \in Clients |-> pollOwed[d]] /\ pollOwed' = [d \in Clients |-> pollOwed'[d]]
  BY Zenon DEF pollOwed
<1>5. pollOwed' = [pollOwed EXCEPT ![entry] = ("OUT" \in e.events)]
  BY Zenon, <1>1, <1>3, <1>4
<1> QED BY <1>1, <1>5 DEF Phase

\* EAGAIN after what was read is when the server owes an answer.
LEMMA BlockTakes == ASSUME PollIInv, ReadBlocks PROVE \E c \in Clients : PollEcho!Take(c)
<1> DEFINE e == [fds[entry] EXCEPT !.events = @ \union {"OUT"}]
<1>1. ppc = "read" /\ UNCHANGED <<peer, srv, ended>> /\ fds' = [fds EXCEPT ![entry] = e]
  BY DEF ReadBlocks, net
<1>2. entry \in 1 .. Len(fds) /\ fds[entry].fd = entry
        /\ fds[entry] \in [fd : Nat, events : SUBSET Flags]
  BY <1>1, EntriesAreClients DEF PollIInv, RoundInv
<1>3. e.fd = entry /\ "OUT" \in e.events
  BY <1>2
<1>4. PollIInv'
  BY PollWriteStep
<1> HIDE DEF e
<1>5. /\ entry \in Clients /\ Phase[entry] = "served"
      /\ pollOwed' = [pollOwed EXCEPT ![entry] = ("OUT" \in e.events)]
  BY <1>1, <1>2, <1>3, <1>4, OwedWritten
<1>6. Here' = Here /\ Phase' = Phase
  BY Zenon, <1>1 DEF Here, Phase
<1>7. pollOwed' = [pollOwed EXCEPT ![entry] = TRUE]
  BY <1>3, <1>5
<1> QED BY <1>1, <1>5, <1>6, <1>7 DEF PollEcho!Take, pollOwed

\* A write answers.
LEMMA WriteAnswers == ASSUME PollIInv, Write PROVE \E c \in Clients : PollEcho!Answer(c)
<1> DEFINE e == [fds[entry] EXCEPT !.events = {}]
<1>1. /\ ppc = "write" /\ UNCHANGED <<srv, ended>> /\ fds' = [fds EXCEPT ![entry] = e]
      /\ "OUT" \in revents[entry] /\ Takes(fds[entry].fd)
  BY DEF Write
<1>2. entry \in 1 .. Len(fds) /\ fds[entry].fd = entry
        /\ fds[entry] \in [fd : Nat, events : SUBSET Flags]
  BY <1>1, EntriesAreClients DEF PollIInv, RoundInv
<1>3. e.fd = entry /\ e.events = {}
  BY <1>2
<1>4. PollIInv'
  BY PollWriteStep
<1> HIDE DEF e
<1>5. /\ entry \in Clients /\ Phase[entry] = "served"
      /\ pollOwed' = [pollOwed EXCEPT ![entry] = ("OUT" \in e.events)]
  BY <1>1, <1>2, <1>3, <1>4, OwedWritten
<1>6. pollOwed[entry]
  <2>1. "OUT" \in fds[entry].events
    BY SMT, <1>1, <1>2 DEF PollIInv, RoundInv, Reported
  <2> QED BY <1>2, <1>5, <2>1, OwedEntry
<1>7. Here' = Here
  BY <1>1, <1>2, <1>5, CallsKeepPeer DEF PollIInv
<1>8. Phase' = Phase
  BY Zenon, <1>1 DEF Phase
<1>9. pollOwed' = [pollOwed EXCEPT ![entry] = FALSE]
  <2>1. ("OUT" \in e.events) = FALSE
    BY <1>3
  <2> QED BY <1>5, <2>1
<1> QED BY <1>1, <1>5, <1>6, <1>7, <1>8, <1>9 DEF PollEcho!Answer, pollOwed

\* A hangup is reported of a client that has left, and releases it.
LEMMA PollDropReleases == ASSUME PollIInv, PollDrop PROVE \E c \in Clients : PollEcho!Release(c)
<1> DEFINE e == [fd |-> NoClient, events |-> {}]
<1>1. /\ UNCHANGED <<peer, ended>> /\ fds' = [fds EXCEPT ![entry] = e]
      /\ ppc = "check" /\ entry <= Len(fds) /\ Closes(fds[entry].fd)
      /\ revents[entry] \intersect {"HUP", "RDHUP"} # {}
  BY DEF PollDrop, InCheck
<1>2. entry \in 1 .. Len(fds)
  BY <1>1, EntriesAreClients DEF PollIInv, RoundInv
<1>3. Reported(entry)
  BY SMT, <1>2 DEF PollIInv, RoundInv
<1>4. fds[entry].fd = entry /\ Gone(entry)
  BY <1>1, <1>3 DEF Reported
<1>5. PollIInv' /\ e.events = {}
  BY PollDropStep
<1> HIDE DEF e
<1>6. /\ entry \in Clients /\ Phase[entry] = "served"
      /\ pollOwed' = [pollOwed EXCEPT ![entry] = ("OUT" \in e.events)]
  BY <1>1, <1>2, <1>4, <1>5, OwedWritten
<1>7. Here' = Here
  BY Zenon, <1>1 DEF Here
<1>8. Here[entry] = "left" /\ srv[entry] = "open"
  BY <1>4, <1>6, <1>2, ClientsAreNumbered DEF Here, Gone, PollIInv, OrderInv
<1>9. Phase' = [Phase EXCEPT ![entry] = "over"]
  BY <1>1, <1>4, <1>6, <1>8, CloseReleases DEF PollIInv
<1>10. pollOwed' = [pollOwed EXCEPT ![entry] = FALSE]
  <2>1. ("OUT" \in e.events) = FALSE
    BY <1>5
  <2> QED BY <1>6, <2>1
<1> QED BY <1>1, <1>6, <1>7, <1>8, <1>9, <1>10 DEF PollEcho!Release, pollOwed

\* accept admits the client that has waited longest.
LEMMA PollAcceptAdmits == ASSUME PollIInv, PollAdmit PROVE \E c \in Clients : PollEcho!Admit(c)
<1> DEFINE c == Accepted
<1>1. Accepts("open") /\ backlog # << >> /\ ~ ended /\ UNCHANGED <<peer, ended>>
      /\ fds' = Append(fds, [fd |-> c, events |-> {"IN", "RDHUP"}])
  BY DEF PollAdmit, Accepts
<1>2. NetInv /\ c \in Clients /\ fds \in Seq([fd : Nat, events : SUBSET Flags])
        /\ Len(fds) \in Nat
  BY <1>1, HeadIsNew, EntriesAreClients DEF PollIInv, PollOwnTypes
<1>3. Here[c] # "away" /\ Phase[c] = "new" /\ Phase' = [Phase EXCEPT ![c] = "served"]
  BY <1>1, <1>2, AcceptDecides
<1>4. Here' = Here
  BY Zenon, <1>1 DEF Here
<1>5. pollOwed' = pollOwed
  <2> DEFINE e == [fd |-> c, events |-> {"IN", "RDHUP"}]
  <2>1. e \in [fd : Nat, events : SUBSET Flags] /\ "OUT" \notin e.events
    BY <1>2, ClientsAreNumbered DEF Flags
  <2>2. fds' = Append(fds, e)
    BY <1>1
  <2> HIDE DEF e
  <2>3. /\ Len(fds') = Len(fds) + 1 /\ fds'[Len(fds) + 1] = e
        /\ DOMAIN fds' = 1 .. Len(fds) + 1 /\ DOMAIN fds = 1 .. Len(fds)
        /\ \A k \in 1 .. Len(fds) : fds'[k] = fds[k]
    BY SMT, <1>2, <2>1, <2>2
  <2>4. ASSUME NEW d \in Clients PROVE PollOwed(d)' <=> PollOwed(d)
    <3>1. PollOwed(d) <=> \E k \in 1 .. Len(fds) : fds[k].fd = d /\ "OUT" \in fds[k].events
      BY <2>3 DEF PollOwed
    <3>2. PollOwed(d)' <=> \E k \in 1 .. Len(fds) + 1 : fds'[k].fd = d /\ "OUT" \in fds'[k].events
      BY <2>3 DEF PollOwed
    <3>3. \A k \in 1 .. Len(fds) + 1 : k = Len(fds) + 1 \/ k \in 1 .. Len(fds)
      BY SMT, <1>2
    <3>4. 1 .. Len(fds) \subseteq 1 .. Len(fds) + 1
      BY SMT, <1>2
    <3>5. ASSUME NEW k \in 1 .. Len(fds) + 1, fds'[k].fd = d, "OUT" \in fds'[k].events
          PROVE  \E l \in 1 .. Len(fds) : fds[l].fd = d /\ "OUT" \in fds[l].events
      <4>1. k # Len(fds) + 1
        BY <2>1, <2>3, <3>5
      <4>2. k \in 1 .. Len(fds)
        BY <3>3, <4>1
      <4> QED BY <2>3, <3>5, <4>2
    <3>6. ASSUME NEW k \in 1 .. Len(fds), fds[k].fd = d, "OUT" \in fds[k].events
          PROVE  \E l \in 1 .. Len(fds) + 1 : fds'[l].fd = d /\ "OUT" \in fds'[l].events
      BY <2>3, <3>4, <3>6
    <3> QED BY Zenon, <3>1, <3>2, <3>5, <3>6
  <2>5. \A d \in Clients : PollOwed(d)' = PollOwed(d)
    BY Zenon, <2>4 DEF PollOwed
  <2> QED BY Zenon, <2>5 DEF pollOwed
<1> QED BY <1>1, <1>2, <1>3, <1>4, <1>5 DEF PollEcho!Admit, pollOwed

\* The clients come, leave, and send unseen.
LEMMA PollClientImplements == ASSUME PollIInv, ClientStep, UNCHANGED pollOwn
                              PROVE  \/ \E c \in Clients : PollEcho!Arrive(c) \/ PollEcho!Leave(c)
                                     \/ UNCHANGED <<Here, Phase, pollOwed, ended>>
<1>1. PICK c \in Clients : Connect(c) \/ Send(c) \/ Leave(c)
  BY DEF ClientStep
<1>2. UNCHANGED ended /\ NetInv
  BY Zenon, <1>1 DEF Connect, Send, Leave, PollIInv
<1>3. pollOwed' = pollOwed
  BY Zenon DEF pollOwed, PollOwed, pollOwn
<1>4. CASE Connect(c)
  BY <1>2, <1>3, <1>4, ConnectArrives DEF PollEcho!Arrive, pollOwed
<1>5. CASE Leave(c)
  BY <1>2, <1>3, <1>5, LeaveLeaves DEF PollEcho!Leave, pollOwed
<1>6. CASE Send(c)
  BY <1>2, <1>3, <1>6, SendIsUnseen
<1> QED BY <1>1, <1>4, <1>5, <1>6

\* It starts as EchoService does ...
LEMMA PollStartsEcho == ASSUME PollInit PROVE PollEcho!Init
<1>1. /\ peer = [c \in Clients |-> "idle"] /\ srv = [c \in Clients |-> "none"] /\ ended = FALSE
      /\ fds = << >>
  BY DEF PollInit, NetInit
<1>2. Here = [c \in Clients |-> "away"] /\ Phase = [c \in Clients |-> "new"]
  BY <1>1 DEF Here, Phase
<1>3. pollOwed = [c \in Clients |-> FALSE]
  BY <1>1 DEF pollOwed, PollOwed
<1> QED BY <1>1, <1>2, <1>3 DEF PollEcho!Init, pollOwed

\* ... and takes one of its steps, or none, with each of its own.
LEMMA PollStepIsEcho == ASSUME PollIInv, [PollNext]_pollVars
                        PROVE  PollEcho!Next \/ UNCHANGED <<Here, Phase, pollOwed, ended>>
<1>1. CASE PollAcceptFails \/ PollReadFails \/ WriteFails \/ Overrun
  <2>1. ~ ended /\ ended' = TRUE /\ Here' = Here /\ UNCHANGED <<srv, fds>>
    BY <1>1, PollExits
  <2>2. Phase' = Phase /\ pollOwed' = pollOwed
    BY Zenon, <2>1 DEF Phase, pollOwed, PollOwed
  <2> QED BY <2>1, <2>2 DEF PollEcho!Next, PollEcho!Stop, pollOwed
<1>2. CASE PollLoop
  BY <1>1, <1>2, PollUnseenSteps, PollAcceptAdmits, PollDropReleases, BlockTakes, WriteAnswers
     DEF PollLoop, PollEcho!Next
<1>3. CASE ClientStep /\ UNCHANGED pollOwn
  BY <1>3, PollClientImplements DEF PollEcho!Next
<1>4. CASE UNCHANGED pollVars
  <2>1. UNCHANGED <<peer, srv, ended, fds>>
    BY <1>4 DEF pollVars, net, pollOwn
  <2> QED BY Zenon, <2>1 DEF Here, Phase, pollOwed, PollOwed
<1> QED BY <1>1, <1>2, <1>3, <1>4 DEF PollNext

\* The poll server implements EchoService: nobody is answered before a request
\* was read, admitted twice, or given up while still there.
THEOREM PollImplementsEcho == PollSpec => PollImplementsEchoService
<1>1. PollIInv /\ [PollNext]_pollVars => [PollEcho!Next]_PollEcho!vars
  BY PollStepIsEcho DEF PollEcho!vars, pollOwed
<1> QED BY <1>1, PollStartsEcho, PollInductive, PTL DEF PollSpec, PollEcho!Spec,
      PollImplementsEchoService

-----------------------------------------------------------------------------
(* The types and the end of the process. *)

PollRest == Bounds /\ PollEndsOnlyFor

\* The process ends only for an error of a call on a client that has left, a
\* failed accept, or an overrun of its table.
LEMMA PollRestKept == ASSUME PollIInv, PollRest, [PollNext]_pollVars PROVE PollRest'
<1>1. ASSUME PollLoop \/ Overrun
      PROVE  /\ Counts
             /\ \/ UNCHANGED ended /\ ~ ended
                \/ faults' > 0 \/ Len(fds') > PollSlots
                \/ \E c \in Clients : peer'[c] = "dead"
  <2>1. CASE PollRead
    <3>1. fds[entry].fd \in Clients
      BY <2>1, EntriesAreClients DEF PollRead, PollIInv, RoundInv
    <3> QED BY <2>1, <3>1 DEF PollRead, Counts
  <2>2. CASE PollReadFails \/ WriteFails
    <3>1. entry \in Clients /\ fds[entry].fd = entry
      BY <2>2, EntriesAreClients DEF PollReadFails, WriteFails, PollIInv, RoundInv
    <3>2. peer[entry] = "reset" /\ ErrorTaken(entry)
      BY <2>2, <3>1 DEF PollReadFails, WriteFails, AtError, Refuses
    <3>3. peer'[entry] = "dead"
      BY <3>1, <3>2 DEF ErrorTaken, PollIInv, NetInv, NetTypes
    <3> QED BY <2>2, <3>1, <3>3 DEF PollReadFails, WriteFails, Counts
  <2>3. CASE PollAcceptFails
    <3>1. faults' > 0
      BY <2>3 DEF PollAcceptFails, Fails, PollIInv, NetInv, NetTypes
    <3> QED BY <2>3, <3>1 DEF PollAcceptFails, Counts
  <2>4. CASE Overrun
    BY <2>4 DEF Overrun, Exit, Counts
  <2>5. CASE \/ PollWait \/ PollAdmit \/ PollSkip \/ PollDrop \/ Check \/ ReadBlocks \/ ReadEnds
             \/ NoWrite \/ Write \/ Checked
    BY <2>5, Zenon DEF PollWait, PollAdmit, PollSkip, PollDrop, Check, ReadBlocks, ReadEnds,
                       NoWrite, Write, Checked, InCheck, net, Counts
  <2> QED BY <1>1, <2>1, <2>2, <2>3, <2>4, <2>5 DEF PollLoop
<1>2. CASE PollLoop \/ Overrun
  BY <1>1, <1>2, BoundsKept DEF PollIInv, PollRest, PollEndsOnlyFor
<1>3. CASE ~ ended /\ ClientStep /\ UNCHANGED pollOwn
  BY <1>3, ClientsCount, BoundsKept DEF PollIInv, PollRest, PollEndsOnlyFor
<1>4. CASE UNCHANGED pollVars
  BY <1>4, BoundsKept DEF PollIInv, PollRest, PollEndsOnlyFor, Counts, pollVars, net, pollOwn
<1> QED BY <1>2, <1>3, <1>4 DEF PollNext

\* It holds at the start.
LEMMA PollRestStarts == ASSUME PollInit PROVE PollRest
BY InitialBounds DEF PollInit, NetInit, PollRest, PollEndsOnlyFor

\* With it every variable has its type.
LEMMA PollTypes == PollIInv /\ PollRest => PollTypeOK
<1> SUFFICES ASSUME PollIInv, PollRest PROVE PollTypeOK
  OBVIOUS
<1>1. entry \in 0 .. NumClients + 1
  <2>1. Len(fds) <= NumClients /\ Len(fds) \in Nat /\ NumClients \in Nat
    <3>1. Len(fds) + Len(backlog) <= NumClients
      BY Zenon DEF PollIInv, OrderInv
    <3> QED BY SMT, <3>1, EntriesAreClients
  <2>2. entry = 0 \/ entry \in 1 .. Len(fds) + 1
    BY DEF PollIInv, RoundInv
  <2> QED BY SMT, <2>1, <2>2
<1>2. fds \in Seq([fd : Clients \union {NoClient}, events : SUBSET Flags])
  <2>1. \A k \in 1 .. Len(fds) : fds[k] \in [fd : Clients \union {NoClient},
          events : SUBSET Flags]
    <3> SUFFICES ASSUME NEW k \in 1 .. Len(fds)
                 PROVE  fds[k] \in [fd : Clients \union {NoClient}, events : SUBSET Flags]
      OBVIOUS
    <3>1. fds[k] \in [fd : Nat, events : SUBSET Flags] /\ k \in Clients
      BY EntriesAreClients
    <3>2. fds[k].fd \in Clients \union {NoClient}
      BY <3>1 DEF PollIInv, OrderInv
    <3> QED BY <3>1, <3>2
  <2>2. fds \in [1 .. Len(fds) -> [fd : Nat, events : SUBSET Flags]] /\ Len(fds) \in Nat
    BY EntriesAreClients DEF PollIInv, PollOwnTypes
  <2>3. fds \in [1 .. Len(fds) -> [fd : Clients \union {NoClient}, events : SUBSET Flags]]
    BY <2>1, <2>2, Zenon
  <2>4. Seq([fd : Clients \union {NoClient}, events : SUBSET Flags])
          = UNION {[1 .. n -> [fd : Clients \union {NoClient}, events : SUBSET Flags]]
                     : n \in Nat}
    BY SeqDef
  <2>5. \E n \in Nat : fds \in [1 .. n -> [fd : Clients \union {NoClient}, events : SUBSET Flags]]
    BY <2>2, <2>3, Zenon
  <2> QED BY <2>4, <2>5, Zenon
<1> QED BY <1>1, <1>2, BoundsAreTypes DEF PollIInv, PollOwnTypes, PollRest, PollTypeOK

\* PollEndsOnlyFor, in every reachable state.
THEOREM PollEndsForReason == PollSpec => []PollEndsOnlyFor
<1>1. PollInit => PollIInv /\ PollRest
  BY PollStarts, PollRestStarts
<1>2. PollIInv /\ PollRest /\ [PollNext]_pollVars => (PollIInv /\ PollRest)'
  BY PollStepKeeps, PollRestKept
<1>3. PollRest => PollEndsOnlyFor
  BY DEF PollRest
<1> QED BY <1>1, <1>2, <1>3, PTL DEF PollSpec

-----------------------------------------------------------------------------
(* Why the poll server goes on: its entries ask for what their clients do, *)
(* and what poll reports of them can be done.                              *)

\* The guard of the server's next step.
PollGoes ==
    \/ ppc = "wait" /\ (backlog # << >> \/ \E k \in DOMAIN fds : PollReady(fds[k]) # {})
    \/ ppc = "accept" /\ backlog # << >>
    \/ ppc \in {"check", "read"}
    \/ ppc = "write" /\ ("OUT" \in revents[entry] => peer[fds[entry].fd] \notin {"idle", "dead"})

\* An entry asks for its client's data and hangup until it has been answered.
Heard(k) ==
    \/ fds[k].fd # k /\ srv[k] = "closed"
    \/ fds[k].events = {} /\ got[k] > 0
    \/ /\ {"IN", "RDHUP"} \subseteq fds[k].events
       /\ peer[k] # "dead"
       /\ "OUT" \in fds[k].events => got[k] > 0

\* POLLIN without a hangup is reported for data.
Fresh(k) == "IN" \in revents[k] =>
                /\ "IN" \in fds[k].events
                /\ revents[k] \intersect {"HUP", "RDHUP"} = {} => sent[k] > 0

PollFresh ==
    /\ ppc = "accept" => backlog # << >>
    /\ ~ ended => \A k \in 1 .. Len(fds) : Heard(k)
    /\ \A k \in 1 .. Len(fds) : k >= entry => Fresh(k)
    /\ ppc = "read" => sent[entry] > 0 /\ "IN" \in fds[entry].events

\* A step that neither writes the entry nor closes its socket.
LEMMA HeardKept ==
    ASSUME PollIInv, NEW k \in 1 .. Len(fds), fds'[k] = fds[k], srv'[k] = srv[k],
           got'[k] \in Nat, got'[k] >= got[k], peer'[k] = "dead" => peer[k] = "dead"
    PROVE  Heard(k) => Heard(k)'
<1>1. got[k] \in Nat
  BY EntriesAreClients DEF PollIInv, NetInv, NetTypes
<1>2. got[k] > 0 => got'[k] > 0
  BY <1>1
<1> QED BY <1>2 DEF Heard

\* read takes data only from its entry, and only adds to what was read.
LEMMA PollReadsOn ==
    ASSUME PollIInv, ppc = "read", Receives(fds[entry].fd)
    PROVE  \A d \in Clients : got'[d] \in Nat /\ got'[d] >= got[d]
<1>1. entry \in Clients /\ fds[entry].fd = entry
  BY EntriesAreClients DEF PollIInv, RoundInv
<1>2. PICK n \in got[entry] + 1 .. sent[entry] : got' = [got EXCEPT ![entry] = n]
  BY <1>1 DEF Receives
<1>3. \A d \in Clients : got[d] \in Nat /\ sent[d] \in Nat
  BY DEF PollIInv, NetInv, NetTypes
<1>4. n \in Nat /\ n >= got[entry]
  BY <1>1, <1>2, <1>3
<1>5. \A d \in Clients : got'[d] = IF d = entry THEN n ELSE got[d]
  BY <1>2 DEF PollIInv, NetInv, NetTypes
<1> QED BY <1>3, <1>4, <1>5

\* poll reports data, or the hangup along with it.
LEMMA PollWaitFresh == ASSUME PollIInv, PollFresh, PollWait PROVE PollFresh'
<1>1. /\ UNCHANGED <<fds, peer, backlog, srv, sent, got, ended>> /\ ~ ended
      /\ revents' = [k \in DOMAIN fds |-> PollReady(fds[k])]
      /\ ppc' = IF backlog # << >> THEN "accept" ELSE "check"
  BY DEF PollWait, net
<1>2. ASSUME NEW k \in 1 .. Len(fds) PROVE Fresh(k)'
  <2>1. revents'[k] = PollReady(fds[k]) /\ k \in Clients /\ k # NoClient
    BY <1>1, EntriesAreClients, ClientsAreNumbered
  <2>2. SUFFICES ASSUME "IN" \in PollReady(fds[k])
                 PROVE  /\ "IN" \in fds[k].events
                        /\ PollReady(fds[k]) \intersect {"HUP", "RDHUP"} = {} => sent[k] > 0
    BY <1>1, <2>1 DEF Fresh
  <2>3. fds[k].fd = k /\ fds[k].fd # NoClient
    BY <2>1, <2>2 DEF PollReady, PollIInv, OrderInv
  <2>4. "IN" \in fds[k].events /\ Readable(k)
    BY <2>2, <2>3 DEF PollReady
  <2>5. "RDHUP" \in fds[k].events
    BY <1>1, <2>3, <2>4 DEF PollFresh, Heard
  <2>6. Gone(k) => "RDHUP" \in PollReady(fds[k])
    BY <2>3, <2>5 DEF PollReady
  <2>7. Unread(k) => sent[k] > 0
    BY <2>1 DEF Unread, PollIInv, NetInv, NetTypes
  <2> QED BY <2>4, <2>6, <2>7 DEF Readable
<1>3. \A k \in 1 .. Len(fds) : Heard(k)'
  BY <1>1 DEF PollFresh, Heard
<1> QED BY <1>1, <1>2, <1>3 DEF PollFresh

\* The new entry asks for data and hangups, and its client was not reset twice.
LEMMA PollAdmitFresh == ASSUME PollIInv, DoorInv, PollFresh, PollAdmit PROVE PollFresh'
<1> PICK c \in Clients : c = Accepted
  BY HeadIsNew DEF PollIInv, PollAdmit, Accepts
<1> DEFINE e == [fd |-> c, events |-> {"IN", "RDHUP"}]
<1>1. /\ ~ ended /\ ppc' = "check" /\ backlog # << >>
      /\ fds' = Append(fds, e) /\ revents' = Append(revents, {})
      /\ srv' = [srv EXCEPT ![c] = "open"]
      /\ UNCHANGED <<peer, sent, got, ended, entry>>
  BY DEF PollAdmit, Accepts
<1>2. c \in Clients /\ srv[c] = "none"
  BY <1>1, HeadIsNew DEF PollIInv
<1>3. c = Len(fds) + 1 /\ Len(fds) \in Nat
  BY SMT, <1>1, EntriesAreClients DEF PollIInv, OrderInv, NetInv, NetTypes, Accepted
<1>4. /\ Len(fds') = Len(fds) + 1 /\ fds'[c] = e /\ revents'[c] = {}
      /\ \A k \in 1 .. Len(fds) : fds'[k] = fds[k] /\ revents'[k] = revents[k]
  <2> HIDE DEF e
  <2>1. fds \in Seq([fd : Nat, events : SUBSET Flags]) /\ revents \in Seq(SUBSET Flags)
        /\ Len(revents) = Len(fds)
    BY DEF PollIInv, PollOwnTypes
  <2> QED BY SMT, <1>1, <1>3, <2>1
<1>5. Heard(c)' /\ Fresh(c)'
  <2>1. fds'[c].events = {"IN", "RDHUP"} /\ peer'[c] # "dead"
    <3>1. peer'[c] = peer[c] /\ peer[c] # "dead"
      BY <1>1, <1>2 DEF DoorInv
    <3> QED BY <1>4, <3>1
  <2> QED BY <1>4, <2>1 DEF Heard, Fresh
<1>6. ASSUME NEW k \in 1 .. Len(fds) PROVE Heard(k)' /\ (k >= entry => Fresh(k)')
  <2>1. k \in Clients /\ k # c
    BY <1>3, EntriesAreClients
  <2>2. srv'[k] = srv[k] /\ got[k] \in Nat
    BY <1>1, <2>1 DEF PollIInv, NetInv, NetTypes
  <2>3. Heard(k)
    BY <1>1 DEF PollFresh
  <2>4. fds'[k] = fds[k] /\ got'[k] \in Nat /\ got'[k] >= got[k] /\ peer' = peer
    BY <1>1, <1>4, <2>2
  <2>5. Heard(k)'
    BY <2>2, <2>3, <2>4, HeardKept
  <2> QED BY <1>1, <1>4, <2>5 DEF PollFresh, Fresh
<1>7. 1 .. Len(fds') = 1 .. Len(fds) \union {c}
  BY <1>3, <1>4
<1> QED BY <1>1, <1>5, <1>6, <1>7 DEF PollFresh

\* The steps of the round that change no entry.
LEMMA PollUnwrittenFresh ==
    ASSUME PollIInv, PollFresh, PollSkip \/ Check \/ PollRead \/ ReadEnds \/ NoWrite
    PROVE  PollFresh'
<1>1. /\ UNCHANGED <<peer, backlog, srv, sent, ended, fds, revents>> /\ ~ ended
      /\ UNCHANGED got \/ (ppc = "read" /\ Receives(fds[entry].fd))
      /\ entry' = entry \/ entry' = entry + 1
  BY Zenon DEF PollSkip, Check, PollRead, ReadEnds, NoWrite, InCheck, net, pollOwn
<1>2. \A d \in Clients : got'[d] \in Nat /\ got'[d] >= got[d]
  BY <1>1, PollReadsOn DEF PollIInv, NetInv, NetTypes
<1>3. \A k \in 1 .. Len(fds) : Heard(k)'
  <2> SUFFICES ASSUME NEW k \in 1 .. Len(fds) PROVE Heard(k)'
    OBVIOUS
  <2>1. got'[k] \in Nat /\ got'[k] >= got[k]
    BY <1>2, EntriesAreClients
  <2> QED BY <1>1, <2>1, HeardKept DEF PollFresh
<1>4. \A k \in 1 .. Len(fds) : k >= entry' => Fresh(k)'
  <2>1. entry \in Nat
    BY DEF PollIInv, PollOwnTypes
  <2> QED BY <1>1, <2>1 DEF PollFresh, Fresh
<1>5. ASSUME ppc' = "read" PROVE entry' = entry /\ sent[entry] > 0 /\ "IN" \in fds[entry].events
  <2>1. CASE Check
    <3>1. /\ "IN" \in revents[entry] /\ revents[entry] \intersect {"HUP", "RDHUP"} = {}
          /\ entry <= Len(fds) /\ ppc = "check" /\ entry' = entry
      BY <1>5, <2>1 DEF Check, InCheck
    <3>2. entry \in 1 .. Len(fds) /\ entry >= entry
      BY <3>1, EntriesAreClients DEF PollIInv, PollOwnTypes, RoundInv
    <3> QED BY <3>1, <3>2 DEF PollFresh, Fresh
  <2>2. CASE ~ Check
    <3>1. ppc = "read" /\ entry' = entry
      BY <1>5, <2>2 DEF PollSkip, PollRead, ReadEnds, NoWrite, InCheck, pollOwn
    <3> QED BY <3>1 DEF PollFresh
  <2> QED BY <2>1, <2>2
<1>6. ppc' # "accept"
  BY DEF PollSkip, Check, PollRead, ReadEnds, NoWrite, InCheck, pollOwn
<1> QED BY <1>1, <1>3, <1>4, <1>5, <1>6 DEF PollFresh

\* The entry at hand is cleared, asks to write, or was written.
LEMMA EntryFresh ==
    ASSUME PollIInv, PollFresh, PollDrop \/ ReadBlocks \/ Write PROVE PollFresh'
<1> PICK h \in {entry} : TRUE
  OBVIOUS
<1>1. /\ UNCHANGED <<backlog, sent, got, ended, revents>> /\ ~ ended
      /\ ppc \in {"check", "read", "write"} /\ ppc' \in {"check", "write"}
  BY Zenon DEF PollDrop, ReadBlocks, Write, InCheck, net
<1>2. entry \in 1 .. Len(fds) /\ entry \in Clients /\ entry \in Nat /\ fds[entry].fd = entry
      /\ Reported(entry) /\ Heard(entry)
  <2>1. entry \in 1 .. Len(fds) /\ entry >= entry
    BY <1>1, EntriesAreClients DEF PollDrop, ReadBlocks, Write, InCheck, PollIInv, PollOwnTypes,
       RoundInv
  <2>2. Reported(entry)
    BY <2>1 DEF PollIInv, RoundInv
  <2>3. fds[entry].fd = entry
    BY <2>2 DEF PollDrop, ReadBlocks, Write, PollIInv, RoundInv, Reported
  <2> QED BY <1>1, <2>1, <2>2, <2>3, EntriesAreClients DEF PollFresh
<1>3. /\ Len(fds') = Len(fds)
      /\ \A k \in 1 .. Len(fds) : k # h => fds'[k] = fds[k]
  BY EntriesAreClients, <1>2 DEF PollDrop, ReadBlocks, Write
<1>4. \A d \in Clients : d # h => srv'[d] = srv[d] /\ peer'[d] = peer[d]
  <2>1. srv' = srv \/ Closes(entry)
    BY <1>2 DEF PollDrop, ReadBlocks, Write, net
  <2>2. UNCHANGED peer \/ Takes(entry)
    BY <1>2 DEF PollDrop, ReadBlocks, Write, net
  <2> QED BY <2>1, <2>2 DEF Closes, Takes, PollIInv, NetInv, NetTypes
<1>5. Heard(h)' /\ (entry' = entry => Fresh(h)')
  <2>1. CASE PollDrop
    <3>1. fds'[h].fd = NoClient /\ srv'[h] = "closed" /\ entry' = entry + 1
      BY <1>2, <2>1, EntriesAreClients DEF PollDrop, Closes, PollIInv, NetInv, NetTypes
    <3> QED BY <1>2, <3>1, ClientsAreNumbered DEF Heard
  <2>2. CASE ReadBlocks
    <3>1. /\ fds' = [fds EXCEPT ![entry].events = @ \union {"OUT"}]
          /\ ppc = "read" /\ ~ Readable(entry) /\ UNCHANGED <<peer, srv>>
      BY <1>2, <2>2 DEF ReadBlocks, net
    <3>2. fds'[h].events = fds[h].events \union {"OUT"}
      BY <1>2, <3>1, EntriesAreClients
    <3>3. got[entry] > 0
      BY <1>2, <3>1 DEF PollFresh, Readable, Unread, PollIInv, NetInv, NetTypes
    <3>4. "IN" \in fds[entry].events /\ sent[entry] > 0
      BY <3>1 DEF PollFresh
    <3>5. Heard(h)'
      BY <1>1, <1>2, <3>1, <3>2, <3>3, <3>4 DEF Heard
    <3> QED BY <1>1, <3>2, <3>4, <3>5 DEF Fresh
  <2>3. CASE Write
    <3>1. /\ fds' = [fds EXCEPT ![entry].events = {}] /\ entry' = entry + 1
          /\ "OUT" \in revents[entry]
      BY <2>3 DEF Write
    <3>2. fds'[h].events = {}
      BY <1>2, <3>1, EntriesAreClients
    <3>3. got[entry] > 0
      BY <1>2, <3>1, ClientsAreNumbered DEF Reported, Heard
    <3> QED BY <1>1, <1>2, <3>1, <3>2, <3>3 DEF Heard
  <2> QED BY <2>1, <2>2, <2>3
<1>6. ASSUME NEW k \in 1 .. Len(fds), k # h
      PROVE  Heard(k)' /\ (k >= entry' => Fresh(k)')
  <2>1. k \in Clients /\ got[k] \in Nat /\ (k >= entry' => k >= entry)
    <3>1. entry' = entry \/ entry' = entry + 1
      BY DEF PollDrop, ReadBlocks, Write
    <3>2. k \in Clients /\ k \in Nat
      BY EntriesAreClients
    <3>3. got[k] \in Nat
      BY <3>2 DEF PollIInv, NetInv, NetTypes
    <3> QED BY <1>2, <3>1, <3>2, <3>3
  <2>2. Heard(k)'
    BY <1>1, <1>3, <1>4, <1>6, <2>1, HeardKept DEF PollFresh
  <2> QED BY <1>1, <1>3, <1>6, <2>1, <2>2 DEF PollFresh, Fresh
<1>7. h >= entry' => entry' = entry
  BY <1>2 DEF PollDrop, ReadBlocks, Write
<1> QED BY <1>1, <1>3, <1>5, <1>6, <1>7 DEF PollFresh

\* What an entry asks for, and what poll says of it, follows its client.
LEMMA PollStaysFresh ==
    ASSUME PollIInv, DoorInv, PollFresh, [PollNext]_pollVars PROVE PollFresh'
<1>1. CASE PollSkip \/ Check \/ PollRead \/ ReadEnds \/ NoWrite
  BY <1>1, PollUnwrittenFresh
<1>2. CASE PollDrop \/ ReadBlocks \/ Write
  BY <1>2, EntryFresh
<1>3. CASE PollAcceptFails \/ PollReadFails \/ WriteFails \/ Overrun
  <2>1. ended' = TRUE /\ UNCHANGED <<backlog, sent, ppc, entry, fds, revents>>
    BY <1>3, Zenon DEF PollAcceptFails, PollReadFails, WriteFails, Overrun, Exit
  <2> QED BY <2>1 DEF PollFresh, Fresh
<1>4. CASE Checked
  <2>1. /\ ~ ended /\ ppc' = "wait" /\ revents' = [k \in DOMAIN fds |-> {}]
        /\ UNCHANGED <<backlog, sent, srv, got, peer, fds>>
    BY <1>4 DEF Checked, net
  <2> QED BY <2>1, EntriesAreClients DEF PollFresh, Fresh, Heard
<1>5. CASE ClientStep /\ UNCHANGED pollOwn
  <2>1. PICK c \in Clients : Connect(c) \/ Send(c) \/ Leave(c)
    BY <1>5 DEF ClientStep
  <2>2. UNCHANGED <<srv, got, ended, ppc, entry, fds, revents>>
    BY <1>5, <2>1, Zenon DEF Connect, Send, Leave, pollOwn
  <2>3. \A d \in Clients : (peer'[d] = "dead" => peer[d] = "dead") /\ (sent[d] > 0 => sent'[d] > 0)
    <3>1. \A d \in Clients : peer'[d] = "dead" => peer[d] = "dead"
      BY <2>1 DEF Connect, Send, Leave, PollIInv, NetInv, NetTypes
    <3>2. sent' = sent \/ sent' = [sent EXCEPT ![c] = sent[c] + 1]
      BY <2>1 DEF Connect, Send, Leave
    <3>3. \A d \in Clients : sent[d] > 0 => sent'[d] > 0
      <4>1. \A d \in Clients : sent[d] \in Nat
        BY DEF PollIInv, NetInv, NetTypes
      <4>2. \A d \in Clients : sent'[d] = sent[d] \/ sent'[d] = sent[d] + 1
        BY <3>2 DEF PollIInv, NetInv, NetTypes
      <4> QED BY <4>1, <4>2
    <3> QED BY <3>1, <3>3
  <2>4. backlog # << >> => backlog' # << >>
    <3>1. backlog' = backlog \/ backlog' = Append(backlog, c)
      BY <2>1 DEF Connect, Send, Leave
    <3>2. backlog \in Seq(Clients)
      BY DEF PollIInv, NetInv, NetTypes
    <3> QED BY <3>1, <3>2
  <2>5. ASSUME NEW k \in 1 .. Len(fds)
        PROVE  (Heard(k) => Heard(k)') /\ (Fresh(k) => Fresh(k)')
    <3>1. k \in Clients /\ got[k] \in Nat
      BY EntriesAreClients DEF PollIInv, NetInv, NetTypes
    <3> QED BY <2>2, <2>3, <3>1, HeardKept DEF Fresh
  <2>6. ppc = "read" => entry \in Clients
    BY EntriesAreClients DEF PollIInv, RoundInv
  <2> QED BY <2>2, <2>3, <2>4, <2>5, <2>6 DEF PollFresh
<1>6. CASE UNCHANGED pollVars
  <2>1. UNCHANGED <<peer, backlog, srv, sent, got, ended, ppc, entry, fds, revents>>
    BY <1>6 DEF pollVars, net, pollOwn
  <2> QED BY <2>1 DEF PollFresh, Heard, Fresh
<1> QED BY <1>1, <1>2, <1>3, <1>4, <1>5, <1>6, PollWaitFresh, PollAdmitFresh
        DEF PollNext, PollLoop

\* No call fails on a connection that waits at the door.
LEMMA PollKeepsDoor == ASSUME PollIInv, DoorInv, [PollNext]_pollVars PROVE DoorInv'
<1>1. CASE PollAdmit
  BY <1>1, AcceptKeepsDoor DEF PollAdmit, PollIInv
<1>2. CASE PollDrop \/ PollReadFails \/ Write \/ WriteFails
  <2>1. entry \in 1 .. Len(fds) /\ entry \in Clients /\ entry >= entry
    BY <1>2, EntriesAreClients DEF PollDrop, PollReadFails, Write, WriteFails, InCheck, PollIInv,
       PollOwnTypes, RoundInv
  <2>2. fds[entry].fd = entry
    BY <1>2, <2>1 DEF PollDrop, PollReadFails, Write, WriteFails, PollIInv, RoundInv, Reported
  <2>3. srv[entry] = "open"
    BY <2>1, <2>2, ClientsAreNumbered DEF PollIInv, OrderInv
  <2>4. /\ backlog' = backlog
        /\ srv' = srv \/ Closes(entry)
        /\ UNCHANGED peer \/ Takes(entry) \/ Refuses(entry) \/ ErrorTaken(entry)
    BY <1>2, <2>2, Zenon DEF PollDrop, PollReadFails, Write, WriteFails
  <2>5. \A d \in Clients : srv'[d] = "none" => srv[d] = "none" /\ peer'[d] = peer[d]
    BY <2>1, <2>3, <2>4 DEF Closes, Takes, Refuses, ErrorTaken, PollIInv, NetInv, NetTypes
  <2> QED BY <2>4, <2>5, CallKeepsDoor
<1>3. CASE \/ PollWait \/ PollAcceptFails \/ PollSkip \/ Check \/ PollRead \/ ReadBlocks
           \/ ReadEnds \/ NoWrite \/ Checked \/ Overrun \/ UNCHANGED pollVars
  <2>1. UNCHANGED <<peer, backlog, srv>>
    BY <1>3, Zenon DEF PollWait, PollAcceptFails, PollSkip, Check, PollRead, ReadBlocks, ReadEnds,
         NoWrite, Checked, Overrun, pollVars, net
  <2> QED BY <2>1 DEF DoorInv
<1>4. CASE ClientStep
  BY <1>4, ClientsKeepDoor DEF PollIInv
<1> QED BY <1>1, <1>2, <1>3, <1>4 DEF PollNext, PollLoop

\* So the server is at work whenever it is not waiting in poll, and poll returns for
\* whoever has asked and was not answered, and for whoever is owed an answer.
LEMMA PollGoesOn ==
    ASSUME PollIInv, PollFresh, ~ ended
    PROVE  /\ ppc = "wait" \/ PollGoes
           /\ \A c \in Clients : srv[c] = "open" /\ got[c] = 0 /\ Readable(c) => PollGoes
           /\ \A c \in Clients : PollOwed(c) => PollGoes
<1>1. ppc = "wait" \/ PollGoes
  <2>1. CASE ppc = "write" /\ "OUT" \in revents[entry]
    <3>1. entry \in 1 .. Len(fds) /\ entry \in Clients /\ entry >= entry /\ fds[entry].fd = entry
      BY <2>1, EntriesAreClients DEF PollIInv, PollOwnTypes, RoundInv
    <3>2. "OUT" \in fds[entry].events
      BY <2>1, <3>1 DEF PollIInv, RoundInv, Reported
    <3>3. peer[entry] # "dead"
      BY <3>1, <3>2 DEF PollFresh, Heard
    <3>4. ~ (entry > Len(fds) + Len(backlog))
      BY <3>1, EntriesAreClients
    <3>5. peer[entry] # "idle"
      BY <3>1, <3>4 DEF PollIInv, OrderInv
    <3> QED BY <2>1, <3>1, <3>3, <3>5 DEF PollGoes
  <2> QED BY <2>1 DEF PollGoes, PollFresh, PollIInv, PollOwnTypes
<1>2. ASSUME NEW c \in Clients, srv[c] = "open", got[c] = 0, Readable(c), ppc = "wait"
      PROVE  PollGoes
  <2>1. c \in 1 .. Len(fds)
    <3>1. peer[c] # "idle" /\ \A a \in 1 .. Len(backlog) : c # backlog[a]
      BY <1>2 DEF PollIInv, NetInv, QueueInv
    <3>2. ~ (c > Len(fds) + Len(backlog))
      BY <3>1 DEF PollIInv, OrderInv
    <3>3. ASSUME c > Len(fds) PROVE FALSE
      <4>1. c \in Nat /\ c - Len(fds) \in 1 .. Len(backlog)
        BY <3>2, <3>3, EntriesAreClients, ClientsAreNumbered
      <4>2. backlog[c - Len(fds)] = Len(fds) + (c - Len(fds))
        BY <4>1 DEF PollIInv, OrderInv
      <4> QED BY <3>1, <4>1, <4>2, EntriesAreClients
    <3> QED BY <3>3, EntriesAreClients DEF Clients
  <2>2. fds[c].fd = c /\ "IN" \in fds[c].events /\ c # NoClient
    BY <1>2, <2>1, ClientsAreNumbered DEF PollFresh, Heard, PollIInv, OrderInv
  <2>3. "IN" \in PollReady(fds[c])
    BY <1>2, <2>2 DEF PollReady
  <2> QED BY <1>2, <2>1, <2>3, EntriesAreClients DEF PollGoes
<1>3. ASSUME NEW c \in Clients, PollOwed(c), ppc = "wait" PROVE PollGoes
  <2>1. PICK k \in DOMAIN fds : fds[k].fd = c /\ "OUT" \in fds[k].events
    BY <1>3 DEF PollOwed
  <2>2. "OUT" \in PollReady(fds[k])
    BY <2>1, ClientsAreNumbered DEF PollReady
  <2> QED BY <1>3, <2>1, <2>2 DEF PollGoes
<1> QED BY <1>1, <1>2, <1>3

-----------------------------------------------------------------------------
(* The epoll server. *)

EpollEcho == INSTANCE EchoService WITH here <- Here, phase <- Phase,
                                         owed <- [c \in Clients |-> EpollOwed(c)],
                                         admitting <- ~ ended

EpollImplementsEchoService == EpollEcho!Spec

EpollOwnTypes == /\ epc \in {"wait", "batch", "reply"}
                 /\ ep \subseteq Clients \union {NoClient}
                 /\ maxi \in Nat
                 /\ client \in [EpollIndices -> Clients \union {NoClient}]

\* The answer goes to an open connection.
EpollReplyInv == epc = "reply" => sockfd \in interest

\* The loop that frees an entry sees all that are in use.
MaxiInv == \A k \in EpollIndices : client[k] # NoClient => k < maxi

EpollIInv == NetInv /\ EpollOwnTypes /\ EpollReplyInv /\ MaxiInv /\ TableIsCurrent

-----------------------------------------------------------------------------
(* The invariant. *)

\* The entry a new connection gets is a free one of the table, or the one
\* behind it.
LEMMA FreeEntryIsFree == /\ FreeEntry \in Nat
                         /\ FreeEntry < EpollSlots => FreeEntry \in EpollIndices
<1>1. Unused \in SUBSET Nat
  BY SMT DEF Unused, EpollIndices
<1>2. CASE Unused = {}
  BY <1>2, EpollAssumption DEF FreeEntry
<1>3. CASE Unused # {}
  <2>1. FreeEntry \in Unused
    BY <1>1, <1>3, LeastExists DEF FreeEntry
  <2> QED BY <2>1, <1>1 DEF Unused
<1> QED BY <1>2, <1>3

\* The invariant needs of a step only what it does to these.
LEMMA EpollTableUnchanged == ASSUME EpollIInv, UNCHANGED <<interest, client, srv, maxi>>,
     ep' \subseteq ep
                             PROVE  TableIsCurrent' /\ MaxiInv'
BY DEF EpollIInv, TableIsCurrent, MaxiInv, Listed

\* epoll_wait, and the end of a batch.
LEMMA WaitStep == ASSUME EpollIInv, EpollWait \/ Handled PROVE EpollIInv'
<1>1. UNCHANGED <<peer, backlog, srv, sent, got, faults, ended, interest, client, maxi>>
  BY DEF EpollWait, Handled, net
<1>2. NetInv'
  BY <1>1 DEF EpollIInv, NetInv, NetTypes, QueueInv
<1>3. ep' \subseteq interest \union {NoClient} /\ epc' \in {"wait", "batch"}
        /\ interest \subseteq Clients
  <2>1. CASE EpollWait
    <3>1. ep' \subseteq EpollReady
      BY <2>1, Zenon DEF EpollWait
    <3> QED BY <2>1, <3>1 DEF EpollWait, EpollReady, EpollIInv, TableIsCurrent
  <2>2. CASE Handled
    BY <2>2 DEF Handled, EpollIInv, TableIsCurrent
  <2> QED BY <2>1, <2>2
<1>4. TableIsCurrent' /\ MaxiInv'
  BY <1>1, <1>3 DEF EpollIInv, TableIsCurrent, MaxiInv, Listed
<1>5. EpollOwnTypes'
  BY <1>1, <1>3 DEF EpollIInv, EpollOwnTypes
<1> QED BY <1>2, <1>3, <1>4, <1>5 DEF EpollIInv, EpollReplyInv

\* accept: the new connection is watched, with or without an entry.
LEMMA EpollAdmitStep == ASSUME EpollIInv, EpollAdmit PROVE EpollIInv'
<1> DEFINE j == FreeEntry
<1>1. /\ UNCHANGED <<peer, sent, got, faults, ended, epc, sockfd>> /\ epc = "batch"
      /\ Accepts("open") /\ interest' = interest \union {Accepted} /\ ep' = ep \ {NoClient}
      /\ client' = IF j < EpollSlots THEN [client EXCEPT ![j] = Accepted] ELSE client
      /\ maxi' = IF j + 1 > maxi THEN j + 1 ELSE maxi
  BY Zenon DEF EpollAdmit, InBatch, Raise
<1>2. NetInv /\ Accepted \in Clients
  BY <1>1, HeadIsNew DEF Accepts, EpollIInv
<1>3. NetInv'
  BY <1>1, <1>2, AcceptKeepsQueue DEF NetInv, NetTypes
<1>4. OpenClients' = OpenClients \union {Accepted}
  BY SMT, <1>1, <1>2 DEF Accepts, OpenClients, NetInv, NetTypes
<1>5. j \in Nat /\ (j < EpollSlots => j \in EpollIndices)
  BY FreeEntryIsFree
<1>6. maxi' \in Nat /\ maxi <= maxi' /\ j < maxi'
  BY <1>1, <1>5 DEF EpollIInv, EpollOwnTypes
<1>7. /\ client' \in [EpollIndices -> Clients \union {NoClient}]
      /\ \A k \in EpollIndices : client'[k] = client[k] \/ (k = j /\ client'[k] = Accepted)
  BY <1>1, <1>2, <1>5 DEF EpollIInv, EpollOwnTypes
<1>8. MaxiInv'
  <2> SUFFICES ASSUME NEW k \in EpollIndices, client'[k] # NoClient PROVE k < maxi'
    BY DEF MaxiInv
  <2>1. CASE k = j
    BY <2>1, <1>6
  <2>2. CASE k # j
    <3>1. k < maxi /\ k \in Int
      BY <2>2, <1>7 DEF EpollIInv, MaxiInv, EpollIndices
    <3> QED BY <3>1, <1>6 DEF EpollIInv, EpollOwnTypes
  <2> QED BY <2>1, <2>2
<1>9. TableIsCurrent'
  <2>1. interest = OpenClients /\ Listed \subseteq interest /\ ep \ {NoClient} \subseteq interest
    BY DEF EpollIInv, TableIsCurrent, OpenClients
  <2>2. Listed' \subseteq Listed \union {Accepted}
    BY <1>7 DEF Listed
  <2> QED BY <2>1, <2>2, <1>1, <1>4 DEF TableIsCurrent, OpenClients
<1>10. EpollOwnTypes' /\ EpollReplyInv'
  BY <1>1, <1>6, <1>7 DEF EpollIInv, EpollOwnTypes, EpollReplyInv
<1> QED BY <1>3, <1>8, <1>9, <1>10 DEF EpollIInv

\* accept fails: the table may look longer than it is.
LEMMA AcceptFailsStep == ASSUME EpollIInv, EpollAcceptFails PROVE EpollIInv'
<1> DEFINE j == FreeEntry
<1>1. /\ UNCHANGED <<peer, backlog, srv, sent, got, ended, epc, sockfd, interest, client>>
      /\ epc = "batch" /\ ep' = ep \ {NoClient} /\ faults' = faults + 1
      /\ maxi' = IF j + 1 > maxi THEN j + 1 ELSE maxi
  BY Zenon DEF EpollAcceptFails, InBatch, Raise, Fails
<1>2. NetInv'
  BY <1>1, CallKeepsQueue DEF EpollIInv, NetInv, NetTypes
<1>3. maxi' \in Nat /\ maxi <= maxi'
  BY <1>1, FreeEntryIsFree DEF EpollIInv, EpollOwnTypes
<1>4. MaxiInv'
  BY <1>1, <1>3 DEF EpollIInv, MaxiInv, EpollOwnTypes, EpollIndices
<1>5. TableIsCurrent' /\ EpollOwnTypes' /\ EpollReplyInv'
  BY <1>1, <1>3 DEF EpollIInv, TableIsCurrent, Listed, EpollOwnTypes, EpollReplyInv
<1> QED BY <1>2, <1>4, <1>5 DEF EpollIInv

\* A socket of the batch is open.
LEMMA BatchIsOpen == ASSUME EpollIInv, NEW c \in ep \ {NoClient}
                     PROVE  c \in Clients /\ c \in interest /\ srv[c] = "open"
BY DEF EpollIInv, TableIsCurrent

\* read with data.
LEMMA EpollReadStep == ASSUME EpollIInv, EpollRead PROVE EpollIInv'
<1>1. PICK c \in ep \ {NoClient} :
             /\ Receives(c) /\ sockfd' = c /\ epc' = "reply" /\ ep' = ep \ {c}
             /\ UNCHANGED <<peer, backlog, srv, sent, faults, ended, interest, client, maxi>>
  BY Zenon DEF EpollRead, InBatch
<1>2. c \in Clients /\ c \in interest
  BY BatchIsOpen
<1>3. got' \in [Clients -> Nat]
  <2>1. PICK n \in got[c] + 1 .. sent[c] : got' = [got EXCEPT ![c] = n]
    BY <1>1 DEF Receives
  <2>2. got[c] \in Nat /\ sent[c] \in Nat /\ got \in [Clients -> Nat]
    BY <1>2 DEF EpollIInv, NetInv, NetTypes
  <2>3. n \in Nat
    BY SMT, <2>2
  <2> QED BY <2>1, <2>2, <2>3
<1>4. NetInv'
  BY <1>1, <1>3, CallKeepsQueue DEF EpollIInv, NetInv, NetTypes
<1>5. EpollOwnTypes' /\ EpollReplyInv'
  BY <1>1, <1>2 DEF EpollIInv, EpollOwnTypes, EpollReplyInv
<1> QED BY <1>1, <1>4, <1>5, EpollTableUnchanged DEF EpollIInv

\* read's -1 changes nothing but the socket's error.
LEMMA ReadFailsStep == ASSUME EpollIInv, EpollReadFails PROVE EpollIInv'
<1>1. PICK c \in ep \ {NoClient} :
             /\ ErrorTaken(c) /\ ep' = ep \ {c} /\ epc = "batch"
             /\ UNCHANGED <<backlog, srv, sent, got, faults, ended, epc, sockfd, interest,
                  client, maxi>>
  BY Zenon DEF EpollReadFails, InBatch
<1>2. NetInv'
  BY <1>1, BatchIsOpen, CallsKeepPeer, CallKeepsQueue DEF EpollIInv, NetInv, NetTypes
<1>3. EpollOwnTypes' /\ EpollReplyInv'
  BY <1>1 DEF EpollIInv, EpollOwnTypes, EpollReplyInv
<1> QED BY <1>1, <1>2, <1>3, EpollTableUnchanged DEF EpollIInv

\* The end of a connection: its entry, its place in the set and its event go.
LEMMA EpollDropStep == ASSUME EpollIInv, EpollDrop PROVE EpollIInv'
<1>1. PICK c \in ep \ {NoClient} :
             /\ client' = Forget(c) /\ interest' = interest \ {c} /\ Closes(c)
             /\ ep' = ep \ {c} /\ epc = "batch"
             /\ UNCHANGED <<peer, backlog, sent, got, faults, ended, epc, sockfd, maxi>>
  BY Zenon DEF EpollDrop, InBatch
<1>2. c \in Clients /\ srv[c] = "open" /\ NetInv
  BY BatchIsOpen DEF EpollIInv
<1>3. /\ srv' \in [Clients -> {"none", "open", "refused", "closed"}]
      /\ \A d \in Clients : srv'[d] = "none" <=> srv[d] = "none"
      /\ OpenClients' = OpenClients \ {c}
  BY <1>1, <1>2, CloseReleases DEF OpenClients
<1>4. NetInv'
  BY <1>1, <1>2, <1>3, CallKeepsQueue DEF NetInv, NetTypes
<1>5. /\ client' \in [EpollIndices -> Clients \union {NoClient}]
      /\ \A k \in EpollIndices : \/ client'[k] = NoClient
                                 \/ client'[k] = client[k] /\ client[k] # c
  BY <1>1 DEF Forget, EpollIInv, EpollOwnTypes, MaxiInv
<1>6. MaxiInv'
  BY <1>1, <1>5 DEF EpollIInv, MaxiInv
<1>7. TableIsCurrent'
  <2>1. interest = OpenClients /\ Listed \subseteq interest /\ ep \ {NoClient} \subseteq interest
    BY DEF EpollIInv, TableIsCurrent, OpenClients
  <2>2. Listed' \subseteq Listed \ {c}
    BY <1>5 DEF Listed
  <2> QED BY <2>1, <2>2, <1>1, <1>3 DEF TableIsCurrent, OpenClients
<1>8. EpollOwnTypes' /\ EpollReplyInv'
  BY <1>1, <1>5 DEF EpollIInv, EpollOwnTypes, EpollReplyInv
<1> QED BY <1>4, <1>6, <1>7, <1>8 DEF EpollIInv

\* write: back to the batch, or the end of the process.
LEMMA EpollReplyStep == ASSUME EpollIInv, EpollReply PROVE EpollIInv'
<1>1. sockfd \in Clients /\ NetInv
  BY DEF EpollReply, EpollIInv, EpollReplyInv, TableIsCurrent
<1>2. /\ UNCHANGED <<backlog, srv, sent, got, faults, ep, interest, client, maxi>>
      /\ UNCHANGED peer \/ Takes(sockfd) \/ Refuses(sockfd)
      /\ UNCHANGED ended \/ ended' = TRUE
      /\ epc' = "batch" \/ UNCHANGED <<epc, sockfd>>
  BY Zenon DEF EpollReply
<1>3. NetInv'
  <2>1. ended' \in BOOLEAN
    BY <1>1, <1>2, Zenon DEF NetInv, NetTypes
  <2>2. got' \in [Clients -> Nat] /\ faults' \in Nat
       /\ srv' \in [Clients -> {"none", "open", "refused", "closed"}]
    BY <1>1, <1>2, Zenon DEF NetInv, NetTypes
  <2> QED BY <1>1, <1>2, <2>1, <2>2, CallsKeepPeer, CallKeepsQueue
<1>4. EpollOwnTypes' /\ EpollReplyInv'
  BY <1>2 DEF EpollIInv, EpollOwnTypes, EpollReplyInv
<1> QED BY <1>2, <1>3, <1>4, EpollTableUnchanged DEF EpollIInv

\* The clients.
LEMMA EpollClientKeeps == ASSUME EpollIInv, ClientStep, UNCHANGED epollOwn PROVE EpollIInv'
<1>1. PICK c \in Clients : Connect(c) \/ Send(c) \/ Leave(c)
  BY DEF ClientStep
<1>2. NetInv' /\ srv' = srv
  BY Zenon, <1>1, ConnectQueues, OthersKeepQueue DEF EpollIInv, Connect, Send, Leave
<1>3. UNCHANGED <<epc, ep, sockfd, interest, client, maxi>>
  BY DEF epollOwn
<1> QED BY <1>2, <1>3, EpollTableUnchanged DEF EpollIInv, EpollOwnTypes, EpollReplyInv

\* The invariant holds at the start ...
LEMMA EpollStarts == ASSUME EpollInit PROVE EpollIInv
<1>1. NetInv
  BY InitialNet DEF EpollInit
<1>2. EpollOwnTypes /\ EpollReplyInv /\ MaxiInv
  BY DEF EpollInit, EpollOwnTypes, EpollReplyInv, MaxiInv
<1>3. TableIsCurrent
  BY DEF EpollInit, NetInit, TableIsCurrent, Listed
<1> QED BY <1>1, <1>2, <1>3 DEF EpollIInv

\* ... and is kept by every step.
LEMMA EpollStepKeeps == ASSUME EpollIInv, [EpollNext]_epollVars PROVE EpollIInv'
<1>1. CASE EpollLoop
  BY <1>1, WaitStep, EpollAdmitStep, AcceptFailsStep, EpollReadStep, ReadFailsStep,
       EpollDropStep, EpollReplyStep DEF EpollLoop
<1>2. CASE ClientStep /\ UNCHANGED epollOwn
  BY <1>2, EpollClientKeeps
<1>3. CASE UNCHANGED epollVars
  <2>1. UNCHANGED <<peer, backlog, srv, sent, got, faults, ended, epc, ep, sockfd, interest,
          client, maxi>>
    BY <1>3 DEF epollVars, net, epollOwn
  <2>2. NetInv'
    BY <2>1 DEF EpollIInv, NetInv, NetTypes, QueueInv
  <2> QED BY <2>1, <2>2, EpollTableUnchanged DEF EpollIInv, EpollOwnTypes, EpollReplyInv
<1> QED BY <1>1, <1>2, <1>3 DEF EpollNext

\* The invariant holds in every reachable state.
THEOREM EpollInductive == EpollSpec => []EpollIInv
BY EpollStarts, EpollStepKeeps, PTL DEF EpollSpec

\* The epoll set is the set of open connections, the table lists none that is
\* closed, and no event of a batch outlives its socket.
THEOREM EpollTableCorrect == EpollSpec => []TableIsCurrent
<1>1. EpollIInv => TableIsCurrent
  BY DEF EpollIInv
<1> QED BY <1>1, EpollInductive, PTL

-----------------------------------------------------------------------------
(* The refinement. *)

epollOwed == [c \in Clients |-> EpollOwed(c)]

\* The steps that EchoService does not see.
LEMMA EpollUnseenSteps == ASSUME EpollIInv,
     EpollWait \/ Handled \/ EpollAcceptFails \/ EpollReadFails
                          PROVE  UNCHANGED <<Here, Phase, epollOwed, ended>>
<1>1. UNCHANGED <<srv, ended>> /\ epc # "reply" /\ epc' # "reply"
  BY Zenon DEF EpollWait, Handled, EpollAcceptFails, EpollReadFails, InBatch, net
<1>2. UNCHANGED peer \/ \E c \in ep \ {NoClient} : ErrorTaken(c)
  BY Zenon DEF EpollWait, Handled, EpollAcceptFails, EpollReadFails, net
<1>3. Here' = Here
  <2>1. CASE UNCHANGED peer
    BY Zenon, <2>1 DEF Here
  <2>2. CASE \E c \in ep \ {NoClient} : ErrorTaken(c)
    BY <2>2, BatchIsOpen, CallsKeepPeer DEF EpollIInv
  <2> QED BY <1>2, <2>1, <2>2
<1>4. Phase' = Phase
  BY Zenon, <1>1 DEF Phase
<1>5. epollOwed = [c \in Clients |-> FALSE] /\ epollOwed' = [c \in Clients |-> FALSE]
  BY Zenon, <1>1 DEF epollOwed, EpollOwed
<1> QED BY <1>1, <1>3, <1>4, <1>5

\* read takes a request.
LEMMA EpollReadTakes == ASSUME EpollIInv, EpollRead PROVE \E c \in Clients : EpollEcho!Take(c)
<1>1. PICK c \in ep \ {NoClient} :
             /\ sockfd' = c /\ epc = "batch" /\ epc' = "reply"
             /\ UNCHANGED <<peer, srv, ended>>
  BY Zenon DEF EpollRead, InBatch
<1>2. c \in Clients /\ srv[c] = "open"
  BY BatchIsOpen
<1>3. UNCHANGED <<Here, Phase>> /\ Phase[c] = "served"
  <2>1. UNCHANGED <<Here, Phase>>
    BY Zenon, <1>1 DEF Here, Phase
  <2> QED BY <2>1, <1>2 DEF Phase
<1>4. epollOwed' = [epollOwed EXCEPT ![c] = TRUE]
  <2>1. epollOwed = [d \in Clients |-> FALSE]
    BY Zenon, <1>1 DEF epollOwed, EpollOwed
  <2>2. epollOwed' = [d \in Clients |-> c = d]
    BY Zenon, <1>1 DEF epollOwed, EpollOwed
  <2> QED BY <1>2, <2>1, <2>2
<1> QED BY <1>1, <1>2, <1>3, <1>4 DEF EpollEcho!Take, epollOwed

\* The end of a connection that was read releases it.
LEMMA EpollDropReleases == ASSUME EpollIInv, EpollDrop
     PROVE \E c \in Clients : EpollEcho!Release(c)
<1>1. PICK c \in ep \ {NoClient} :
             /\ AtEnd(c) /\ Closes(c) /\ epc = "batch" /\ epc' = "batch"
             /\ UNCHANGED <<peer, ended>>
  BY Zenon DEF EpollDrop, InBatch
<1>2. c \in Clients /\ srv[c] = "open" /\ NetInv
  BY BatchIsOpen DEF EpollIInv
<1>3. Phase[c] = "served" /\ Phase' = [Phase EXCEPT ![c] = "over"]
  BY <1>1, <1>2, CloseReleases
<1>4. Here' = Here
  BY Zenon, <1>1 DEF Here
<1>5. Here[c] = "left"
  BY <1>1, <1>2 DEF Here, AtEnd
<1>6. epollOwed = [d \in Clients |-> FALSE] /\ epollOwed' = [d \in Clients |-> FALSE]
  BY Zenon, <1>1 DEF epollOwed, EpollOwed
<1>7. epollOwed' = [epollOwed EXCEPT ![c] = FALSE]
  BY <1>6
<1> QED BY <1>1, <1>2, <1>3, <1>4, <1>5, <1>7 DEF EpollEcho!Release, epollOwed

\* write answers the request, or ends the server.
LEMMA EpollReplyAnswers == ASSUME EpollIInv, EpollReply
                           PROVE  EpollEcho!Stop \/ \E c \in Clients : EpollEcho!Answer(c)
<1> DEFINE c == sockfd
<1>1. c \in Clients /\ srv[c] = "open" /\ NetInv
  BY DEF EpollReply, EpollIInv, EpollReplyInv, TableIsCurrent
<1>2. srv' = srv /\ epc = "reply" /\ ~ ended
  BY DEF EpollReply
<1>3. Phase' = Phase /\ Phase[c] = "served"
  <2>1. Phase' = Phase
    BY Zenon, <1>2 DEF Phase
  <2> QED BY <2>1, <1>1 DEF Phase
<1>4. epollOwed = [d \in Clients |-> c = d]
  BY Zenon, <1>2 DEF epollOwed, EpollOwed
<1>5. CASE (Takes(c) \/ Refuses(c)) /\ epc' = "batch" /\ UNCHANGED ended
  <2>1. Here' = Here
    BY <1>1, <1>5, CallsKeepPeer
  <2>2. epollOwed' = [d \in Clients |-> FALSE]
    BY Zenon, <1>5 DEF epollOwed, EpollOwed
  <2>3. epollOwed[c] /\ epollOwed' = [epollOwed EXCEPT ![c] = FALSE]
    BY <1>1, <1>4, <2>2
  <2>4. EpollEcho!Answer(c)
    BY <1>3, <1>5, <2>1, <2>3 DEF EpollEcho!Answer, epollOwed
  <2> QED BY <1>1, <2>4
<1>6. CASE ended' = TRUE /\ UNCHANGED <<peer, epc, sockfd>>
  <2>1. Here' = Here
    BY Zenon, <1>6 DEF Here
  <2>2. epollOwed' = epollOwed
    BY Zenon, <1>6 DEF epollOwed, EpollOwed
  <2> QED BY <1>2, <1>3, <1>6, <2>1, <2>2 DEF EpollEcho!Stop, epollOwed
<1> QED BY <1>5, <1>6 DEF EpollReply

\* accept admits the client that has waited longest, also when the table is full.
LEMMA EpollAcceptAdmits == ASSUME EpollIInv, EpollAdmit
     PROVE \E c \in Clients : EpollEcho!Admit(c)
<1> DEFINE c == Accepted
<1>1. /\ Accepts("open") /\ backlog # << >>
      /\ ~ ended /\ UNCHANGED <<peer, ended>> /\ epc # "reply" /\ epc' # "reply"
  BY DEF EpollAdmit, InBatch, Accepts
<1>2. NetInv /\ c \in Clients
  BY <1>1, HeadIsNew DEF EpollIInv
<1>3. Here' = Here
  BY Zenon, <1>1 DEF Here
<1>4. Here[c] # "away" /\ Phase[c] = "new" /\ Phase' = [Phase EXCEPT ![c] = "served"]
  BY <1>1, <1>2, AcceptDecides
<1>5. epollOwed = [d \in Clients |-> FALSE] /\ epollOwed' = [d \in Clients |-> FALSE]
  BY Zenon, <1>1 DEF epollOwed, EpollOwed
<1> QED BY <1>1, <1>2, <1>3, <1>4, <1>5 DEF EpollEcho!Admit, epollOwed

\* The clients come, leave, and send unseen.
LEMMA EpollClientImplements == ASSUME EpollIInv, ClientStep, UNCHANGED epollOwn
                               PROVE  \/ \E c \in Clients : \/ EpollEcho!Arrive(c)
                                                            \/ EpollEcho!Leave(c)
                                      \/ UNCHANGED <<Here, Phase, epollOwed, ended>>
<1>1. PICK c \in Clients : Connect(c) \/ Send(c) \/ Leave(c)
  BY DEF ClientStep
<1>2. UNCHANGED ended /\ NetInv
  BY Zenon, <1>1 DEF Connect, Send, Leave, EpollIInv
<1>3. epollOwed' = epollOwed
  BY Zenon DEF epollOwed, EpollOwed, epollOwn
<1>4. CASE Connect(c)
  BY <1>2, <1>3, <1>4, ConnectArrives DEF EpollEcho!Arrive, epollOwed
<1>5. CASE Leave(c)
  BY <1>2, <1>3, <1>5, LeaveLeaves DEF EpollEcho!Leave, epollOwed
<1>6. CASE Send(c)
  BY <1>2, <1>3, <1>6, SendIsUnseen
<1> QED BY <1>1, <1>4, <1>5, <1>6

\* It starts as EchoService does ...
LEMMA EpollStartsEcho == ASSUME EpollInit PROVE EpollEcho!Init
<1>1. peer = [c \in Clients |-> "idle"] /\ srv = [c \in Clients |-> "none"] /\ ended = FALSE
        /\ epc = "wait"
  BY DEF EpollInit, NetInit
<1>2. Here = [c \in Clients |-> "away"] /\ Phase = [c \in Clients |-> "new"]
  BY <1>1 DEF Here, Phase
<1>3. epollOwed = [c \in Clients |-> FALSE]
  BY Zenon, <1>1 DEF epollOwed, EpollOwed
<1> QED BY <1>1, <1>2, <1>3 DEF EpollEcho!Init, epollOwed

\* ... and takes one of its steps, or none, with each of its own.
LEMMA EpollStepIsEcho == ASSUME EpollIInv, [EpollNext]_epollVars
                       PROVE  EpollEcho!Next \/ UNCHANGED <<Here, Phase, epollOwed, ended>>
<1>1. CASE EpollLoop
  BY <1>1, EpollUnseenSteps, EpollReadTakes, EpollDropReleases, EpollReplyAnswers,
       EpollAcceptAdmits DEF EpollLoop, EpollEcho!Next
<1>2. CASE ClientStep /\ UNCHANGED epollOwn
  BY <1>2, EpollClientImplements DEF EpollEcho!Next
<1>3. CASE UNCHANGED epollVars
  <2>1. UNCHANGED <<peer, srv, ended, epc, sockfd>>
    BY <1>3 DEF epollVars, net, epollOwn
  <2> QED BY Zenon, <2>1 DEF Here, Phase, epollOwed, EpollOwed
<1> QED BY <1>1, <1>2, <1>3 DEF EpollNext

\* The epoll server implements EchoService: nobody is answered who did not ask,
\* admitted twice, or given up while still there.
THEOREM EpollImplementsEcho == EpollSpec => EpollImplementsEchoService
<1>1. EpollIInv /\ [EpollNext]_epollVars => [EpollEcho!Next]_EpollEcho!vars
  BY EpollStepIsEcho DEF EpollEcho!vars, epollOwed
<1> QED BY <1>1, EpollStartsEcho, EpollInductive, PTL DEF EpollSpec, EpollEcho!Spec,
      EpollImplementsEchoService

-----------------------------------------------------------------------------
(* The types and the end of the process. *)

EpollRest == /\ Bounds /\ Excused
             /\ postponed \subseteq Clients \union {NoClient}
             /\ sockfd \in Clients \union {NoClient}
             /\ maxi <= EpollSlots + 1

\* No batch holds anything but clients and the listening socket, the bound on
\* the entries goes one beyond the table, and the process ends for SIGPIPE only.
LEMMA EpollRestKept == ASSUME EpollIInv, EpollRest, [EpollNext]_epollVars PROVE EpollRest'
<1>1. ep \subseteq Clients \union {NoClient} /\ interest \subseteq Clients
  BY DEF EpollIInv, EpollOwnTypes, TableIsCurrent
<1>2. ASSUME EpollLoop PROVE /\ Counts
                               /\ \/ UNCHANGED ended /\ ~ ended
                                  \/ \E c \in Clients : peer'[c] = "dead"
  <2>1. CASE EpollRead
    <3>1. PICK c \in ep \ {NoClient} : Receives(c)
      BY <2>1 DEF EpollRead
    <3>2. UNCHANGED <<sent, faults, ended>> /\ ~ ended
      BY <2>1, Zenon DEF EpollRead, InBatch
    <3> QED BY <1>1, <3>1, <3>2 DEF Counts
  <2>2. CASE EpollReply
    <3>1. sockfd \in Clients
      BY <2>2, <1>1 DEF EpollReply, EpollIInv, EpollReplyInv
    <3> QED BY <2>2, <3>1 DEF EpollReply, BrokenPipe, Counts
  <2>3. CASE EpollAcceptFails
    BY <2>3 DEF EpollAcceptFails, InBatch, Counts
  <2>4. CASE EpollWait \/ EpollAdmit \/ EpollReadFails \/ EpollDrop \/ Handled
    BY <2>4, Zenon DEF EpollWait, EpollAdmit, EpollReadFails, EpollDrop, Handled, InBatch, net,
         Counts
  <2> QED BY <1>2, <2>1, <2>2, <2>3, <2>4 DEF EpollLoop
<1>3. ASSUME EpollLoop
      PROVE  /\ postponed' \subseteq Clients \union {NoClient}
             /\ sockfd' \in Clients \union {NoClient}
             /\ maxi' <= EpollSlots + 1
  <2>1. CASE EpollWait
    <3>1. postponed' \subseteq EpollReady /\ UNCHANGED <<sockfd, maxi>>
      BY <2>1, Zenon DEF EpollWait
    <3> QED BY <1>1, <3>1 DEF EpollReady, EpollRest
  <2>2. CASE EpollAdmit \/ EpollAcceptFails
    <3>1. UNCHANGED <<postponed, sockfd>> /\ Raise(FreeEntry)
      BY <2>2, Zenon DEF EpollAdmit, EpollAcceptFails
    <3>2. FreeEntry <= EpollSlots /\ FreeEntry \in Nat /\ maxi \in Nat /\ EpollSlots \in Nat
      <4>1. FreeEntry = EpollSlots \/ FreeEntry < EpollSlots
        <5>1. Unused # {} => FreeEntry \in Unused
          <6>1. Unused \in SUBSET Nat
            BY SMT DEF Unused, EpollIndices
          <6> QED BY <6>1, LeastExists DEF FreeEntry
        <5>2. \A k \in Unused : k < EpollSlots
          BY SMT, EpollAssumption DEF Unused, EpollIndices
        <5> QED BY <5>1, <5>2 DEF FreeEntry
      <4> QED BY <4>1, FreeEntryIsFree, EpollAssumption DEF EpollIInv, EpollOwnTypes
    <3>3. maxi' <= EpollSlots + 1
      BY SMT, <3>1, <3>2 DEF Raise, EpollRest
    <3> QED BY <3>1, <3>3 DEF EpollRest
  <2>3. CASE EpollRead
    BY <2>3, <1>1, Zenon DEF EpollRead, EpollRest
  <2>4. CASE EpollReply
    BY <2>4 DEF EpollReply, EpollRest
  <2>5. CASE EpollReadFails \/ EpollDrop \/ Handled
    BY <2>5, Zenon DEF EpollReadFails, EpollDrop, Handled, EpollRest
  <2> QED BY <1>3, <2>1, <2>2, <2>3, <2>4, <2>5 DEF EpollLoop
<1>4. CASE EpollLoop
  BY <1>2, <1>3, <1>4, BoundsKept DEF EpollIInv, EpollRest, Excused
<1>5. CASE ~ ended /\ ClientStep /\ UNCHANGED epollOwn
  BY <1>5, ClientsCount, BoundsKept DEF EpollIInv, EpollRest, Excused, epollOwn
<1>6. CASE UNCHANGED epollVars
  BY <1>6, BoundsKept DEF EpollIInv, EpollRest, Excused, Counts, epollVars, net, epollOwn
<1> QED BY <1>4, <1>5, <1>6 DEF EpollNext

\* It holds at the start.
LEMMA EpollRestStarts == ASSUME EpollInit PROVE EpollRest
BY SMT, InitialBounds, EpollAssumption DEF EpollInit, EpollRest

\* With it every variable has its type.
LEMMA EpollTypes == EpollIInv /\ EpollRest => EpollTypeOK
<1> SUFFICES ASSUME EpollIInv, EpollRest PROVE EpollTypeOK
  OBVIOUS
<1>1. maxi \in 0 .. EpollSlots + 1 /\ interest \subseteq Clients
  BY SMT, EpollAssumption DEF EpollIInv, EpollOwnTypes, EpollRest, TableIsCurrent
<1> QED BY <1>1, BoundsAreTypes DEF EpollIInv, EpollOwnTypes, EpollRest, EpollTypeOK

-----------------------------------------------------------------------------
(* Why the epoll server goes on: every event of a batch can still be       *)
(* worked off when its turn comes.                                         *)

\* The guard of the server's next step.
EpollGoes ==
    \/ epc = "wait" /\ EpollReady # {}
    \/ /\ epc = "batch"
       /\ \/ ep = {}
          \/ NoClient \in ep /\ backlog # << >>
          \/ \E c \in ep \ {NoClient} : Readable(c)
    \/ epc = "reply" /\ peer[sockfd] # "idle"

EpollFresh == /\ \A c \in ep \ {NoClient} : Readable(c)
              /\ NoClient \in ep => backlog # << >>

\* What epoll_wait reports is true when it returns, and stays so until it is used.
LEMMA EpollStaysFresh ==
    ASSUME EpollIInv, EpollFresh, [EpollNext]_epollVars PROVE EpollFresh'
<1>1. CASE EpollWait
  <2>1. UNCHANGED <<peer, backlog, sent, got>> /\ ep' \subseteq EpollReady
    BY <1>1, Zenon DEF EpollWait, net
  <2>2. NoClient \notin interest
    BY ClientsAreNumbered DEF EpollIInv, TableIsCurrent
  <2>3. \A c \in EpollReady \ {NoClient} : Readable(c)
    BY DEF EpollReady
  <2>4. NoClient \in EpollReady => backlog # << >>
    BY <2>2 DEF EpollReady
  <2> QED BY <2>1, <2>3, <2>4 DEF EpollFresh, Readable, Unread, Gone
<1>2. CASE EpollAdmit \/ EpollAcceptFails \/ Handled \/ UNCHANGED epollVars
  <2>1. UNCHANGED <<peer, sent, got>> /\ (ep' = ep \ {NoClient} \/ (ep' = ep /\ backlog' = backlog))
    BY <1>2, Zenon DEF EpollAdmit, EpollAcceptFails, Handled, InBatch, epollVars, epollOwn, net
  <2> QED BY <2>1 DEF EpollFresh, Readable, Unread, Gone
<1>3. CASE EpollRead \/ EpollReadFails \/ EpollDrop
  <2>1. PICK c \in ep \ {NoClient} :
             /\ ep' = ep \ {c} /\ sent' = sent /\ backlog' = backlog
             /\ UNCHANGED peer \/ ErrorTaken(c)
             /\ UNCHANGED got \/ Receives(c)
    BY <1>3, Zenon DEF EpollRead, EpollReadFails, EpollDrop, InBatch
  <2>2. c \in Clients
    BY <2>1, BatchIsOpen
  <2>3. \A d \in Clients : d # c => got'[d] = got[d]
    BY <2>1, <2>2 DEF Receives, EpollIInv, NetInv, NetTypes
  <2>4. \A d \in Clients : d # c /\ Readable(d) => Readable(d)'
    BY <2>1, <2>2, <2>3, OthersReadable DEF EpollIInv
  <2>5. ep \ {NoClient} \subseteq Clients
    BY DEF EpollIInv, EpollOwnTypes
  <2> QED BY <2>1, <2>4, <2>5 DEF EpollFresh
<1>4. CASE EpollReply
  <2>1. /\ UNCHANGED <<ep, sent, got, backlog>> /\ sockfd \in Clients
        /\ UNCHANGED peer \/ Takes(sockfd) \/ Refuses(sockfd)
    BY <1>4, Zenon DEF EpollReply, EpollIInv, EpollReplyInv, TableIsCurrent
  <2>2. \A d \in Clients : Gone(d) => Gone(d)'
    BY <2>1, GoneForGood DEF EpollIInv
  <2> QED BY <2>1, <2>2 DEF EpollFresh, Readable, Unread, EpollIInv, EpollOwnTypes
<1>5. CASE ClientStep /\ UNCHANGED epollOwn
  <2>1. \A d \in Clients : Readable(d) => Readable(d)'
    BY <1>5, ReadableStays DEF EpollIInv
  <2>2. backlog # << >> => backlog' # << >>
    <3>1. backlog' = backlog \/ \E c \in Clients : backlog' = Append(backlog, c)
      BY <1>5 DEF ClientStep, Connect, Send, Leave
    <3>2. backlog \in Seq(Clients)
      BY DEF EpollIInv, NetInv, NetTypes
    <3> QED BY <3>1, <3>2
  <2>3. ep' = ep /\ ep \ {NoClient} \subseteq Clients
    BY <1>5 DEF epollOwn, EpollIInv, EpollOwnTypes
  <2> QED BY <2>1, <2>2, <2>3 DEF EpollFresh
<1> QED BY <1>1, <1>2, <1>3, <1>4, <1>5 DEF EpollNext, EpollLoop

\* No call fails on a connection that waits at the door.
LEMMA EpollKeepsDoor == ASSUME EpollIInv, DoorInv, [EpollNext]_epollVars PROVE DoorInv'
<1>1. CASE EpollAdmit
  BY <1>1, AcceptKeepsDoor DEF EpollAdmit, EpollIInv
<1>2. CASE EpollRead \/ EpollReadFails \/ EpollDrop \/ EpollReply
  <2>1. PICK c \in Clients :
             /\ srv[c] = "open" /\ backlog' = backlog
             /\ srv' = srv \/ Closes(c)
             /\ UNCHANGED peer \/ Takes(c) \/ Refuses(c) \/ ErrorTaken(c)
    <3>1. CASE EpollReply
      <4>1. sockfd \in Clients /\ srv[sockfd] = "open"
        BY <3>1 DEF EpollReply, EpollIInv, EpollReplyInv, TableIsCurrent
      <4> QED BY <3>1, <4>1, Zenon DEF EpollReply
    <3>2. CASE EpollRead \/ EpollReadFails \/ EpollDrop
      <4>1. PICK c \in ep \ {NoClient} :
                 /\ backlog' = backlog
                 /\ srv' = srv \/ Closes(c)
                 /\ UNCHANGED peer \/ ErrorTaken(c)
        BY <3>2, Zenon DEF EpollRead, EpollReadFails, EpollDrop
      <4> QED BY <4>1, BatchIsOpen
    <3> QED BY <1>2, <3>1, <3>2
  <2>2. \A d \in Clients : srv'[d] = "none" => srv[d] = "none" /\ peer'[d] = peer[d]
    BY <2>1 DEF Closes, Takes, Refuses, ErrorTaken, EpollIInv, NetInv, NetTypes
  <2> QED BY <2>1, <2>2, CallKeepsDoor
<1>3. CASE EpollWait \/ EpollAcceptFails \/ Handled \/ UNCHANGED epollVars
  <2>1. UNCHANGED <<peer, backlog, srv>>
    BY <1>3, Zenon DEF EpollWait, EpollAcceptFails, Handled, epollVars, net
  <2> QED BY <2>1 DEF DoorInv
<1>4. CASE ClientStep
  BY <1>4, ClientsKeepDoor DEF EpollIInv
<1> QED BY <1>1, <1>2, <1>3, <1>4 DEF EpollNext, EpollLoop

\* So the server is at work whenever it is not waiting in epoll_wait, and that call
\* returns for every connection with something to read.
LEMMA EpollGoesOn ==
    ASSUME EpollIInv, EpollFresh
    PROVE  /\ epc = "wait" \/ EpollGoes
           /\ \A c \in Clients : srv[c] = "open" /\ Readable(c) => EpollGoes
<1>1. epc = "wait" \/ EpollGoes
  <2>1. CASE epc = "batch"
    BY <2>1 DEF EpollFresh, EpollGoes
  <2>2. CASE epc = "reply"
    <3>1. sockfd \in Clients /\ srv[sockfd] = "open"
      BY <2>2 DEF EpollIInv, EpollReplyInv, TableIsCurrent
    <3> QED BY <2>2, <3>1 DEF EpollGoes, EpollIInv, NetInv, QueueInv
  <2> QED BY <2>1, <2>2 DEF EpollIInv, EpollOwnTypes
<1>2. ASSUME NEW c \in Clients, srv[c] = "open", Readable(c), epc = "wait" PROVE EpollGoes
  BY <1>2 DEF EpollGoes, EpollReady, EpollIInv, TableIsCurrent
<1> QED BY <1>1, <1>2
=============================================================================
