------------------------------ MODULE SelectServer ------------------------------
(***************************************************************************)
(* The select server of ch07/7.5 (7.5/main.cpp): one thread that waits,    *)
(* scans the table fd[] for what select reported, answers, and accepts.    *)
(* The scan is bounded by the number of connections, not by the size of    *)
(* the table.  select's timeout changes nothing and is left out.           *)
(***************************************************************************)
EXTENDS Sockets

CONSTANT SelectSlots    \* the size of fd[]

ASSUME SelectAssumption == SelectSlots \in Nat \ {0}

VARIABLES spc,          \* "wait" in select, "scan", "reply" or "accept"
          i,            \* the index of the scan
          fd,           \* the table; NoClient is the 0 of the code
          fdsr,         \* the set select returned; NoClient stands for sock_fd
          conn_amount

selectOwn  == <<spc, i, fd, fdsr, conn_amount>>
selectVars == <<net, selectOwn>>

SelectIndices == 0 .. SelectSlots - 1

SelectTypeOK == /\ NetTypeOK
                /\ spc \in {"wait", "scan", "reply", "accept"}
                /\ i \in 0 .. SelectSlots
                /\ fd \in [SelectIndices -> Clients \union {NoClient}]
                /\ fdsr \subseteq Clients \union {NoClient}
                /\ conn_amount \in 0 .. SelectSlots

SelectInit == /\ NetInit
              /\ spc = "wait" /\ i = 0
              /\ fd = [k \in SelectIndices |-> NoClient]
              /\ fdsr = {}
              /\ conn_amount = 0

Occupied == {k \in SelectIndices : fd[k] # NoClient}
Watched  == {fd[k] : k \in Occupied}

\* FD_ZERO and FD_SET of every entry, then select returns what is ready.
SelectWait == /\ ~ ended /\ spc = "wait"
              /\ fdsr' = {c \in Watched : Readable(c)}
                         \union (IF backlog # << >> THEN {NoClient} ELSE {})
              /\ fdsr' # {}
              /\ spc' = "scan" /\ i' = 0
              /\ UNCHANGED <<net, fd, conn_amount>>

InScan == ~ ended /\ spc = "scan" /\ i < conn_amount

\* An empty entry is the descriptor 0, which is never in the set.
Selected == fd[i] # NoClient /\ fd[i] \in fdsr

SelectSkip == /\ InScan /\ ~ Selected
              /\ i' = i + 1
              /\ UNCHANGED <<net, spc, fd, fdsr, conn_amount>>

SelectRead == /\ InScan /\ Selected /\ Receives(fd[i])
              /\ spc' = "reply"
              /\ UNCHANGED <<peer, backlog, srv, sent, faults, ended, i, fd, fdsr, conn_amount>>

\* ret <= 0: end of file and error alike.
SelectDrop == /\ InScan /\ Selected /\ (AtEnd(fd[i]) \/ AtError(fd[i]))
              /\ Closes(fd[i]) /\ ErrorTaken(fd[i])
              /\ fdsr' = fdsr \ {fd[i]}
              /\ fd' = [fd EXCEPT ![i] = NoClient]
              /\ conn_amount' = conn_amount - 1
              /\ i' = i + 1
              /\ UNCHANGED <<backlog, sent, got, faults, ended, spc>>

\* The result of send is not looked at; SIGPIPE ends the process.
SelectReply == /\ ~ ended /\ spc = "reply"
               /\ \/ /\ (Takes(fd[i]) \/ Refuses(fd[i]))
                     /\ spc' = "scan" /\ i' = i + 1
                     /\ UNCHANGED ended
                  \/ /\ BrokenPipe(fd[i])
                     /\ ended' = TRUE
                     /\ UNCHANGED <<peer, spc, i>>
               /\ UNCHANGED <<backlog, srv, sent, got, faults, fd, fdsr, conn_amount>>

\* With the table full the listening socket is left alone.
Scanned_Mutant == /\ ~ ended /\ spc = "scan" /\ i >= conn_amount
                  /\ spc' = IF NoClient \in fdsr /\ conn_amount < SelectSlots THEN "accept"
                                                                   ELSE "wait"
                  /\ fdsr' = {} /\ i' = 0
                  /\ UNCHANGED <<net, fd, conn_amount>>

Scanned == /\ ~ ended /\ spc = "scan" /\ i >= conn_amount
           /\ spc' = IF NoClient \in fdsr THEN "accept" ELSE "wait"
           /\ fdsr' = {} /\ i' = 0
           /\ UNCHANGED <<net, fd, conn_amount>>

\* accept <= 0: the connection stays in the queue.
SelectAcceptFails == /\ ~ ended /\ spc = "accept"
                     /\ Fails
                     /\ spc' = "wait"
                     /\ UNCHANGED <<peer, backlog, srv, sent, got, ended, i, fd, fdsr,
                                     conn_amount>>

\* The next entry behind the connections counts as free.
Free_Mutant == IF conn_amount < SelectSlots THEN conn_amount ELSE 0

Free == CHOOSE k \in SelectIndices : /\ fd[k] = NoClient
                                     /\ \A j \in 0 .. k - 1 : fd[j] # NoClient

SelectAdmit == /\ ~ ended /\ spc = "accept" /\ conn_amount < SelectSlots
               /\ Accepts("open")
               /\ fd' = [fd EXCEPT ![Free] = Accepted]
               /\ conn_amount' = conn_amount + 1
               /\ spc' = "wait"
               /\ UNCHANGED <<peer, sent, got, faults, ended, i, fdsr>>

\* "bye": the first send on this connection, so it cannot raise SIGPIPE.
Refuse == /\ ~ ended /\ spc = "accept" /\ conn_amount >= SelectSlots
          /\ Accepts("refused")
          /\ (Takes(Accepted) \/ Refuses(Accepted))
          /\ spc' = "wait"
          /\ UNCHANGED <<sent, got, faults, ended, i, fd, fdsr, conn_amount>>

SelectLoop == \/ SelectWait \/ SelectSkip \/ SelectRead \/ SelectDrop \/ SelectReply \/ Scanned
              \/ SelectAcceptFails \/ SelectAdmit \/ Refuse

SelectNext == SelectLoop \/ (~ ended /\ ClientStep /\ UNCHANGED selectOwn)

SelectSpec == SelectInit /\ [][SelectNext]_selectVars

\* The process runs whenever it can; the clients owe nothing.
SelectFairness == WF_selectVars(SelectLoop)

SelectFairSpec == SelectSpec /\ SelectFairness

-----------------------------------------------------------------------------
\* conn_amount is the number of entries in use, because a close decrements it on
\* line 121.  The header of the program (7.5/main.cpp:1) says that it does not.
CountMatches == conn_amount = Cardinality(Occupied)

(* The table holds every connection that is open, once, and no other: a    *)
(* connection outside it would never be watched again, and a closed        *)
(* descriptor in it would make select fail.                                *)
TableMatches == /\ Watched = {c \in Clients : srv[c] = "open"}
                /\ \A k, l \in Occupied : fd[k] = fd[l] => k = l

\* The request read from c and not yet answered.
SelectOwed(c) == spc = "reply" /\ fd[i] = c
===============================================================================
