------------------------------ MODULE EchoServers ------------------------------
(***************************************************************************)
(* The five servers of ch07 under the same clients.  The program that runs *)
(* is chosen at the start and never changes; the variables of the others   *)
(* keep their initial values.                                              *)
(***************************************************************************)
EXTENDS SelectServer, PollServer, EpollServer, SpawnServer

CONSTANTS Programs,     \* the servers to check
          Crowded       \* those that meet the last client too

ASSUME ProgramsExist == Programs \subseteq {"select", "poll", "epoll", "process", "thread"}

VARIABLE server

vars == <<net, server, selectOwn, pollOwn, epollOwn, spawnOwn>>

Init == /\ server \in Programs
        /\ SelectInit /\ PollInit /\ EpollInit /\ SpawnInit
        /\ byProcess = (server = "process")

SelectRuns == server = "select" /\ UNCHANGED <<server, pollOwn, epollOwn, spawnOwn>>
PollRuns   == server = "poll" /\ UNCHANGED <<server, selectOwn, epollOwn, spawnOwn>>
EpollRuns  == server = "epoll" /\ UNCHANGED <<server, selectOwn, pollOwn, spawnOwn>>
SpawnRuns  == server \in {"process", "thread"}
              /\ UNCHANGED <<server, selectOwn, pollOwn, epollOwn>>

Next == /\ \/ SelectRuns /\ SelectNext
           \/ PollRuns /\ PollNext
           \/ EpollRuns /\ EpollNext
           \/ SpawnRuns /\ SpawnNext
        /\ server \in Crowded \/ peer'[NumClients] = "idle"

Spec == Init /\ [][Next]_vars

Fairness == /\ WF_vars(SelectRuns /\ SelectLoop)
            /\ WF_vars(PollRuns /\ PollLoop)
            /\ WF_vars(EpollRuns /\ EpollLoop)
            /\ WF_vars(SpawnRuns /\ Main)
            /\ \A c \in Clients : WF_vars(SpawnRuns /\ Kid(c))

FairSpec == Spec /\ Fairness

-----------------------------------------------------------------------------
(* The variables of all the servers have their types.                      *)
TypeOK == SelectTypeOK /\ PollTypeOK /\ EpollTypeOK /\ SpawnTypeOK

(* TableMatches of SelectServer, and TableIsCurrent of EpollServer, of the *)
(* program that keeps the table.                                           *)
SelectTableMatches  == server = "select" => TableMatches
EpollTableIsCurrent == server = "epoll" => TableIsCurrent

(* A server ends only for a reason outside it: a peer that left while it   *)
(* was answered (SIGPIPE; in the poll server any error of a read or write, *)
(* or an overrun of its table), a call that failed for want of resources,  *)
(* or, with a process for each client, the limit on processes.  The select *)
(* server in particular does not end when its table is full: it turns the  *)
(* client away and goes on, though 7.5/main.cpp says that the maximum ends *)
(* the program (line 1) and prints 'max connections arrive ,exit' (159).   *)
EndsOnlyFor ==
    ended => \/ faults > 0
             \/ server # "process" /\ \E c \in Clients : peer[c] \in {"reset", "dead"}
             \/ server = "poll" /\ Len(fds) > PollSlots
             \/ server = "process" /\ Cardinality(Kids) = MaxKids
             \/ server = "thread" /\ \E c \in Clients : Orphan(c)

Owed(c) == CASE server = "select" -> SelectOwed(c)
             [] server = "poll"   -> PollOwed(c)
             [] server = "epoll"  -> EpollOwed(c)
             [] OTHER             -> SpawnOwed(c)

(* Each server implements EchoService: nobody is answered without having   *)
(* asked, admitted twice, or given up while still there.                   *)
Echo == INSTANCE EchoService WITH here <- Here, phase <- Phase,
                                  owed <- [c \in Clients |-> Owed(c)],
                                  admitting <- ~ ended
ImplementsEchoService == Echo!Spec

\* A child process goes on without its parent.
Stopped == ended /\ server # "process"

\* Where the server promises to look at c's connection: the select server
\* only at its first entry, the poll server until it has answered once.
Attended(c) == /\ srv[c] = "open"
               /\ server = "select" => fd[0] = c
               /\ server = "poll" => got[c] = 0
               /\ server \in {"process", "thread"} => kid[c] # "none"

(* A connection that waits to be accepted is admitted or refused.          *)
EveryoneGetsVerdict == \A c \in Clients : (peer[c] = "open" /\ srv[c] = "none")
                                             ~> (srv[c] # "none" \/ ended)

\* What c has sent is read and answered.  Of the poll server this is said of
\* what its read loop took before the answer: it hears nothing after it.
Answered(c) == IF server = "poll" THEN got[c] > 0 /\ ~ PollDue(c)
               ELSE ~ Unread(c) /\ ~ Owed(c)

(* What a client sends is read and answered, whatever the other clients do *)
(* or leave undone; only a client that leaves is dropped without.  Nothing *)
(* is claimed for what Attended leaves out: a second request to the poll   *)
(* server, an entry behind the first of the select server, a connection    *)
(* whose thread could not be created.                                      *)
RequestsAreAnswered ==
    \A c \in Clients : (Attended(c) /\ Unread(c))
                         ~> (Answered(c) \/ srv[c] = "closed" \/ Stopped)

(* The connection of a client that has left is closed on this side too.    *)
LeaversAreReleased == \A c \in Clients : (Attended(c) /\ Gone(c))
                                            ~> (srv[c] = "closed" \/ Stopped)

(* Every connection with data is looked at by the select server.           *)
EveryoneIsServed == \A c \in Clients : (server = "select" /\ srv[c] = "open" /\ Unread(c))
                                          ~> (~ Unread(c) \/ ended)
===============================================================================
