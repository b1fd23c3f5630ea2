------------------------------- MODULE SpawnServer -------------------------------
(***************************************************************************)
(* The two concurrent servers of ch07 that give each connection an agent   *)
(* of its own: a process (7.3 tcpForkServer/main.cpp, whose parent and     *)
(* child both hold the descriptor) or a detached thread (7.4, where there  *)
(* is one descriptor table).  Nobody waits for the processes, so each      *)
(* leaves a zombie that counts against MaxKids; threads are recycled.      *)
(***************************************************************************)
EXTENDS Sockets

CONSTANT MaxKids        \* processes or threads the system allows

ASSUME SpawnAssumption == MaxKids \in Nat

VARIABLES byProcess,    \* fork, or pthread_create: which of the two programs it is
          mpc,          \* the main loop: "accept", "spawn" or "close"
          connfd,       \* the connection it has at hand
          kid,          \* each client's agent: "none", "recv", "reply" or "done"
          held          \* who holds a descriptor of the connection

spawnOwn  == <<byProcess, mpc, connfd, kid, held>>
spawnVars == <<net, spawnOwn>>

SpawnTypeOK == /\ NetTypeOK
               /\ byProcess \in BOOLEAN
               /\ mpc \in {"accept", "spawn", "close"}
               /\ connfd \in Clients \union {NoClient}
               /\ kid \in [Clients -> {"none", "recv", "reply", "done"}]
               /\ held \in [Clients -> SUBSET {"main", "child"}]

SpawnInit == /\ NetInit
             /\ byProcess \in BOOLEAN
             /\ mpc = "accept" /\ connfd = NoClient
             /\ kid = [c \in Clients |-> "none"]
             /\ held = [c \in Clients |-> {}]

Kids == IF byProcess THEN {c \in Clients : kid[c] # "none"}
                     ELSE {c \in Clients : kid[c] \in {"recv", "reply"}}

\* A shutdown in place of the close: the connection ends with the first one.
Drops_Mutant(who, c) == held' = [held EXCEPT ![c] = @ \ {who}] /\ Closes(c)

\* close(): the connection ends with the last descriptor of it.
Drops(who, c) == /\ held' = [held EXCEPT ![c] = @ \ {who}]
                 /\ IF held[c] \subseteq {who} THEN Closes(c) ELSE UNCHANGED srv

-----------------------------------------------------------------------------
(* The main loop. *)

Accept == /\ ~ ended /\ mpc = "accept"
          /\ Accepts("open")
          /\ connfd' = Accepted
          /\ held' = [held EXCEPT ![Accepted] = {"main"}]
          /\ mpc' = "spawn"
          /\ UNCHANGED <<peer, sent, got, faults, ended, kid>>

\* exit in the one program, continue in the other.
SpawnAcceptFails == /\ ~ ended /\ mpc = "accept" /\ backlog # << >>
                    /\ Fails
                    /\ ended' = byProcess
                    /\ UNCHANGED <<peer, backlog, srv, sent, got, spawnOwn>>

Fork == /\ ~ ended /\ mpc = "spawn" /\ byProcess /\ Cardinality(Kids) < MaxKids
        /\ kid' = [kid EXCEPT ![connfd] = "recv"]
        /\ held' = [held EXCEPT ![connfd] = {"main", "child"}]
        /\ mpc' = "close"
        /\ UNCHANGED <<net, connfd>>

\* fork returns -1 at the limit, or for want of memory: _exit.
ForkFails == /\ ~ ended /\ mpc = "spawn" /\ byProcess
             /\ \/ Cardinality(Kids) >= MaxKids /\ UNCHANGED faults
                \/ Fails
             /\ ended' = TRUE
             /\ UNCHANGED <<peer, backlog, srv, sent, got, spawnOwn>>

\* The parent goes on without close(connfd).
Close_Mutant == /\ ~ ended /\ mpc = "close"
                /\ mpc' = "accept" /\ connfd' = NoClient
                /\ UNCHANGED <<net, kid, held>>

Close == /\ ~ ended /\ mpc = "close"
         /\ Drops("main", connfd)
         /\ mpc' = "accept" /\ connfd' = NoClient
         /\ UNCHANGED <<peer, backlog, sent, got, faults, ended, kid>>

Create == /\ ~ ended /\ mpc = "spawn" /\ ~ byProcess /\ Cardinality(Kids) < MaxKids
          /\ kid' = [kid EXCEPT ![connfd] = "recv"]
          /\ mpc' = "accept" /\ connfd' = NoClient
          /\ UNCHANGED <<net, held>>

\* The result is not looked at: nobody serves the connection, and the
\* identifier that is detached is an old one or was never written.
CreateFails == /\ ~ ended /\ mpc = "spawn" /\ ~ byProcess
               /\ \/ Cardinality(Kids) >= MaxKids /\ UNCHANGED faults
                  \/ Fails
               /\ mpc' = "accept" /\ connfd' = NoClient
               /\ ended' \in BOOLEAN
               /\ UNCHANGED <<peer, backlog, srv, sent, got, kid, held>>

Main == /\ \/ Accept \/ SpawnAcceptFails \/ Fork \/ ForkFails
           \/ Close \/ Create \/ CreateFails
        /\ UNCHANGED byProcess

-----------------------------------------------------------------------------
(* The agents: a child process outlives its parent. *)

Alive(c) == byProcess \/ ~ ended
Mine     == IF byProcess THEN "child" ELSE "main"

KidReads(c) == /\ Alive(c) /\ kid[c] = "recv" /\ Receives(c)
               /\ kid' = [kid EXCEPT ![c] = "reply"]
               /\ UNCHANGED <<peer, backlog, srv, sent, faults, ended, mpc, connfd, held>>

KidReplies(c) == /\ Alive(c) /\ kid[c] = "reply"
                 /\ Takes(c) \/ Refuses(c)
                 /\ kid' = [kid EXCEPT ![c] = "recv"]
                 /\ UNCHANGED <<backlog, srv, sent, got, faults, ended, mpc, connfd, held>>

\* SIGPIPE: the end of one child, or of the process with all its threads.
KidIsKilled(c) == /\ Alive(c) /\ kid[c] = "reply" /\ BrokenPipe(c)
                  /\ IF byProcess
                     THEN /\ Drops(Mine, c)
                          /\ kid' = [kid EXCEPT ![c] = "done"]
                          /\ UNCHANGED ended
                     ELSE ended' = TRUE /\ UNCHANGED <<srv, held, kid>>
                  /\ UNCHANGED <<peer, backlog, sent, got, faults, mpc, connfd>>

\* recv <= 0, close, exit(0) or return.
KidEnds(c) == /\ Alive(c) /\ kid[c] = "recv" /\ (AtEnd(c) \/ AtError(c))
              /\ ErrorTaken(c)
              /\ Drops(Mine, c)
              /\ kid' = [kid EXCEPT ![c] = "done"]
              /\ UNCHANGED <<backlog, sent, got, faults, ended, mpc, connfd>>

Kid(c) == /\ KidReads(c) \/ KidReplies(c) \/ KidIsKilled(c) \/ KidEnds(c)
          /\ UNCHANGED byProcess

SpawnNext == Main \/ (\E c \in Clients : Kid(c)) \/ (ClientStep /\ UNCHANGED spawnOwn)

SpawnSpec == SpawnInit /\ [][SpawnNext]_spawnVars

SpawnFairness == WF_spawnVars(Main) /\ \A c \in Clients : WF_spawnVars(Kid(c))

SpawnFairSpec == SpawnSpec /\ SpawnFairness

-----------------------------------------------------------------------------
SpawnOwed(c) == kid[c] = "reply"

\* No thread was created for an accepted connection.
Orphan(c) == srv[c] = "open" /\ kid[c] = "none" /\ connfd # c
===============================================================================
