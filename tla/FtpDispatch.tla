----------------------------- MODULE FtpDispatch -----------------------------
(***************************************************************************)
(* How the FTP server of ch10 hands its connections to its threads: the    *)
(* main thread accepts (main.cpp), picks a worker in turn (XThreadPool),   *)
(* wakes it through its pipe and then initialises the session itself       *)
(* (XThread::Activate, XFtpServerCMD::Init), on the worker's event_base,   *)
(* while the worker's event loop is running.  Every session then lives on  *)
(* its worker's loop until it is deleted by the end of its connection, an  *)
(* error or the idle timeout (XFtpServerCMD::Event).                       *)
(*                                                                         *)
(* libevent is modelled by its contract: epoll_wait returns when a         *)
(* registered event is ready or when the earliest timer known when it was  *)
(* called expires; a base created with EVENT_BASE_FLAG_NOLOCK is not       *)
(* notified when another thread adds a timer to it.                        *)
(***************************************************************************)
EXTENDS Integers, Sequences, FiniteSets

CONSTANTS Clients,
          NoClient,     \* no connection at hand
          NumThreads,   \* XThreadPool::Init(10)
          Backlog,      \* the listen queue of evconnlistener_new_bind, 10
          PipeCap,      \* bytes a notification pipe holds before write blocks
          Active,       \* the clients that send and leave; the others stay silent
          MaxSends      \* how often a client sends in the model

ASSUME DispatchAssumption ==
    /\ NoClient \notin Clients /\ IsFiniteSet(Clients)
    /\ NumThreads \in Nat \ {0}
    /\ Backlog \in Nat \ {0}
    /\ PipeCap \in Nat \ {0}
    /\ MaxSends \in Nat

Threads == 0 .. NumThreads - 1

VARIABLES
    \* the clients and their sockets
    cstate,     \* "idle", "open", "closed" (orderly) or "reset"
    sent,       \* how many times each client has sent
    inbox,      \* the socket holds bytes the server has not read
    greeted,    \* the 220 greeting of the session is on the socket
    backlog,    \* connections completed and not yet accepted
    \* the main thread
    mpc,        \* where it is in main, Dispatch, Activate and Init
    conn, tid,  \* the connection and the thread it is working on
    lastThread, \* XThreadPool::lastThread
    broken,     \* it has used a bufferevent that was already freed
    \* what main and a worker share
    tasks,      \* XThread::tasks
    pipe,       \* bytes in the notification pipe
    loop,       \* the worker's loop: "unborn", "awake", or "asleep" in epoll_wait
    timed,      \* the epoll_wait in progress has a timeout
    \* the XFtpServerCMD objects
    obj,        \* "none", "alive" or "freed"
    base,       \* the thread on whose event_base the task is, -1 for none
    bevSet,     \* this->cmdTask and this->bev are assigned
    cbSet,      \* the callbacks are installed
    out,        \* the write event is registered
    armed       \* the read event and its 300 s timer are registered

clientVars == <<cstate, sent, inbox>>
poolVars   == <<backlog, lastThread, tasks>>
mainVars   == <<mpc, conn, tid>>
loopVars   == <<loop, timed>>
taskVars   == <<obj, base, bevSet, cbSet, out, armed>>
vars == <<clientVars, greeted, poolVars, mainVars, broken, pipe, loopVars, taskVars>>

Init == /\ cstate = [c \in Clients |-> "idle"]
        /\ sent = [c \in Clients |-> 0]
        /\ inbox = [c \in Clients |-> FALSE]
        /\ greeted = [c \in Clients |-> FALSE]
        /\ backlog = << >>
        /\ mpc = "init" /\ conn = NoClient /\ tid = 0
        /\ lastThread = -1
        /\ broken = FALSE
        /\ tasks = [w \in Threads |-> << >>]
        /\ pipe = [w \in Threads |-> 0]
        /\ loop = [w \in Threads |-> "unborn"]
        /\ timed = [w \in Threads |-> FALSE]
        /\ obj = [c \in Clients |-> "none"]
        /\ base = [c \in Clients |-> -1]
        /\ bevSet = [c \in Clients |-> FALSE]
        /\ cbSet = [c \in Clients |-> FALSE]
        /\ out = [c \in Clients |-> FALSE]
        /\ armed = [c \in Clients |-> FALSE]

-----------------------------------------------------------------------------
(* The clients. *)

Connect(c) == /\ cstate[c] = "idle"
              /\ Len(backlog) < Backlog
              /\ cstate' = [cstate EXCEPT ![c] = "open"]
              /\ backlog' = Append(backlog, c)
              /\ UNCHANGED <<sent, inbox, greeted, lastThread, tasks, mainVars,
                             broken, pipe, loopVars, taskVars>>

\* What a client does once its session is over is not modelled.
ClientSend(c) == /\ cstate[c] = "open"
                 /\ c \in Active /\ obj[c] # "freed"
                 /\ sent[c] < MaxSends
                 /\ sent' = [sent EXCEPT ![c] = @ + 1]
                 /\ inbox' = [inbox EXCEPT ![c] = TRUE]
                 /\ UNCHANGED <<cstate, greeted, poolVars, mainVars, broken, pipe,
                                loopVars, taskVars>>

\* A reset throws away what the server has not read yet.
ClientLeave(c) == /\ cstate[c] = "open"
                  /\ c \in Active /\ obj[c] # "freed"
                  /\ \/ /\ cstate' = [cstate EXCEPT ![c] = "closed"]
                        /\ UNCHANGED inbox
                     \/ /\ cstate' = [cstate EXCEPT ![c] = "reset"]
                        /\ inbox' = [inbox EXCEPT ![c] = FALSE]
                  /\ UNCHANGED <<sent, greeted, poolVars, mainVars, broken, pipe,
                                 loopVars, taskVars>>

-----------------------------------------------------------------------------
(* The main thread. *)

\* XThreadPool::Init starts the workers one after the other, before main listens.
StartThread ==
    /\ mpc = "init"
    /\ loop' = [loop EXCEPT ![tid] = "awake"]
    /\ IF tid = NumThreads - 1 THEN mpc' = "accept" /\ tid' = tid
                               ELSE mpc' = "init" /\ tid' = tid + 1
    /\ UNCHANGED <<clientVars, greeted, poolVars, conn, broken, pipe, timed, taskVars>>

\* Mutants: the turn does not wrap around; the last thread is never used.
NextThread_Mutant1 == lastThread + 1
NextThread_Mutant2 ==
    (lastThread + 1) % (IF NumThreads > 1 THEN NumThreads - 1 ELSE 1)

\* Dispatch: the threads are used in turn.
NextThread == (lastThread + 1) % NumThreads

CreateTask(c) == obj' = [obj EXCEPT ![c] = "alive"]

AddTack(w, c) == /\ base' = [base EXCEPT ![c] = w]
                 /\ tasks' = [tasks EXCEPT ![w] = Append(@, c)]

Dispatch(c) == /\ tid' = NextThread
               /\ lastThread' = NextThread
               /\ AddTack(NextThread, c)

\* listen_cb: a session object for the connection goes to the next thread in turn.
Accept ==
    /\ mpc = "accept"
    /\ backlog # << >>
    /\ conn' = Head(backlog)
    /\ CreateTask(conn')
    /\ Dispatch(conn')
    /\ backlog' = Tail(backlog)
    /\ mpc' = "wake"
    /\ UNCHANGED <<clientVars, greeted, broken, pipe, loopVars, bevSet, cbSet, out,
                   armed>>

\* The connection is dealt with: back to main's event loop.
Return == mpc' = "accept" /\ conn' = NoClient

\* Mutant: Activate gives up when the pipe is full.
Wake_Mutant ==
    /\ mpc = "wake"
    /\ IF pipe[tid] < PipeCap
       THEN pipe' = [pipe EXCEPT ![tid] = @ + 1] /\ mpc' = "pop" /\ UNCHANGED conn
       ELSE Return /\ UNCHANGED pipe
    /\ UNCHANGED <<clientVars, greeted, poolVars, tid, broken, loopVars, taskVars>>

\* Activate: write one byte to the worker's pipe, blocking while it is full.
Wake == /\ mpc = "wake"
        /\ pipe[tid] < PipeCap
        /\ pipe' = [pipe EXCEPT ![tid] = @ + 1]
        /\ mpc' = "pop"
        /\ UNCHANGED <<clientVars, greeted, poolVars, conn, tid, broken, loopVars,
                       taskVars>>

\* Activate: take the oldest task off the list and initialise it, right here.
Pop == /\ mpc = "pop"
       /\ IF tasks[tid] = << >>
          THEN Return /\ UNCHANGED tasks
          ELSE /\ conn' = Head(tasks[tid])
               /\ tasks' = [tasks EXCEPT ![tid] = Tail(@)]
               /\ mpc' = "new"
       /\ UNCHANGED <<clientVars, greeted, backlog, lastThread, tid, broken, pipe,
                      loopVars, taskVars>>

\* Init: bufferevent_socket_new fails only when memory runs out; the object is
\* then deleted and the socket is left open.
NewBev == /\ mpc = "new"
          /\ \/ mpc' = "greet" /\ UNCHANGED <<conn, obj>>
             \/ Return /\ obj' = [obj EXCEPT ![conn] = "freed"]
          /\ UNCHANGED <<clientVars, greeted, poolVars, tid, broken, pipe,
                         loopVars, base, bevSet, cbSet, out, armed>>

\* Init: writing the greeting registers the write event on the worker's base.
Greet == /\ mpc = "greet"
         /\ out' = [out EXCEPT ![conn] = TRUE]
         /\ mpc' = "assign"
         /\ UNCHANGED <<clientVars, greeted, poolVars, conn, tid, broken, pipe,
                        loopVars, obj, base, bevSet, cbSet, armed>>

\* Mutant: Init keeps the bufferevent in its local variable only.
Assign_Mutant == /\ mpc = "assign"
                 /\ mpc' = "setcb"
                 /\ UNCHANGED <<clientVars, greeted, poolVars, conn, tid, broken, pipe,
                                loopVars, taskVars>>

Assign == /\ mpc = "assign"
          /\ bevSet' = [bevSet EXCEPT ![conn] = TRUE]
          /\ mpc' = "setcb"
          /\ UNCHANGED <<clientVars, greeted, poolVars, conn, tid, broken, pipe,
                         loopVars, obj, base, cbSet, out, armed>>

\* Setcb, its first half ...
SetCallbacks == /\ mpc = "setcb"
                /\ cbSet' = [cbSet EXCEPT ![conn] = TRUE]
                /\ mpc' = "enable"
                /\ UNCHANGED <<clientVars, greeted, poolVars, conn, tid, broken,
                               pipe, loopVars, obj, base, bevSet, out, armed>>

\* Mutant: only reading is enabled.
Enable_Mutant == /\ mpc = "enable"
                 /\ IF obj[conn] = "alive"
                    THEN armed' = [armed EXCEPT ![conn] = TRUE] /\ UNCHANGED broken
                    ELSE broken' = TRUE /\ UNCHANGED armed
                 /\ Return
                 /\ UNCHANGED <<clientVars, greeted, poolVars, tid, pipe, loopVars, obj,
                                base, bevSet, cbSet, out>>

\* ... and its second: the read event with its timer, and then the write event,
\* are registered on the worker's base.  The socket can be written, so the write
\* event wakes a loop that was asleep.  What happens on a freed bufferevent is
\* undefined, and the model stops there.
Enable == /\ mpc = "enable"
          /\ IF obj[conn] = "alive"
             THEN /\ armed' = [armed EXCEPT ![conn] = TRUE]
                  /\ out' = [out EXCEPT ![conn] = TRUE]
                  /\ UNCHANGED broken
             ELSE broken' = TRUE /\ UNCHANGED <<armed, out>>
          /\ Return
          /\ UNCHANGED <<clientVars, greeted, poolVars, tid, pipe, loopVars, obj,
                         base, bevSet, cbSet>>

MainStep == /\ ~ broken
            /\ \/ StartThread \/ Accept \/ Wake \/ Pop \/ NewBev
               \/ Greet \/ Assign \/ SetCallbacks \/ Enable

-----------------------------------------------------------------------------
(* The worker threads: event_base_dispatch and the callbacks it runs. *)

Gone(c) == cstate[c] \in {"closed", "reset"}
On(w)   == {c \in Clients : base[c] = w /\ obj[c] = "alive"}

ReadReady(c) == armed[c] /\ (inbox[c] \/ Gone(c))
Ready(w) == pipe[w] > 0 \/ \E c \in On(w) : out[c] \/ ReadReady(c)

\* The loop computes the timeout of epoll_wait from the timers it has now.
Sleep(w) == /\ loop[w] = "awake"
            /\ ~ Ready(w)
            /\ loop' = [loop EXCEPT ![w] = "asleep"]
            /\ timed' = [timed EXCEPT ![w] = \E c \in On(w) : armed[c]]
            /\ UNCHANGED <<clientVars, greeted, poolVars, mainVars, broken, pipe,
                           taskVars>>

WakeUp(w) == /\ loop[w] = "asleep"
             /\ Ready(w)
             /\ loop' = [loop EXCEPT ![w] = "awake"]
             /\ timed' = [timed EXCEPT ![w] = FALSE]
             /\ UNCHANGED <<clientVars, greeted, poolVars, mainVars, broken, pipe,
                            taskVars>>

\* Mutant: Notify leaves the byte in the pipe.
Notify_Mutant(w) == /\ loop[w] = "awake"
                    /\ pipe[w] > 0
                    /\ UNCHANGED vars

\* XThread::Notify reads one byte.
Notify(w) == /\ loop[w] = "awake"
             /\ pipe[w] > 0
             /\ pipe' = [pipe EXCEPT ![w] = @ - 1]
             /\ UNCHANGED <<clientVars, greeted, poolVars, mainVars, broken, loopVars,
                            taskVars>>

\* "delete this": the destructor frees the bufferevent, which unregisters its
\* events and closes the socket.
Delete(c) == /\ obj' = [obj EXCEPT ![c] = "freed"]
             /\ out' = [out EXCEPT ![c] = FALSE]
             /\ armed' = [armed EXCEPT ![c] = FALSE]
             /\ bevSet' = [bevSet EXCEPT ![c] = FALSE]
             /\ cbSet' = [cbSet EXCEPT ![c] = FALSE]
             /\ inbox' = [inbox EXCEPT ![c] = FALSE]
             /\ greeted' = [greeted EXCEPT ![c] = FALSE]
             /\ UNCHANGED base

\* The write event: the greeting goes out, if it is not out yet, or the write fails
\* because the peer reset the connection; without callbacks nobody hears of that.
Flush(w, c) == /\ loop[w] = "awake" /\ c \in On(w) /\ out[c]
               /\ \/ /\ cstate[c] # "reset" \/ greeted[c]
                     /\ greeted' = [greeted EXCEPT ![c] = TRUE]
                     /\ out' = [out EXCEPT ![c] = FALSE]
                     /\ UNCHANGED <<inbox, obj, base, bevSet, cbSet, armed>>
                  \/ /\ cstate[c] = "reset" /\ ~ greeted[c]
                     /\ IF cbSet[c]
                        THEN Delete(c)
                        ELSE /\ out' = [out EXCEPT ![c] = FALSE]
                             /\ UNCHANGED <<greeted, inbox, obj, base, bevSet, cbSet,
                                            armed>>
               /\ UNCHANGED <<cstate, sent, poolVars, mainVars, broken, pipe, loopVars>>

\* XFtpServerCMD::Read takes everything the socket holds.
Read(w, c) == /\ loop[w] = "awake" /\ c \in On(w) /\ armed[c]
              /\ inbox[c]
              /\ inbox' = [inbox EXCEPT ![c] = FALSE]
              /\ UNCHANGED <<cstate, sent, greeted, poolVars, mainVars, broken, pipe,
                             loopVars, taskVars>>

\* XFtpServerCMD::Event with EOF or ERROR.
Hangup(w, c) == /\ loop[w] = "awake" /\ c \in On(w) /\ armed[c]
                /\ ~ inbox[c] /\ Gone(c)
                /\ Delete(c)
                /\ UNCHANGED <<cstate, sent, poolVars, mainVars, broken, pipe,
                               loopVars>>

\* XFtpServerCMD::Event with TIMEOUT: the client sent nothing for 300 s.  A loop
\* asleep without a timeout does not notice.
Timeout(w, c) == /\ loop[w] = "awake" \/ (loop[w] = "asleep" /\ timed[w])
                 /\ c \in On(w) /\ armed[c] /\ ~ ReadReady(c)
                 /\ Delete(c)
                 /\ loop' = [loop EXCEPT ![w] = "awake"]
                 /\ timed' = [timed EXCEPT ![w] = FALSE]
                 /\ UNCHANGED <<cstate, sent, poolVars, mainVars, broken, pipe>>

LoopStep(w) == ~ broken /\ (Sleep(w) \/ WakeUp(w) \/ Notify(w))
Callback(w, c) == ~ broken /\ (Flush(w, c) \/ Read(w, c) \/ Hangup(w, c))
Expire(w, c) == ~ broken /\ Timeout(w, c)

Next == \/ MainStep
        \/ \E c \in Clients : Connect(c) \/ ClientSend(c) \/ ClientLeave(c)
        \/ \E w \in Threads : LoopStep(w)
        \/ \E w \in Threads, c \in Clients : Callback(w, c) \/ Expire(w, c)

Spec == Init /\ [][Next]_vars

\* Every thread is scheduled, the loop of a session runs every callback epoll_wait
\* returned before it sleeps again, and time passes.  Nothing is assumed of the
\* clients.
Fairness == /\ WF_vars(MainStep)
            /\ \A w \in Threads : WF_vars(LoopStep(w))
            /\ \A c \in Clients : /\ WF_vars(\E w \in Threads : Callback(w, c))
                                  /\ WF_vars(\E w \in Threads : Expire(w, c))

FairSpec == Spec /\ Fairness

-----------------------------------------------------------------------------
(* Correctness. *)

TypeOK == /\ cstate \in [Clients -> {"idle", "open", "closed", "reset"}]
          /\ sent \in [Clients -> 0 .. MaxSends]
          /\ inbox \in [Clients -> BOOLEAN]
          /\ greeted \in [Clients -> BOOLEAN]
          /\ backlog \in Seq(Clients) /\ Len(backlog) <= Backlog
          /\ mpc \in {"init", "accept", "wake", "pop", "new", "greet", "assign",
                      "setcb", "enable"}
          /\ conn \in Clients \union {NoClient}
          /\ tid \in Threads
          /\ lastThread \in Threads \union {-1}
          /\ broken \in BOOLEAN
          /\ tasks \in [Threads -> Seq(Clients)]
          /\ pipe \in [Threads -> 0 .. PipeCap]
          /\ loop \in [Threads -> {"unborn", "awake", "asleep"}]
          /\ timed \in [Threads -> BOOLEAN]
          /\ obj \in [Clients -> {"none", "alive", "freed"}]
          /\ base \in [Clients -> Threads \union {-1}]
          /\ bevSet \in [Clients -> BOOLEAN]
          /\ cbSet \in [Clients -> BOOLEAN]
          /\ out \in [Clients -> BOOLEAN]
          /\ armed \in [Clients -> BOOLEAN]

\* The threads take the connections in turn (XThreadPool.cpp:16-17), whatever
\* order the sessions end in: no thread was ever given two more than another.
Load(w) == Cardinality({c \in Clients : base[c] = w})
Balanced == \A v, w \in Threads : Load(v) <= Load(w) + 1

\* As soon as the worker's loop can deliver a command of the session, the session
\* can answer it: Init assigns this->bev and the callbacks before it enables
\* reading (XFtpServerCMD.cpp:92-95), with the loop already running.
ReadableIsInitialised == \A c \in Clients : armed[c] => bevSet[c] /\ cbSet[c]

\* A task waits in a thread's list only while main is about to take it off again
\* (XThread.cpp:90-106): the worker never looks at the list, so one that main
\* left there would stay there, and no session is initialised twice.
NoTaskStranded ==
    \A w \in Threads : tasks[w] # << >> =>
        /\ mpc \in {"wake", "pop"} /\ tid = w
        /\ tasks[w] = <<conn>> /\ ~ out[conn] /\ ~ bevSet[conn]

\* Every connection the listener takes is greeted, unless its client leaves or
\* the server cannot allocate its bufferevent (or has already gone undefined): a
\* full pipe or a sleeping loop never keeps the main thread from its clients.
EveryoneIsGreeted ==
    \A c \in Clients :
        cstate[c] = "open" ~> greeted[c] \/ Gone(c) \/ obj[c] = "freed" \/ broken

\* "Used in a single thread only, so no mutual exclusion is needed" (XThread.cpp:70):
\* main never goes on with the initialisation of a session that the worker, whose
\* loop runs on the same base, has already deleted.
InitOnLiveSession == ~ broken

\* A session whose client stays silent does not stay for ever, although main adds
\* its 300 s timer (XFtpServerCMD.cpp:85-87) to the base of a loop that may be
\* asleep, and is not told of it: the write event that is enabled with the timer
\* (XFtpTask.cpp:56) wakes the loop, which then sees both.
SessionsEnd == \A c \in Clients : obj[c] = "alive" ~> obj[c] = "freed" \/ broken
=============================================================================
