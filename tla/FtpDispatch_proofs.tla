------------------------- MODULE FtpDispatch_proofs -------------------------
(***************************************************************************)
(* Theorems about the dispatch of the FTP server's connections, for any    *)
(* number of clients and worker threads: its safety, and in the last part  *)
(* that main and the workers never wait for each other.                    *)
(***************************************************************************)
EXTENDS FtpDispatch, FiniteSetTheorems, TLAPS

\* Main has a connection at hand from listen_cb to the end of Init.
ConnInv == mpc \notin {"init", "accept"} => conn \in Clients

\* The round robin: the next thread is the one after the last, or thread 0.
LEMMA NextInTurn ==
    ASSUME lastThread \in Threads \union {-1}
    PROVE  /\ NextThread \in Threads
           /\ NextThread = IF lastThread = NumThreads - 1 THEN 0 ELSE lastThread + 1
<1> USE DispatchAssumption DEF Threads, NextThread
<1>1. CASE lastThread = NumThreads - 1
  <2>1. NumThreads % NumThreads = 0
    OBVIOUS
  <2>2. QED
    BY <1>1, <2>1
<1>2. CASE lastThread # NumThreads - 1
  <2>1. lastThread + 1 \in 0 .. NumThreads - 1
    BY <1>2
  <2>2. \A n \in 0 .. NumThreads - 1 : n % NumThreads = n
    OBVIOUS
  <2>3. QED
    BY <1>2, <2>1, <2>2
<1>3. QED
  BY <1>1, <1>2


\* Every state has the type the code's declarations give it.
THEOREM TypeCorrect == Spec => [](TypeOK /\ ConnInv)
<1>1. Init => TypeOK /\ ConnInv
  <2> SUFFICES ASSUME Init PROVE TypeOK /\ ConnInv
    OBVIOUS
  <2>1. backlog \in Seq(Clients) /\ Len(backlog) <= Backlog
    BY DispatchAssumption DEF Init
  <2>2. tasks \in [Threads -> Seq(Clients)]
    BY DEF Init
  <2>3. tid \in Threads
    BY DispatchAssumption DEF Init, Threads
  <2>4. /\ sent \in [Clients -> 0 .. MaxSends] /\ pipe \in [Threads -> 0 .. PipeCap]
        /\ base \in [Clients -> Threads \union {-1}]
        /\ lastThread \in Threads \union {-1}
    BY DispatchAssumption DEF Init
  <2>5. QED
    BY <2>1, <2>2, <2>3, <2>4, Zenon DEF Init, TypeOK, ConnInv
<1>2. TypeOK /\ ConnInv /\ [Next]_vars => TypeOK' /\ ConnInv'
  <2> SUFFICES ASSUME TypeOK, ConnInv, [Next]_vars PROVE TypeOK' /\ ConnInv'
    OBVIOUS
  <2> USE DispatchAssumption DEF TypeOK, ConnInv, Threads, clientVars, poolVars, mainVars, loopVars, taskVars
  <2>1. ASSUME StartThread PROVE TypeOK' /\ ConnInv'
    <3>1. tid' = IF tid = NumThreads - 1 THEN tid ELSE tid + 1
      BY <2>1 DEF StartThread
    <3>2. tid' \in Threads
      BY ONLY <3>1, TypeOK, DispatchAssumption DEF TypeOK, Threads
    <3>3. loop' \in [Threads -> {"unborn", "awake", "asleep"}] /\ mpc' \in {"init", "accept"}
      BY <2>1 DEF StartThread
    <3>4. QED
      BY <2>1, <3>2, <3>3 DEF StartThread
  <2>2. ASSUME Accept PROVE TypeOK' /\ ConnInv'
    <3>1. /\ backlog' \in Seq(Clients) /\ Len(backlog') <= Backlog
          /\ Head(backlog) \in Clients /\ conn' = Head(backlog)
      BY <2>2 DEF Accept
    <3>2. NextThread \in Threads
      BY NextInTurn
    <3>3. tasks' = [tasks EXCEPT ![NextThread] = Append(@, Head(backlog))]
      BY <2>2, <3>1 DEF Accept, Dispatch, AddTack
    <3>4. tasks' \in [Threads -> Seq(Clients)]
      BY <3>1, <3>2, <3>3
    <3>5. base' \in [Clients -> Threads \union {-1}]
      BY <2>2, <3>1, <3>2 DEF Accept, Dispatch, AddTack
    <3>6. obj' \in [Clients -> {"none", "alive", "freed"}]
      BY <2>2, <3>1 DEF Accept, CreateTask
    <3>7. tid' \in Threads /\ lastThread' \in Threads
      BY <2>2, <3>2 DEF Accept, Dispatch
    <3>8. QED
      BY <2>2, <3>1, <3>4, <3>5, <3>6, <3>7 DEF Accept
  <2>3. ASSUME Wake PROVE TypeOK' /\ ConnInv'
    <3>1. pipe[tid] \in 0 .. PipeCap /\ pipe[tid] < PipeCap
      BY <2>3 DEF Wake
    <3>2. pipe[tid] + 1 \in 0 .. PipeCap
      BY <3>1
    <3>3. pipe' \in [Threads -> 0 .. PipeCap]
      BY <2>3, <3>2 DEF Wake
    <3>4. QED
      BY <2>3, <3>3 DEF Wake
  <2>4. ASSUME Pop PROVE TypeOK' /\ ConnInv'
    <3>1. CASE tasks[tid] = << >>
      BY <2>4, <3>1 DEF Pop, Return
    <3>2. CASE tasks[tid] # << >>
      <4>1. tasks[tid] \in Seq(Clients)
        OBVIOUS
      <4>2. Head(tasks[tid]) \in Clients /\ Tail(tasks[tid]) \in Seq(Clients)
        BY <3>2, <4>1
      <4>3. conn' \in Clients /\ tasks' \in [Threads -> Seq(Clients)]
        BY <2>4, <3>2, <4>2 DEF Pop
      <4>4. QED
        BY <2>4, <3>2, <4>3 DEF Pop
    <3>3. QED
      BY <3>1, <3>2
  <2>5. ASSUME NewBev PROVE TypeOK' /\ ConnInv'
    BY <2>5 DEF NewBev, Return
  <2>6. ASSUME Greet PROVE TypeOK' /\ ConnInv'
    BY <2>6 DEF Greet
  <2>7. ASSUME Assign PROVE TypeOK' /\ ConnInv'
    BY <2>7 DEF Assign
  <2>8. ASSUME SetCallbacks PROVE TypeOK' /\ ConnInv'
    BY <2>8 DEF SetCallbacks
  <2>9. ASSUME Enable PROVE TypeOK' /\ ConnInv'
    BY <2>9 DEF Enable, Return
  <2>10. ASSUME NEW c \in Clients, Connect(c) PROVE TypeOK' /\ ConnInv'
    BY <2>10 DEF Connect
  <2>11. ASSUME NEW c \in Clients, ClientSend(c) PROVE TypeOK' /\ ConnInv'
    <3>1. sent' \in [Clients -> 0 .. MaxSends]
      <4>1. sent[c] \in 0 .. MaxSends /\ sent[c] < MaxSends
        BY <2>11 DEF ClientSend
      <4>2. sent[c] + 1 \in 0 .. MaxSends
        BY <4>1
      <4>3. QED
        BY <2>11, <4>2 DEF ClientSend
    <3>2. QED
      BY <2>11, <3>1 DEF ClientSend
  <2>12. ASSUME NEW c \in Clients, ClientLeave(c) PROVE TypeOK' /\ ConnInv'
    BY <2>12 DEF ClientLeave
  <2>13. ASSUME NEW w \in Threads, Sleep(w) PROVE TypeOK' /\ ConnInv'
    BY <2>13 DEF Sleep, On
  <2>14. ASSUME NEW w \in Threads, WakeUp(w) PROVE TypeOK' /\ ConnInv'
    BY <2>14 DEF WakeUp
  <2>15. ASSUME NEW w \in Threads, Notify(w) PROVE TypeOK' /\ ConnInv'
    <3>1. pipe' \in [Threads -> 0 .. PipeCap]
      <4>1. pipe[w] \in 0 .. PipeCap /\ pipe[w] > 0
        BY <2>15 DEF Notify
      <4>2. pipe[w] - 1 \in 0 .. PipeCap
        BY <4>1
      <4>3. QED
        BY <2>15, <4>2 DEF Notify
    <3>2. QED
      BY <2>15, <3>1 DEF Notify
  <2>16. ASSUME NEW w \in Threads, NEW c \in Clients, Flush(w, c) PROVE TypeOK' /\ ConnInv'
    <3>1. UNCHANGED <<cstate, sent, poolVars, mainVars, broken, pipe, loopVars>>
      BY <2>16 DEF Flush
    <3>2. CASE Delete(c)
      BY <3>1, <3>2 DEF Delete
    <3>3. CASE /\ UNCHANGED <<inbox, obj, base, bevSet, cbSet, armed>>
               /\ out' = [out EXCEPT ![c] = FALSE]
               /\ greeted' \in {greeted, [greeted EXCEPT ![c] = TRUE]}
      BY <3>1, <3>3
    <3>4. QED
      BY <2>16, <3>2, <3>3 DEF Flush
  <2>17. ASSUME NEW w \in Threads, NEW c \in Clients, Read(w, c) PROVE TypeOK' /\ ConnInv'
    BY <2>17 DEF Read, On
  <2>18. ASSUME NEW w \in Threads, NEW c \in Clients, Hangup(w, c) PROVE TypeOK' /\ ConnInv'
    BY <2>18 DEF Hangup, On, Delete
  <2>19. ASSUME NEW w \in Threads, NEW c \in Clients, Timeout(w, c) PROVE TypeOK' /\ ConnInv'
    BY <2>19 DEF Timeout, On, Delete
  <2>20. CASE UNCHANGED vars
    BY <2>20 DEF vars
  <2>21. QED
    BY <2>1, <2>2, <2>3, <2>4, <2>5, <2>6, <2>7, <2>8, <2>9, <2>10, <2>11, <2>12, <2>13, <2>14, <2>15, <2>16, <2>17, <2>18, <2>19, <2>20
       DEF Next, MainStep, LoopStep, Callback, Expire
<1>3. QED
  BY <1>1, <1>2, PTL DEF Spec

\* A connection whose session has not been created yet is on no thread.
FreshInv == \A c \in Clients : obj[c] = "none" =>
    base[c] = -1 /\ ~ out[c] /\ ~ bevSet[c] /\ ~ cbSet[c] /\ ~ armed[c]

\* The listen queue holds connections without a session, each once.
QueueInv ==
    /\ \A i \in 1 .. Len(backlog) : obj[backlog[i]] = "none" /\ cstate[backlog[i]] # "idle"
    /\ \A i, j \in 1 .. Len(backlog) : i # j => backlog[i] # backlog[j]
    /\ \A c \in Clients : cstate[c] = "idle" => obj[c] = "none"

\* The session main is working on was created, and by the time its callbacks
\* are installed or its events enabled, what they need is there.
OrderInv ==
    /\ mpc \notin {"init", "accept"} => obj[conn] # "none"
    /\ mpc \in {"setcb", "enable"} /\ obj[conn] = "alive" => bevSet[conn]
    /\ mpc = "enable" /\ obj[conn] = "alive" => cbSet[conn]

DispatchInv == FreshInv /\ QueueInv /\ OrderInv /\ ReadableIsInitialised /\ NoTaskStranded

\* Every step keeps the order of creation, assignment and first callback.
LEMMA DispatchStep ==
    ASSUME TypeOK, ConnInv, DispatchInv, [Next]_vars
    PROVE  DispatchInv'
<1> USE DEF TypeOK, DispatchInv, FreshInv, QueueInv, OrderInv, ReadableIsInitialised,
            NoTaskStranded, clientVars, poolVars, mainVars, loopVars, taskVars
<1>1. ASSUME StartThread PROVE DispatchInv'
  BY <1>1 DEF StartThread
<1>2. ASSUME Accept PROVE DispatchInv'
  <2> DEFINE c == Head(backlog)
  <2>1. /\ c \in Clients /\ c = backlog[1] /\ conn' = c /\ mpc' = "wake"
        /\ tid' = NextThread /\ NextThread \in Threads
        /\ obj' = [obj EXCEPT ![c] = "alive"]
        /\ base' = [base EXCEPT ![c] = NextThread]
        /\ tasks' = [tasks EXCEPT ![NextThread] = Append(@, c)]
    BY <1>2, NextInTurn DEF Accept, CreateTask, Dispatch, AddTack
  <2>2. obj[c] = "none"
    BY <1>2, <2>1 DEF Accept
  <2>3. /\ Len(backlog') = Len(backlog) - 1
        /\ \A i \in 1 .. Len(backlog') :
               i + 1 \in 1 .. Len(backlog) /\ backlog'[i] = backlog[i + 1]
    BY <1>2 DEF Accept
  <2>4. \A i \in 1 .. Len(backlog) : backlog[i] \in Clients
    OBVIOUS
  <2>5. QueueInv'
    <3>1. 1 \in 1 .. Len(backlog)
      BY <1>2 DEF Accept
    <3>2. \A i \in 1 .. Len(backlog') : backlog'[i] # c
      <4> TAKE i \in 1 .. Len(backlog')
      <4>1. i + 1 \in 1 .. Len(backlog) /\ i + 1 # 1 /\ backlog'[i] = backlog[i + 1]
        BY ONLY <2>3
      <4>2. backlog[i + 1] # backlog[1]
        BY <3>1, <4>1
      <4>3. QED
        BY <2>1, <4>1, <4>2
    <3>3. \A i \in 1 .. Len(backlog') : obj'[backlog'[i]] = "none" /\ cstate'[backlog'[i]] # "idle"
      BY <1>2, <2>1, <2>3, <2>4, <3>2 DEF Accept
    <3>4. \A i, j \in 1 .. Len(backlog') : i # j => backlog'[i] # backlog'[j]
      <4> TAKE i, j \in 1 .. Len(backlog')
      <4>1. i # j => i + 1 # j + 1
        OBVIOUS
      <4>2. QED
        BY <2>3, <4>1
    <3>5. cstate[c] # "idle"
      BY <2>1, <3>1
    <3>6. QED
      BY <1>2, <2>1, <3>3, <3>4, <3>5 DEF Accept
  <2>6. NoTaskStranded'
    <3>1. \A w \in Threads : tasks[w] = << >>
      BY <1>2 DEF Accept
    <3>2. Append(<< >>, c) = <<c>>
      OBVIOUS
    <3>3. \A w \in Threads : tasks'[w] = IF w = NextThread THEN <<c>> ELSE << >>
      <4> TAKE w \in Threads
      <4>1. tasks'[w] = IF w = NextThread THEN Append(tasks[w], c) ELSE tasks[w]
        BY <2>1
      <4>2. QED
        BY <3>1, <3>2, <4>1
    <3>4. ~ out[c] /\ ~ bevSet[c]
      BY <2>1, <2>2
    <3>5. QED
      BY <1>2, <2>1, <3>3, <3>4 DEF Accept
  <2>7. FreshInv' /\ OrderInv' /\ ReadableIsInitialised'
    BY <1>2, <2>1, <2>2 DEF Accept
  <2>8. QED
    BY <2>5, <2>6, <2>7
<1>3. ASSUME Wake PROVE DispatchInv'
  BY <1>3 DEF Wake
<1>4. ASSUME Pop PROVE DispatchInv'
  <2>1. CASE tasks[tid] = << >>
    BY <1>4, <2>1 DEF Pop, Return
  <2>2. CASE tasks[tid] # << >>
    <3>1. tasks[tid] = <<conn>> /\ ~ out[conn] /\ ~ bevSet[conn]
      BY <2>2
    <3>2. Head(<<conn>>) = conn /\ Tail(<<conn>>) = << >>
      OBVIOUS
    <3>3. conn' = conn /\ mpc' = "new" /\ tasks' = [tasks EXCEPT ![tid] = << >>]
      BY <1>4, <2>2, <3>1, <3>2 DEF Pop
    <3>4. \A w \in Threads : tasks'[w] = << >>
      BY <3>3
    <3>5. UNCHANGED <<cstate, backlog, obj, base, bevSet, cbSet, out, armed>>
      BY <1>4 DEF Pop
    <3>6. obj[conn] # "none"
      BY <1>4 DEF Pop
    <3>7. QED
      BY <3>3, <3>4, <3>5, <3>6
  <2>3. QED
    BY <2>1, <2>2
<1>5. ASSUME NewBev PROVE DispatchInv'
  BY <1>5 DEF NewBev, Return
<1>6. ASSUME Greet PROVE DispatchInv'
  BY <1>6 DEF Greet, ConnInv
<1>7. ASSUME Assign PROVE DispatchInv'
  BY <1>7 DEF Assign, ConnInv
<1>8. ASSUME SetCallbacks PROVE DispatchInv'
  BY <1>8 DEF SetCallbacks, ConnInv
<1>9. ASSUME Enable PROVE DispatchInv'
  <2>1. /\ UNCHANGED <<cstate, backlog, tasks, obj, base, bevSet, cbSet>>
        /\ mpc = "enable" /\ mpc' = "accept" /\ conn \in Clients
    BY <1>9 DEF Enable, Return, ConnInv
  <2>2. \/ UNCHANGED <<armed, out>>
        \/ /\ obj[conn] = "alive" /\ armed' = [armed EXCEPT ![conn] = TRUE]
           /\ out' = [out EXCEPT ![conn] = TRUE]
    BY <1>9 DEF Enable
  <2>3. NoTaskStranded'
    BY <2>1
  <2>4. FreshInv' /\ OrderInv' /\ ReadableIsInitialised'
    <3>1. obj[conn] # "none" /\ (obj[conn] = "alive" => bevSet[conn] /\ cbSet[conn])
      BY <2>1
    <3>2. \A c \in Clients : armed'[c] => armed[c] \/ (c = conn /\ obj[conn] = "alive")
      BY <2>2
    <3>6. \A c \in Clients : out'[c] => out[c] \/ (c = conn /\ obj[conn] = "alive")
      BY <2>2
    <3>3. FreshInv' /\ ReadableIsInitialised'
      BY ONLY <2>1, <3>1, <3>2, <3>6, FreshInv, ReadableIsInitialised
         DEF FreshInv, ReadableIsInitialised
    <3>4. OrderInv'
      BY <2>1
    <3>5. QED
      BY <3>3, <3>4
  <2>5. QueueInv'
    BY <2>1
  <2>6. QED
    BY <2>3, <2>4, <2>5
<1>10. ASSUME NEW c \in Clients, Connect(c) PROVE DispatchInv'
  <2>1. /\ Len(backlog) \in Nat /\ Len(backlog') = Len(backlog) + 1
        /\ backlog'[Len(backlog')] = c
        /\ \A i \in 1 .. Len(backlog) : backlog'[i] = backlog[i]
    <3>1. backlog \in Seq(Clients) /\ backlog' = Append(backlog, c)
      BY <1>10 DEF Connect
    <3>2. QED
      BY ONLY <3>1
  <2>2. \A i \in 1 .. Len(backlog) : backlog[i] \in Clients /\ backlog[i] # c
    <3>1. cstate[c] = "idle" /\ \A i \in 1 .. Len(backlog) : cstate[backlog[i]] # "idle"
      BY <1>10 DEF Connect
    <3>2. \A i \in 1 .. Len(backlog) : backlog[i] \in Clients
      OBVIOUS
    <3>3. QED
      BY ONLY <3>1, <3>2
  <2>3. QueueInv'
    <3>1. \A i \in 1 .. Len(backlog') :
             obj'[backlog'[i]] = "none" /\ cstate'[backlog'[i]] # "idle"
      <4> TAKE i \in 1 .. Len(backlog')
      <4>0. UNCHANGED obj /\ cstate' = [cstate EXCEPT ![c] = "open"] /\ obj[c] = "none"
        BY <1>10 DEF Connect
      <4>1. CASE i = Len(backlog')
        BY <2>1, <4>0, <4>1
      <4>2. CASE i # Len(backlog')
        <5>1. i \in 1 .. Len(backlog)
          BY <2>1, <4>2
        <5>2. obj[backlog[i]] = "none" /\ cstate[backlog[i]] # "idle"
          BY <5>1
        <5>3. QED
          BY <2>1, <2>2, <4>0, <5>1, <5>2
      <4>3. QED
        BY <4>1, <4>2
    <3>2. \A i, j \in 1 .. Len(backlog') : i # j => backlog'[i] # backlog'[j]
      <4> TAKE i, j \in 1 .. Len(backlog')
      <4>1. i \in 1 .. Len(backlog) \/ i = Len(backlog')
        BY ONLY <2>1
      <4>2. j \in 1 .. Len(backlog) \/ j = Len(backlog')
        BY ONLY <2>1
      <4>3. \A k, l \in 1 .. Len(backlog) : k # l => backlog[k] # backlog[l]
        OBVIOUS
      <4>4. QED
        BY ONLY <2>1, <2>2, <4>1, <4>2, <4>3
    <3>3. \A d \in Clients : cstate'[d] = "idle" => obj'[d] = "none"
      BY <1>10 DEF Connect
    <3>4. QED
      BY <3>1, <3>2, <3>3
  <2>4. FreshInv' /\ OrderInv' /\ ReadableIsInitialised' /\ NoTaskStranded'
    BY <1>10 DEF Connect
  <2>5. QED
    BY <2>3, <2>4
<1>11. ASSUME NEW c \in Clients, ClientSend(c) PROVE DispatchInv'
  BY <1>11 DEF ClientSend
<1>12. ASSUME NEW c \in Clients, ClientLeave(c) PROVE DispatchInv'
  BY <1>12 DEF ClientLeave
<1>13. ASSUME NEW w \in Threads, Sleep(w) PROVE DispatchInv'
  BY <1>13 DEF Sleep
<1>14. ASSUME NEW w \in Threads, WakeUp(w) PROVE DispatchInv'
  BY <1>14 DEF WakeUp
<1>15. ASSUME NEW w \in Threads, Notify(w) PROVE DispatchInv'
  BY <1>15 DEF Notify
<1>16. ASSUME NEW w \in Threads, NEW c \in Clients, Flush(w, c) PROVE DispatchInv'
  <2>1. /\ UNCHANGED <<cstate, backlog, tasks, mpc, conn, tid, base>>
        /\ obj[c] = "alive"
    BY <1>16 DEF Flush, On, Delete
  <2>2. CASE UNCHANGED <<obj, bevSet, cbSet, armed>> /\ out' = [out EXCEPT ![c] = FALSE]
    BY <2>1, <2>2
  <2>3. CASE Delete(c)
    <3>1. FreshInv' /\ QueueInv' /\ OrderInv' /\ ReadableIsInitialised'
      BY <2>1, <2>3 DEF Delete
    <3>2. NoTaskStranded'
      BY <2>1, <2>3 DEF Delete
    <3>3. QED
      BY <3>1, <3>2
  <2>4. QED
    BY <1>16, <2>2, <2>3 DEF Flush
<1>17. ASSUME NEW w \in Threads, NEW c \in Clients, Read(w, c) PROVE DispatchInv'
  BY <1>17 DEF Read, On
<1>18. ASSUME NEW w \in Threads, NEW c \in Clients, Hangup(w, c) PROVE DispatchInv'
  BY <1>18 DEF Hangup, On, Delete
<1>19. ASSUME NEW w \in Threads, NEW c \in Clients, Timeout(w, c) PROVE DispatchInv'
  BY <1>19 DEF Timeout, On, Delete
<1>20. CASE UNCHANGED vars
  BY <1>20 DEF vars
<1>21. QED
  BY <1>1, <1>2, <1>3, <1>4, <1>5, <1>6, <1>7, <1>8, <1>9, <1>10, <1>11, <1>12, <1>13, <1>14, <1>15, <1>16, <1>17, <1>18, <1>19, <1>20
     DEF Next, MainStep, LoopStep, Callback, Expire
\* No session, no connection: the invariant holds when the server starts.
LEMMA DispatchInit == ASSUME Init PROVE DispatchInv
<1>1. /\ \A i \in 1 .. Len(backlog) : FALSE
      /\ \A w \in Threads : tasks[w] = << >>
  BY DEF Init
<1>2. FreshInv /\ ReadableIsInitialised
  BY DEF Init, FreshInv, ReadableIsInitialised
<1>3. QueueInv
  BY <1>1 DEF Init, QueueInv
<1>4. OrderInv /\ NoTaskStranded
  BY <1>1 DEF Init, OrderInv, NoTaskStranded
<1>5. QED
  BY <1>2, <1>3, <1>4 DEF DispatchInv

\* XFtpServerCMD.cpp:90-95 against a loop that is already running: a session is
\* never readable before its bufferevent and its callbacks are in place.
THEOREM Initialised == Spec => []ReadableIsInitialised
<1>1. TypeOK /\ ConnInv /\ DispatchInv /\ [Next]_vars => DispatchInv'
  BY DispatchStep
<1>2. DispatchInv => ReadableIsInitialised
  BY DEF DispatchInv
<1>3. QED
  BY <1>1, <1>2, DispatchInit, TypeCorrect, PTL DEF Spec

\* XThread.cpp:90-106: whatever the worker does, main takes back off the list
\* exactly the task it has just put there, and initialises it once.
THEOREM NothingStranded == Spec => []NoTaskStranded
<1>1. TypeOK /\ ConnInv /\ DispatchInv /\ [Next]_vars => DispatchInv'
  BY DispatchStep
<1>2. DispatchInv => NoTaskStranded
  BY DEF DispatchInv
<1>3. QED
  BY <1>1, <1>2, DispatchInit, TypeCorrect, PTL DEF Spec

\* The turn in progress: the threads up to the last one used are one connection
\* ahead of the others.
TurnInv == \E q \in Nat :
              \A w \in Threads : Load(w) = IF w <= lastThread THEN q + 1 ELSE q

\* One more connection for the thread whose turn it is keeps the turn.
LEMMA TurnStep ==
    ASSUME TypeOK, FreshInv, TurnInv, NEW c \in Clients, obj[c] = "none",
           base' = [base EXCEPT ![c] = NextThread], lastThread' = NextThread
    PROVE  TurnInv'
<1> DEFINE n == NextThread
           Held(w) == {d \in Clients : base[d] = w}
           HeldNext(w) == {d \in Clients : base'[d] = w}
<1>1. /\ n \in Threads
      /\ n = IF lastThread = NumThreads - 1 THEN 0 ELSE lastThread + 1
  BY NextInTurn DEF TypeOK
<1>2. base[c] = -1 /\ base \in [Clients -> Threads \union {-1}]
  BY DEF TypeOK, FreshInv
<1>3. \A w \in Threads : w \in Nat /\ w < NumThreads
  BY DispatchAssumption DEF Threads
<1>4. HeldNext(n) = Held(n) \union {c} /\ c \notin Held(n)
  BY <1>1, <1>2, <1>3
<1>5. Cardinality(HeldNext(n)) = Cardinality(Held(n)) + 1
  <2>1. IsFiniteSet(Held(n))
    BY FS_Subset, DispatchAssumption
  <2>2. QED
    BY <1>4, <2>1, FS_AddElement
<1>6. ASSUME NEW w \in Threads, w # n PROVE HeldNext(w) = Held(w)
  BY <1>2, <1>3, <1>6
<1>7. \A w \in Threads :
         Cardinality(HeldNext(w)) = IF w = n THEN Cardinality(Held(w)) + 1
                                             ELSE Cardinality(Held(w))
  BY <1>5, <1>6
<1>8. PICK q \in Nat : \A w \in Threads :
         Cardinality(Held(w)) = IF w <= lastThread THEN q + 1 ELSE q
  BY DEF TurnInv, Load
<1> HIDE DEF Held, HeldNext, n
<1>9. lastThread \in Int /\ -1 <= lastThread /\ lastThread < NumThreads /\ NumThreads \in Nat
  BY <1>3, DispatchAssumption DEF TypeOK
<1>10. \E r \in Nat : \A w \in Threads :
          Cardinality(HeldNext(w)) = IF w <= n THEN r + 1 ELSE r
  <2>1. CASE lastThread = NumThreads - 1
    <3>1. \A w \in Threads : Cardinality(HeldNext(w)) = IF w <= n THEN (q + 1) + 1 ELSE q + 1
      <4> TAKE w \in Threads
      <4>1. w \in Nat /\ w <= lastThread /\ (w <= n <=> w = n)
        BY <1>1, <1>3, <1>9, <2>1
      <4>2. Cardinality(Held(w)) = q + 1
        BY <1>8, <4>1
      <4>3. QED
        BY <1>7, <4>1, <4>2
    <3>2. QED
      BY <3>1
  <2>2. CASE lastThread # NumThreads - 1
    <3>1. \A w \in Threads : Cardinality(HeldNext(w)) = IF w <= n THEN q + 1 ELSE q
      BY <1>1, <1>3, <1>7, <1>8, <1>9, <2>2
    <3>2. QED
      BY <3>1
  <2>3. QED
    BY <2>1, <2>2
<1>11. QED
  BY <1>10 DEF TurnInv, Load, HeldNext, n

\* XThreadPool.cpp:16-17: whatever the connections and their ends, no thread was
\* ever given two connections more than another.
THEOREM LoadsBalanced == Spec => []Balanced
<1>1. Init => TurnInv
  <2> SUFFICES ASSUME Init PROVE TurnInv
    OBVIOUS
  <2>1. \A w \in Threads : {c \in Clients : base[c] = w} = {} /\ ~ w <= lastThread
    BY DispatchAssumption DEF Init, Threads
  <2>2. \A w \in Threads : Load(w) = IF w <= lastThread THEN 0 + 1 ELSE 0
    BY <2>1, FS_EmptySet DEF Load
  <2>3. QED
    BY <2>2 DEF TurnInv
<1>2. TypeOK /\ ConnInv /\ DispatchInv /\ TurnInv /\ [Next]_vars => TurnInv'
  <2> SUFFICES ASSUME TypeOK, DispatchInv, TurnInv, [Next]_vars PROVE TurnInv'
    OBVIOUS
  <2>1. CASE Accept
    <3> DEFINE c == Head(backlog)
    <3>1. c \in Clients /\ c = backlog[1] /\ 1 \in 1 .. Len(backlog)
      BY <2>1 DEF Accept, TypeOK
    <3>2. obj[c] = "none" /\ FreshInv
      BY <3>1 DEF DispatchInv, QueueInv
    <3>3. base' = [base EXCEPT ![c] = NextThread] /\ lastThread' = NextThread
      BY <2>1 DEF Accept, Dispatch, AddTack
    <3> HIDE DEF c
    <3>4. QED
      BY <3>1, <3>2, <3>3, TurnStep
  <2>2. CASE UNCHANGED <<base, lastThread>>
    BY <2>2 DEF TurnInv, Load
  <2>3. Accept \/ UNCHANGED <<base, lastThread>>
    BY DEF Next, MainStep, LoopStep, Callback, Expire, vars, poolVars, taskVars,
           StartThread, Wake, Pop, NewBev, Greet, Assign, SetCallbacks, Enable, Connect,
           ClientSend, ClientLeave, Sleep, WakeUp, Notify, Flush, Read, Hangup, Timeout,
           Delete
  <2>4. QED
    BY <2>1, <2>2, <2>3
<1>3. TurnInv => Balanced
  <2> SUFFICES ASSUME TurnInv, NEW v \in Threads, NEW w \in Threads
               PROVE  Load(v) <= Load(w) + 1
    BY DEF Balanced
  <2>1. PICK q \in Nat : \A u \in Threads : Load(u) = IF u <= lastThread THEN q + 1 ELSE q
    BY DEF TurnInv
  <2>2. Load(v) \in {q, q + 1} /\ Load(w) \in {q, q + 1}
    BY <2>1
  <2>3. QED
    BY <2>2
<1>4. TypeOK /\ ConnInv /\ DispatchInv /\ [Next]_vars => DispatchInv'
  BY DispatchStep
<1>5. QED
  BY <1>1, <1>2, <1>3, <1>4, DispatchInit, TypeCorrect, PTL DEF Spec


-----------------------------------------------------------------------------
(* Why every client is greeted: nobody who waits for the greeting is        *)
(* forgotten, and the thread that has it next can go on.                    *)

Queued(c) == \E i \in 1 .. Len(backlog) : backlog[i] = c
InHand(c) == mpc \in {"wake", "pop", "new", "greet"} /\ conn = c /\ obj[c] = "alive"
Written(c) == out[c] /\ obj[c] = "alive"

Waiting(c) == cstate[c] = "open" /\ ~ greeted[c] /\ obj[c] # "freed"

\* Who waits is in the listen queue, in main's hands, or has its greeting in the
\* output of a bufferevent.
WayInv == \A c \in Clients : Waiting(c) => Queued(c) \/ InHand(c) \/ Written(c)

\* The task main has put on a list is still there when it comes to take it off.
HandInv == mpc \in {"wake", "pop"} => tasks[tid] # << >>

\* There are no sessions before all loops run, and each is on one of them.
BornInv == /\ mpc = "init" => /\ \A c \in Clients : obj[c] = "none"
                              /\ \A w \in Threads : w < tid => loop[w] # "unborn"
           /\ mpc # "init" => \A w \in Threads : loop[w] # "unborn"
           /\ \A c \in Clients : obj[c] = "alive" => base[c] \in Threads

GreetInv == WayInv /\ HandInv /\ BornInv

\* Neither client nor session, and the first loop to start.
LEMMA GreetStarts == Init => GreetInv
<1> SUFFICES ASSUME Init PROVE GreetInv
  OBVIOUS
<1>1. WayInv /\ HandInv
  BY DEF Init, WayInv, HandInv, Waiting
<1>2. \A w \in Threads : ~ w < 0
  BY DispatchAssumption DEF Threads
<1>3. BornInv
  BY <1>2 DEF Init, BornInv
<1> QED BY <1>1, <1>3 DEF GreetInv

\* The loops are started in turn; sessions only afterwards.
LEMMA BornStep ==
    ASSUME TypeOK, ConnInv, DispatchInv, BornInv, [Next]_vars PROVE BornInv'
<1> USE DEF BornInv, clientVars, poolVars, mainVars, loopVars, taskVars
<1>1. CASE StartThread
  <2>1. /\ mpc = "init" /\ loop' = [loop EXCEPT ![tid] = "awake"] /\ obj' = obj /\ base' = base
        /\ loop \in [Threads -> {"unborn", "awake", "asleep"}] /\ tid \in Threads
    BY <1>1 DEF StartThread, TypeOK
  <2>2. \A w \in Threads : w <= tid => loop'[w] # "unborn"
    <3> TAKE w \in Threads
    <3>1. CASE w = tid
      BY <2>1, <3>1
    <3>2. CASE w < tid
      BY <2>1, <3>2
    <3> QED BY <2>1, <3>1, <3>2, DispatchAssumption DEF Threads
  <2>3. CASE tid = NumThreads - 1
    <3>1. \A w \in Threads : w <= tid
      BY <2>3, DispatchAssumption DEF Threads
    <3> QED BY <1>1, <2>1, <2>2, <2>3, <3>1 DEF StartThread
  <2>4. CASE tid # NumThreads - 1
    <3>1. mpc' = "init" /\ tid' = tid + 1
      BY <1>1, <2>4 DEF StartThread
    <3>2. \A w \in Threads : w < tid + 1 => w <= tid
      BY <2>1, DispatchAssumption DEF Threads
    <3> QED BY <2>1, <2>2, <3>1, <3>2
  <2> QED BY <2>3, <2>4
<1>2. CASE Accept
  <2>1. Head(backlog) \in Clients
    BY <1>2 DEF Accept, TypeOK
  <2>2. NextThread \in Threads
    BY NextInTurn DEF TypeOK
  <2>3. /\ mpc # "init" /\ mpc' = "wake" /\ loop' = loop
        /\ obj' = [obj EXCEPT ![Head(backlog)] = "alive"]
        /\ base' = [base EXCEPT ![Head(backlog)] = NextThread]
    BY <1>2 DEF Accept, CreateTask, Dispatch, AddTack
  <2> QED BY <2>1, <2>2, <2>3 DEF TypeOK
<1>3. CASE Wake \/ Pop \/ Greet \/ Assign \/ SetCallbacks \/ Enable
  BY <1>3 DEF Wake, Pop, Greet, Assign, SetCallbacks, Enable, Return
<1>4. CASE NewBev
  BY <1>4 DEF NewBev, Return, TypeOK
<1>5. CASE \E c \in Clients : Connect(c) \/ ClientSend(c) \/ ClientLeave(c)
  BY <1>5 DEF Connect, ClientSend, ClientLeave
<1>6. CASE \E w \in Threads : LoopStep(w)
  BY <1>6 DEF LoopStep, Sleep, WakeUp, Notify, TypeOK
<1>7. CASE \E w \in Threads, c \in Clients : Callback(w, c) \/ Expire(w, c)
  <2>1. PICK w \in Threads, c \in Clients : Callback(w, c) \/ Expire(w, c)
    BY <1>7
  <2>2. mpc' = mpc /\ tid' = tid /\ base' = base /\ obj[c] = "alive"
    BY <2>1 DEF Callback, Expire, Flush, Read, Hangup, Timeout, Delete, On
  <2>3. obj' = obj \/ obj' = [obj EXCEPT ![c] = "freed"]
    BY <2>1 DEF Callback, Expire, Flush, Read, Hangup, Timeout, Delete
  <2>4. loop' = loop \/ loop' = [loop EXCEPT ![w] = "awake"]
    BY <2>1 DEF Callback, Expire, Flush, Read, Hangup, Timeout
  <2> QED BY <2>2, <2>3, <2>4 DEF TypeOK
<1>8. CASE UNCHANGED vars
  BY <1>8 DEF vars
<1> QED BY <1>1, <1>2, <1>3, <1>4, <1>5, <1>6, <1>7, <1>8 DEF Next, MainStep

\* Only main takes a task off its list.
LEMMA HandStep ==
    ASSUME TypeOK, ConnInv, DispatchInv, HandInv, [Next]_vars PROVE HandInv'
<1> USE DEF HandInv, clientVars, poolVars, mainVars, loopVars, taskVars
<1>1. CASE Accept
  <2>1. Head(backlog) \in Clients /\ NextThread \in Threads
    BY <1>1, NextInTurn DEF Accept, TypeOK
  <2>2. tasks[NextThread] \in Seq(Clients) /\ tid' = NextThread
        /\ tasks'[NextThread] = Append(tasks[NextThread], Head(backlog))
    BY <1>1, <2>1 DEF Accept, Dispatch, AddTack, TypeOK
  <2>3. \A q \in Seq(Clients), d \in Clients : Append(q, d) # << >>
    <3> TAKE q \in Seq(Clients), d \in Clients
    <3>1. Len(Append(q, d)) = Len(q) + 1 /\ Len(q) \in Nat
      OBVIOUS
    <3>2. Len(<< >>) = 0
      OBVIOUS
    <3> QED BY <3>1, <3>2
  <2>4. tasks'[tid'] # << >>
    BY <2>1, <2>2, <2>3
  <2> QED BY <2>4
<1>2. CASE StartThread \/ Pop \/ NewBev \/ Greet \/ Assign \/ SetCallbacks \/ Enable
  BY <1>2 DEF StartThread, Pop, NewBev, Greet, Assign, SetCallbacks, Enable, Return
<1>3. CASE Wake
  BY <1>3 DEF Wake
<1>4. CASE \E c \in Clients : Connect(c) \/ ClientSend(c) \/ ClientLeave(c)
  BY <1>4 DEF Connect, ClientSend, ClientLeave
<1>5. CASE \E w \in Threads : LoopStep(w)
  BY <1>5 DEF LoopStep, Sleep, WakeUp, Notify
<1>6. CASE \E w \in Threads, c \in Clients : Callback(w, c) \/ Expire(w, c)
  BY <1>6 DEF Callback, Expire, Flush, Read, Hangup, Timeout
<1>7. CASE UNCHANGED vars
  BY <1>7 DEF vars
<1> QED BY <1>1, <1>2, <1>3, <1>4, <1>5, <1>6, <1>7 DEF Next, MainStep

\* A step that leaves alone what decides where a client's greeting is.
LEMMA WayKept ==
    ASSUME NEW c \in Clients, Waiting(c) => Queued(c) \/ InHand(c) \/ Written(c),
           backlog' = backlog, mpc' = mpc, conn' = conn,
           cstate'[c] \in {cstate[c], "closed", "reset"},
           \/ greeted'[c] = greeted[c] /\ obj'[c] = obj[c] /\ out'[c] = out[c]
           \/ obj'[c] = "freed" \/ greeted'[c] \/ cstate'[c] # "open"
    PROVE  (Waiting(c) => Queued(c) \/ InHand(c) \/ Written(c))'
BY DEF Waiting, Queued, InHand, Written

\* Nobody is forgotten: from the queue into main's hands, from there into the
\* output, and out of it with the greeting.
LEMMA WayStep ==
    ASSUME TypeOK, ConnInv, DispatchInv, HandInv, WayInv, [Next]_vars PROVE WayInv'
<1> SUFFICES ASSUME NEW d \in Clients
             PROVE  (Waiting(d) => Queued(d) \/ InHand(d) \/ Written(d))'
  BY DEF WayInv
<1>0. /\ Waiting(d) => Queued(d) \/ InHand(d) \/ Written(d)
      /\ backlog \in Seq(Clients) /\ obj \in [Clients -> {"none", "alive", "freed"}]
      /\ out \in [Clients -> BOOLEAN] /\ greeted \in [Clients -> BOOLEAN]
      /\ cstate \in [Clients -> {"idle", "open", "closed", "reset"}]
  BY DEF WayInv, TypeOK
<1> USE DEF clientVars, poolVars, mainVars, loopVars, taskVars
<1>1. CASE Accept
  <2>1. /\ Head(backlog) \in Clients /\ conn' = Head(backlog) /\ mpc' = "wake"
        /\ mpc = "accept" /\ UNCHANGED <<cstate, greeted, out>>
        /\ obj' = [obj EXCEPT ![Head(backlog)] = "alive"]
        /\ backlog' = Tail(backlog) /\ backlog # << >>
    BY <1>0, <1>1 DEF Accept, CreateTask
  <2>2. CASE d = Head(backlog)
    BY <1>0, <2>1, <2>2 DEF InHand
  <2>3. CASE d # Head(backlog)
    <3>1. obj'[d] = obj[d]
      BY <1>0, <2>1, <2>3
    <3>2. ASSUME Queued(d) PROVE Queued(d)'
      <4>1. PICK i \in 1 .. Len(backlog) : backlog[i] = d
        BY <3>2 DEF Queued
      <4>2. i # 1
        BY <1>0, <2>1, <2>3, <4>1
      <4>3. /\ i - 1 \in 1 .. Len(Tail(backlog)) /\ Tail(backlog)[i - 1] = backlog[i]
        BY <1>0, <2>1, <4>1, <4>2
      <4> QED BY <2>1, <4>1, <4>3 DEF Queued
    <3> QED BY <1>0, <2>1, <3>1, <3>2 DEF Waiting, InHand, Written
  <2> QED BY <2>2, <2>3
<1>2. CASE Pop
  <2>1. mpc = "pop" /\ tasks[tid] = <<conn>> /\ tid \in Threads
    BY <1>2 DEF Pop, HandInv, DispatchInv, NoTaskStranded, TypeOK
  <2>2. conn' = conn /\ mpc' = "new"
    <3>1. Head(<<conn>>) = conn
      OBVIOUS
    <3> QED BY <1>2, <2>1, <3>1 DEF Pop
  <2> QED BY <1>0, <1>2, <2>1, <2>2 DEF Pop, Waiting, Queued, InHand, Written
<1>3. CASE NewBev
  <2>1. mpc = "new" /\ conn \in Clients
    BY <1>3 DEF NewBev, ConnInv
  <2>2. CASE mpc' = "greet" /\ UNCHANGED <<conn, obj>>
    BY <1>0, <1>3, <2>1, <2>2 DEF NewBev, Waiting, Queued, InHand, Written
  <2>3. CASE Return /\ obj' = [obj EXCEPT ![conn] = "freed"]
    BY <1>0, <1>3, <2>1, <2>3 DEF NewBev, Return, Waiting, Queued, InHand, Written
  <2> QED BY <1>3, <2>2, <2>3 DEF NewBev
<1>4. CASE Greet
  <2>1. mpc = "greet" /\ conn \in Clients /\ out' = [out EXCEPT ![conn] = TRUE]
        /\ UNCHANGED <<cstate, greeted, backlog, obj>>
    BY <1>4 DEF Greet, ConnInv
  <2> QED BY <1>0, <2>1 DEF Waiting, Queued, InHand, Written
<1>5. CASE StartThread \/ Wake \/ Assign \/ SetCallbacks \/ Enable
  <2>1. /\ UNCHANGED <<cstate, greeted, backlog, obj>>
        /\ out' \in {out, [out EXCEPT ![conn] = TRUE]}
    BY <1>5 DEF StartThread, Wake, Assign, SetCallbacks, Enable
  <2>2. \/ mpc \notin {"wake", "pop", "new", "greet"}
        \/ mpc = "wake" /\ mpc' = "pop" /\ conn' = conn
    BY <1>5 DEF StartThread, Wake, Assign, SetCallbacks, Enable
  <2> QED BY <1>0, <2>1, <2>2 DEF Waiting, Queued, InHand, Written
<1>6. CASE \E c \in Clients : Connect(c)
  <2>1. PICK c \in Clients : Connect(c)
    BY <1>6
  <2>2. /\ backlog' = Append(backlog, c) /\ UNCHANGED <<greeted, mpc, conn, obj, out>>
        /\ cstate' = [cstate EXCEPT ![c] = "open"]
    BY <2>1 DEF Connect
  <2>3. Len(backlog) + 1 \in 1 .. Len(backlog') /\ backlog'[Len(backlog) + 1] = c
        /\ \A i \in 1 .. Len(backlog) : i \in 1 .. Len(backlog') /\ backlog'[i] = backlog[i]
    BY <1>0, <2>2
  <2>4. CASE d = c
    BY <2>3, <2>4 DEF Queued
  <2>5. CASE d # c
    BY <1>0, <2>2, <2>3, <2>5 DEF Waiting, Queued, InHand, Written
  <2> QED BY <2>4, <2>5
<1>7. CASE \E c \in Clients : ClientSend(c) \/ ClientLeave(c)
  <2>1. PICK c \in Clients : ClientSend(c) \/ ClientLeave(c)
    BY <1>7
  <2>2. /\ UNCHANGED <<greeted, backlog, mpc, conn, obj, out>>
        /\ cstate' \in {cstate, [cstate EXCEPT ![c] = "closed"], [cstate EXCEPT ![c] = "reset"]}
    BY <2>1 DEF ClientSend, ClientLeave
  <2> QED BY <1>0, <2>2, WayKept
<1>8. CASE \E w \in Threads : LoopStep(w)
  BY <1>0, <1>8, WayKept DEF LoopStep, Sleep, WakeUp, Notify
<1>9. CASE \E w \in Threads, c \in Clients : Callback(w, c) \/ Expire(w, c)
  <2>1. PICK w \in Threads, c \in Clients : Callback(w, c) \/ Expire(w, c)
    BY <1>9
  <2>2. UNCHANGED <<cstate, backlog, mpc, conn>>
    BY <2>1 DEF Callback, Expire, Flush, Read, Hangup, Timeout
  <2>3. CASE Delete(c)
    BY <1>0, <2>2, <2>3, WayKept DEF Delete
  <2>4. CASE UNCHANGED <<greeted, obj, out>>
    BY <1>0, <2>2, <2>4, WayKept
  <2>5. CASE /\ UNCHANGED obj /\ out' = [out EXCEPT ![c] = FALSE]
             /\ \/ greeted' = [greeted EXCEPT ![c] = TRUE]
                \/ UNCHANGED greeted /\ cstate[c] = "reset"
    BY <1>0, <2>2, <2>5, WayKept
  <2> QED BY <2>1, <2>3, <2>4, <2>5 DEF Callback, Expire, Flush, Read, Hangup, Timeout
<1>10. CASE UNCHANGED vars
  BY <1>0, <1>10, WayKept DEF vars
<1> QED BY <1>1, <1>2, <1>3, <1>4, <1>5, <1>6, <1>7, <1>8, <1>9, <1>10 DEF Next, MainStep

\* Guards: main can take its next step; the loop of w can read a byte of its pipe
\* or come back from epoll_wait to do so; and it can run the write callback of c or
\* come back to run it.
MainMoves == \/ mpc \notin {"accept", "wake"}
             \/ mpc = "accept" /\ backlog # << >>
             \/ mpc = "wake" /\ pipe[tid] < PipeCap

LoopDrains(w) == pipe[w] > 0 /\ (loop[w] = "awake" \/ (loop[w] = "asleep" /\ Ready(w)))

LoopGreets(w, c) == /\ c \in On(w) /\ out[c]
                    /\ loop[w] = "awake" \/ (loop[w] = "asleep" /\ Ready(w))

\* Unless the server has gone undefined: whoever waits for the greeting is with
\* main, which goes on unless the worker's pipe is full, and then the worker
\* empties it; or with its worker, which sends it.
GreetingIsDue ==
    ~ broken => \A c \in Clients : Waiting(c) =>
        \/ (Queued(c) \/ InHand(c)) /\ (MainMoves \/ (mpc = "wake" /\ LoopDrains(tid)))
        \/ base[c] \in Threads /\ LoopGreets(base[c], c)

\* So it is wherever the invariant holds.
LEMMA WaitersAreServed ==
    ASSUME TypeOK, GreetInv PROVE GreetingIsDue
<1> SUFFICES ASSUME NEW c \in Clients, Waiting(c)
             PROVE  \/ /\ Queued(c) \/ InHand(c)
                       /\ MainMoves \/ (mpc = "wake" /\ LoopDrains(tid))
                    \/ base[c] \in Threads /\ LoopGreets(base[c], c)
  BY DEF GreetingIsDue
<1>1. Queued(c) \/ InHand(c) \/ Written(c)
  BY DEF GreetInv, WayInv
<1>2. CASE Written(c)
  <2>1. obj[c] = "alive" /\ out[c] /\ base[c] \in Threads /\ loop[base[c]] # "unborn"
    BY <1>2 DEF Written, GreetInv, BornInv
  <2>2. c \in On(base[c]) /\ Ready(base[c])
    BY <2>1 DEF On, Ready
  <2>3. loop[base[c]] \in {"awake", "asleep"}
    BY <2>1 DEF TypeOK
  <2> QED BY <2>1, <2>2, <2>3 DEF LoopGreets
<1>3. CASE Queued(c) \/ InHand(c)
  <2>1. CASE mpc = "wake"
    <3>1. tid \in Threads /\ pipe[tid] \in 0 .. PipeCap /\ loop[tid] \in {"awake", "asleep"}
      BY <2>1 DEF TypeOK, GreetInv, BornInv
    <3>2. pipe[tid] < PipeCap \/ pipe[tid] > 0
      BY <3>1, DispatchAssumption DEF DispatchAssumption
    <3>3. pipe[tid] > 0 => LoopDrains(tid)
      BY <3>1 DEF LoopDrains, Ready
    <3> QED BY <1>3, <2>1, <3>2, <3>3 DEF MainMoves
  <2>2. CASE mpc = "accept"
    <3>1. Queued(c)
      BY <1>3, <2>2 DEF InHand
    <3>2. backlog # << >>
      BY <3>1 DEF Queued
    <3> QED BY <1>3, <2>2, <3>2 DEF MainMoves
  <2>3. CASE mpc \notin {"accept", "wake"}
    BY <1>3, <2>3 DEF MainMoves
  <2> QED BY <2>1, <2>2, <2>3
<1> QED BY <1>1, <1>2, <1>3

\* XThread.cpp:59-76 and 90-106: main and a worker never wait for each other, and
\* nobody is lost between them: as long as a client waits for the greeting, the
\* thread that has it next can go on.  The core of EveryoneIsGreeted.
THEOREM GreetingsGoOn == Spec => []GreetingIsDue
<1>1. TypeOK /\ ConnInv /\ DispatchInv /\ [Next]_vars => DispatchInv'
  BY DispatchStep
<1>2. TypeOK /\ ConnInv /\ DispatchInv /\ GreetInv /\ [Next]_vars => GreetInv'
  BY BornStep, HandStep, WayStep DEF GreetInv
<1>3. TypeOK /\ GreetInv => GreetingIsDue
  BY WaitersAreServed
<1>4. Init => DispatchInv
  BY DispatchInit
<1> QED BY <1>1, <1>2, <1>3, <1>4, GreetStarts, TypeCorrect, PTL DEF Spec
=============================================================================
