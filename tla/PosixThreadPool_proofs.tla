------------------------ MODULE PosixThreadPool_proofs ------------------------
(***************************************************************************)
(* Theorems about the POSIX thread pool, for any number of threads and of  *)
(* tasks.  The inductive invariant adds to the properties what the code    *)
(* relies on without saying it: who holds the mutex where, that a worker   *)
(* past the wait loop sees an entry or the shutdown flag, and that every   *)
(* submitted entry is queued, running or done, and only one of these.      *)
(***************************************************************************)
EXTENDS PosixThreadPool, FiniteSetTheorems, TLAPS

Holding == {"test", "park", "check"}

\* The mutex protects what it is meant to protect.
LockInv == /\ \A w \in Workers : pc[w] \in Holding <=> lock = w
           /\ mpc = "push" <=> lock = Main

\* pthread_create has not happened yet for the threads from the k-th on.
BornInv == mpc = "create" => \A w \in Workers : w >= k => pc[w] = "unborn"

WaitInv == waiting = {w \in Workers : pc[w] = "waiting"}

CheckInv == \A w \in Workers : pc[w] = "check" => queue # << >> \/ shutdown

IndexInv == /\ mpc \in {"create", "join"} => k <= NumThreads
            /\ mpc \in {"add", "push", "signal"} => k <= NTasks

\* How many entries main() has pushed.
Submitted == CASE mpc = "create" -> 0
               [] mpc \in {"add", "push"} -> k - 1
               [] mpc = "signal" -> k
               [] OTHER -> NTasks

Queued(t) == \E i \in 1 .. Len(queue) : queue[i] = t

\* No entry is in two places ...
OncesInv ==
    /\ \A i \in 1 .. Len(queue) : queue[i] <= Submitted /\ queue[i] \notin done
    /\ \A i, j \in 1 .. Len(queue) : i # j => queue[i] # queue[j]
    /\ \A t \in done : t \in Tasks /\ t <= Submitted
    /\ \A w \in Workers : pc[w] = "run" <=> task[w] # 0
    /\ \A w \in Workers : pc[w] = "run" =>
           /\ task[w] <= Submitted
           /\ task[w] \notin done
           /\ ~ Queued(task[w])
    /\ \A v, w \in Workers :
           v # w /\ pc[v] = "run" /\ pc[w] = "run" => task[v] # task[w]

\* ... and none is lost.
AccountedInv ==
    \A t \in Tasks : t <= Submitted =>
        Queued(t) \/ t \in done \/ \E w \in Workers : task[w] = t

StopInv ==
    /\ shutdown => mpc \in {"poll", "stop", "broadcast", "join", "destroy", "exited"}
    /\ mpc \in {"broadcast", "join", "destroy", "exited"} \/ destroyed => shutdown
    /\ shutdown \/ mpc = "stop" => queue = << >>
    /\ \A w \in Workers : pc[w] = "exited" => shutdown
    /\ mpc = "join" => \A w \in Workers : w < k => pc[w] = "exited"
    /\ mpc = "destroy" \/ destroyed => \A w \in Workers : pc[w] = "exited"

\* The threads main() has created run.
CreatedInv == \A w \in Workers : pc[w] = "unborn" => mpc = "create" /\ w >= k

\* A worker is about to sleep only over an empty list, which nobody can change
\* before it sleeps; and while one sleeps, a worker is coming for each entry.
ParkInv == \A w \in Workers : pc[w] = "park" => queue = << >>

Signals == IF mpc = "signal" THEN 1 ELSE 0
MetInv  == waiting # {} => Len(queue) <= Cardinality(Coming) + Signals

IInv == /\ TypeOK /\ LockInv /\ WaitInv /\ BornInv /\ CheckInv /\ IndexInv
        /\ OncesInv /\ AccountedInv /\ StopInv /\ ParkInv /\ MetInv /\ CreatedInv

\* What a signal or a broadcast does to the threads it wakes and to the others.
LEMMA WakeUpEffect ==
    ASSUME TypeOK, NEW W \in SUBSET Workers, WakeUp(W)
    PROVE  /\ waiting' = waiting \ W
           /\ waiting' \subseteq Workers
           /\ pc' \in [Workers -> WorkerPC]
           /\ \A w \in Workers : pc'[w] = IF w \in W THEN "relock" ELSE pc[w]
<1>1. waiting' = waiting \ W /\ waiting' \subseteq Workers
  BY DEF TypeOK, WakeUp
<1>2. \A w \in Workers : pc'[w] = IF w \in W THEN "relock" ELSE pc[w]
  BY DEF WakeUp
<1>3. pc' \in [Workers -> WorkerPC]
  BY DEF TypeOK, WakeUp, WorkerPC
<1>4. QED
  BY <1>1, <1>2, <1>3

\* Every state has the type the code's declarations give it, and main()'s loop
\* index stays within its loop.
THEOREM TypeCorrect == Spec => [](TypeOK /\ IndexInv)
<1> USE PoolAssumption DEF Workers, Tasks, Main, Nobody
<1>1. Init => TypeOK /\ IndexInv
  <2> SUFFICES ASSUME Init PROVE TypeOK /\ IndexInv
    OBVIOUS
  <2>1. queue \in Seq(Tasks)
    BY DEF Init
  <2>2. pc \in [Workers -> WorkerPC] /\ task \in [Workers -> Tasks \union {0}]
    BY DEF Init, WorkerPC
  <2>3. IndexInv
    BY DEF Init, IndexInv
  <2>4. lock \in Workers \union {Main, Nobody}
    BY DEF Init
  <2>5. /\ shutdown \in BOOLEAN /\ destroyed \in BOOLEAN
        /\ waiting \subseteq Workers /\ done \subseteq Tasks \union {0}
    BY Zenon DEF Init
  <2>6. mpc \in MainPC /\ k \in Nat \ {0}
    BY DEF Init, MainPC
  <2>7. QED
    BY <2>1, <2>2, <2>3, <2>4, <2>5, <2>6 DEF TypeOK
<1>2. TypeOK /\ IndexInv /\ [Next]_vars => (TypeOK /\ IndexInv)'
  <2> SUFFICES ASSUME TypeOK, IndexInv, [Next]_vars
               PROVE  (TypeOK /\ IndexInv)'
    OBVIOUS
  <2> USE DEF TypeOK, IndexInv, WorkerPC, MainPC
  <2>1. CASE Create
      BY   <2>1 DEF Create, NextOr, pool
  <2>2. CASE AddLock
      BY   <2>2 DEF AddLock, pool
  <2>3. CASE AddPush
    <3>1. queue' \in Seq(Tasks)
      BY <2>3 DEF AddPush
    <3>2. /\ UNCHANGED <<shutdown, destroyed, done, waiting, pc, task, k>>
          /\ lock' = Nobody /\ mpc' = "signal" /\ mpc = "push"
      BY <2>3 DEF AddPush
    <3>3. QED
      BY <3>1, <3>2
  <2>4. CASE AddSignal
    <3>1. PICK W \in SUBSET Workers : WakeUp(W)
      BY <2>4 DEF AddSignal
    <3>2. waiting' \subseteq Workers /\ pc' \in [Workers -> WorkerPC]
      BY <3>1, WakeUpEffect
    <3>3. QED
      BY <2>4, <3>2 DEF AddSignal, NextOr, pool
  <2>5. CASE Poll
      BY   <2>5 DEF Poll, pool
  <2>6. CASE StopRefused
      BY   <2>6 DEF StopRefused, pool
  <2>7. CASE StopSet
      BY   <2>7 DEF StopSet, pool
  <2>8. CASE StopBroadcast
      BY   <2>8 DEF StopBroadcast, WakeUp, pool
  <2>9. CASE StopJoin
      BY   <2>9 DEF StopJoin, NextOr, pool
  <2>10. CASE StopDestroy
      BY   <2>10 DEF StopDestroy, pool
  <2>11. ASSUME NEW w \in Workers, Acquire(w) PROVE (TypeOK /\ IndexInv)'
      BY   <2>11 DEF Acquire, pool
  <2>12. ASSUME NEW w \in Workers, TestWait(w) PROVE (TypeOK /\ IndexInv)'
      BY   <2>12 DEF TestWait, pool
  <2>13. ASSUME NEW w \in Workers, Park(w) PROVE (TypeOK /\ IndexInv)'
      BY   <2>13 DEF Park, pool
  <2>14. ASSUME NEW w \in Workers, Leave(w) PROVE (TypeOK /\ IndexInv)'
      BY   <2>14 DEF Leave, pool
  <2>15. ASSUME NEW w \in Workers, Take(w) PROVE (TypeOK /\ IndexInv)'
    <3>1. queue' \in Seq(Tasks) /\ task' \in [Workers -> Tasks \union {0}]
      <4>1. CASE queue = << >>
        BY <2>15, <4>1 DEF Take
      <4>2. CASE queue # << >>
        <5>1. Head(queue) \in Tasks /\ Tail(queue) \in Seq(Tasks)
          BY <4>2
        <5>2. QED
          BY <2>15, <4>2, <5>1 DEF Take
      <4>3. QED
        BY <4>1, <4>2
    <3>2. QED
      BY <2>15, <3>1 DEF Take
  <2>16. ASSUME NEW w \in Workers, Run(w) PROVE (TypeOK /\ IndexInv)'
      BY   <2>16 DEF Run, pool
  <2>17. ASSUME NEW w \in Workers, SpuriousWakeup(w) PROVE (TypeOK /\ IndexInv)'
      BY   <2>17 DEF SpuriousWakeup, WakeUp, pool
  <2>18. CASE UNCHANGED vars
      BY   <2>18 DEF vars, pool, pool
  <2>19. QED
      BY   <2>1,   <2>2,   <2>3,   <2>4,   <2>5,   <2>6,   <2>7,   <2>8,   <2>9,   <2>10,   <2>11,   <2>12,   <2>13,   <2>14,   <2>15,   <2>16,   <2>17,   <2>18 DEF Next, MainStep, WorkerStep
<1>3. QED
  BY <1>1, <1>2, PTL DEF Spec

\* Every step keeps the mutex with the one thread that is inside its critical
\* section, and the condition's waiters with the threads blocked in it.
LEMMA LockStep ==
    ASSUME TypeOK, IndexInv, (LockInv /\ WaitInv /\ BornInv), [Next]_vars
    PROVE  (LockInv /\ WaitInv /\ BornInv)'
<1> USE PoolAssumption DEF Workers, Tasks, Main, Nobody
<1>1. CASE Create
  BY <1>1 DEF Create, pool, LockInv, WaitInv, BornInv, Holding, TypeOK, IndexInv, WorkerPC, NextOr
<1>2. CASE AddLock
  BY <1>2 DEF AddLock, pool, LockInv, WaitInv, BornInv, Holding, TypeOK, IndexInv, WorkerPC
<1>3. CASE AddPush
  BY <1>3 DEF AddPush, pool, LockInv, WaitInv, BornInv, Holding, TypeOK, IndexInv, WorkerPC
<1>4. CASE AddSignal
  <2>1. PICK W \in SUBSET waiting : WakeUp(W)
    BY <1>4 DEF AddSignal
  <2>2. /\ waiting' = waiting \ W
        /\ pc' \in [Workers -> WorkerPC]
        /\ \A w \in Workers : pc'[w] = IF w \in W THEN "relock" ELSE pc[w]
    BY <2>1, WakeUpEffect DEF TypeOK
  <2>3. QED
    BY <1>4, <2>2 DEF AddSignal, NextOr, pool, LockInv, WaitInv, BornInv, Holding, TypeOK
<1>5. CASE Poll
  BY <1>5 DEF Poll, pool, LockInv, WaitInv, BornInv, Holding, TypeOK, IndexInv, WorkerPC
<1>6. CASE StopRefused
  BY <1>6 DEF StopRefused, pool, LockInv, WaitInv, BornInv, Holding, TypeOK, IndexInv, WorkerPC
<1>7. CASE StopSet
  BY <1>7 DEF StopSet, pool, LockInv, WaitInv, BornInv, Holding, TypeOK, IndexInv, WorkerPC
<1>8. CASE StopBroadcast
  <2>1. WakeUp(waiting)
    BY <1>8 DEF StopBroadcast
  <2>2. /\ waiting' = waiting \ waiting
        /\ pc' \in [Workers -> WorkerPC]
        /\ \A w \in Workers : pc'[w] = IF w \in waiting THEN "relock" ELSE pc[w]
    BY <2>1, WakeUpEffect DEF TypeOK
  <2>3. QED
    BY <1>8, <2>2 DEF StopBroadcast, pool, LockInv, WaitInv, BornInv, Holding, TypeOK
<1>9. CASE StopJoin
  BY <1>9 DEF StopJoin, pool, LockInv, WaitInv, BornInv, Holding, TypeOK, IndexInv, WorkerPC, NextOr
<1>10. CASE StopDestroy
  BY <1>10 DEF StopDestroy, pool, LockInv, WaitInv, BornInv, Holding, TypeOK, IndexInv, WorkerPC
<1>11. ASSUME NEW w \in Workers, Acquire(w) PROVE (LockInv /\ WaitInv /\ BornInv)'
  BY <1>11 DEF Acquire, pool, LockInv, WaitInv, BornInv, Holding, TypeOK, IndexInv, WorkerPC
<1>12. ASSUME NEW w \in Workers, TestWait(w) PROVE (LockInv /\ WaitInv /\ BornInv)'
  BY <1>12 DEF TestWait, pool, LockInv, WaitInv, BornInv, Holding, TypeOK, IndexInv, WorkerPC
<1>13. ASSUME NEW w \in Workers, Park(w) PROVE (LockInv /\ WaitInv /\ BornInv)'
  BY <1>13 DEF Park, pool, LockInv, WaitInv, BornInv, Holding, TypeOK, IndexInv, WorkerPC
<1>14. ASSUME NEW w \in Workers, Leave(w) PROVE (LockInv /\ WaitInv /\ BornInv)'
  BY <1>14 DEF Leave, pool, LockInv, WaitInv, BornInv, Holding, TypeOK, IndexInv, WorkerPC
<1>15. ASSUME NEW w \in Workers, Take(w) PROVE (LockInv /\ WaitInv /\ BornInv)'
  BY <1>15 DEF Take, pool, LockInv, WaitInv, BornInv, Holding, TypeOK, IndexInv, WorkerPC
<1>16. ASSUME NEW w \in Workers, Run(w) PROVE (LockInv /\ WaitInv /\ BornInv)'
  BY <1>16 DEF Run, pool, LockInv, WaitInv, BornInv, Holding, TypeOK, IndexInv, WorkerPC
<1>17. ASSUME NEW w \in Workers, SpuriousWakeup(w) PROVE (LockInv /\ WaitInv /\ BornInv)'
  <2>1. WakeUp({w}) /\ {w} \in SUBSET Workers
    BY <1>17 DEF SpuriousWakeup
  <2>2. /\ waiting' = waiting \ {w}
        /\ pc' \in [Workers -> WorkerPC]
        /\ \A v \in Workers : pc'[v] = IF v \in {w} THEN "relock" ELSE pc[v]
    BY <2>1, WakeUpEffect
  <2>3. QED
    BY <1>17, <2>2 DEF SpuriousWakeup, pool, LockInv, WaitInv, BornInv, Holding, TypeOK
<1>18. CASE UNCHANGED vars
  BY <1>18 DEF vars, pool, LockInv, WaitInv, BornInv, Holding, TypeOK, IndexInv, WorkerPC
<1>19. QED
  BY <1>1, <1>2, <1>3, <1>4, <1>5, <1>6, <1>7, <1>8, <1>9, <1>10, <1>11, <1>12, <1>13, <1>14, <1>15, <1>16, <1>17, <1>18 DEF Next, MainStep, WorkerStep

\* Every step keeps what StopAll relies on: the list stays empty once main() has
\* seen it empty, and the threads it has joined stay gone.
LEMMA StopStep ==
    ASSUME TypeOK, IndexInv, LockInv, WaitInv, BornInv, (CheckInv /\ StopInv), [Next]_vars
    PROVE  (CheckInv /\ StopInv)'
<1> USE PoolAssumption DEF Workers, Tasks, Main, Nobody
<1>1. CASE Create
  BY <1>1 DEF Create, pool, CheckInv, StopInv, LockInv, Holding, BornInv, TypeOK, IndexInv, WorkerPC, MainPC, NextOr
<1>2. CASE AddLock
  BY <1>2 DEF AddLock, pool, CheckInv, StopInv, LockInv, Holding, BornInv, TypeOK, IndexInv, WorkerPC, MainPC
<1>3. CASE AddPush
  BY <1>3 DEF AddPush, pool, CheckInv, StopInv, LockInv, Holding, BornInv, TypeOK, IndexInv, WorkerPC, MainPC
<1>4. CASE AddSignal
  <2>1. PICK W \in SUBSET waiting : WakeUp(W)
    BY <1>4 DEF AddSignal
  <2>2. /\ pc' \in [Workers -> WorkerPC]
        /\ \A v \in Workers : pc'[v] = IF v \in W THEN "relock" ELSE pc[v]
    BY <2>1, WakeUpEffect DEF TypeOK
  <2>3. \A v \in Workers : v \in W => pc[v] = "waiting"
    BY <2>1 DEF WaitInv
  <2>4. QED
    BY <1>4, <2>2, <2>3 DEF AddSignal, NextOr, pool, CheckInv, StopInv, TypeOK, IndexInv
<1>5. CASE Poll
  BY <1>5 DEF Poll, pool, CheckInv, StopInv, LockInv, Holding, BornInv, TypeOK, IndexInv, WorkerPC, MainPC
<1>6. CASE StopRefused
  BY <1>6 DEF StopRefused, pool, CheckInv, StopInv, LockInv, Holding, BornInv, TypeOK, IndexInv, WorkerPC, MainPC
<1>7. CASE StopSet
  BY <1>7 DEF StopSet, pool, CheckInv, StopInv, LockInv, Holding, BornInv, TypeOK, IndexInv, WorkerPC, MainPC
<1>8. CASE StopBroadcast
  <2>1. WakeUp(waiting) /\ waiting \in SUBSET waiting
    BY <1>8 DEF StopBroadcast, TypeOK
  <2>2. /\ pc' \in [Workers -> WorkerPC]
        /\ \A v \in Workers : pc'[v] = IF v \in waiting THEN "relock" ELSE pc[v]
    BY <2>1, WakeUpEffect DEF TypeOK
  <2>3. \A v \in Workers : v \in waiting => pc[v] = "waiting"
    BY <2>1 DEF WaitInv
  <2>4. QED
    BY <1>8, <2>2, <2>3 DEF StopBroadcast, pool, CheckInv, StopInv, TypeOK, IndexInv
<1>9. CASE StopJoin
  BY <1>9 DEF StopJoin, pool, CheckInv, StopInv, LockInv, Holding, BornInv, TypeOK, IndexInv, WorkerPC, MainPC, NextOr
<1>10. CASE StopDestroy
  BY <1>10 DEF StopDestroy, pool, CheckInv, StopInv, LockInv, Holding, BornInv, TypeOK, IndexInv, WorkerPC, MainPC
<1>11. ASSUME NEW w \in Workers, Acquire(w) PROVE (CheckInv /\ StopInv)'
  BY <1>11 DEF Acquire, pool, CheckInv, StopInv, LockInv, Holding, BornInv, TypeOK, IndexInv, WorkerPC, MainPC
<1>12. ASSUME NEW w \in Workers, TestWait(w) PROVE (CheckInv /\ StopInv)'
  BY <1>12 DEF TestWait, pool, CheckInv, StopInv, LockInv, Holding, BornInv, TypeOK, IndexInv, WorkerPC, MainPC
<1>13. ASSUME NEW w \in Workers, Park(w) PROVE (CheckInv /\ StopInv)'
  BY <1>13 DEF Park, pool, CheckInv, StopInv, LockInv, Holding, BornInv, TypeOK, IndexInv, WorkerPC, MainPC
<1>14. ASSUME NEW w \in Workers, Leave(w) PROVE (CheckInv /\ StopInv)'
  BY <1>14 DEF Leave, pool, CheckInv, StopInv, LockInv, Holding, BornInv, TypeOK, IndexInv, WorkerPC, MainPC
<1>15. ASSUME NEW w \in Workers, Take(w) PROVE (CheckInv /\ StopInv)'
  BY <1>15 DEF Take, pool, CheckInv, StopInv, LockInv, Holding, BornInv, TypeOK, IndexInv, WorkerPC, MainPC
<1>16. ASSUME NEW w \in Workers, Run(w) PROVE (CheckInv /\ StopInv)'
  BY <1>16 DEF Run, pool, CheckInv, StopInv, LockInv, Holding, BornInv, TypeOK, IndexInv, WorkerPC, MainPC
<1>17. ASSUME NEW w \in Workers, SpuriousWakeup(w) PROVE (CheckInv /\ StopInv)'
  <2>1. WakeUp({w}) /\ {w} \in SUBSET waiting
    BY <1>17 DEF SpuriousWakeup, TypeOK
  <2>2. /\ pc' \in [Workers -> WorkerPC]
        /\ \A v \in Workers : pc'[v] = IF v \in {w} THEN "relock" ELSE pc[v]
    BY <2>1, WakeUpEffect DEF TypeOK
  <2>3. \A v \in Workers : v \in {w} => pc[v] = "waiting"
    BY <2>1 DEF WaitInv
  <2>4. QED
    BY <1>17, <2>2, <2>3 DEF SpuriousWakeup, pool, CheckInv, StopInv, TypeOK, IndexInv
<1>18. CASE UNCHANGED vars
  BY <1>18 DEF vars, pool, CheckInv, StopInv, LockInv, Holding, BornInv, TypeOK, IndexInv, WorkerPC, MainPC
<1>19. QED
  BY <1>1, <1>2, <1>3, <1>4, <1>5, <1>6, <1>7, <1>8, <1>9, <1>10, <1>11, <1>12, <1>13, <1>14, <1>15, <1>16, <1>17, <1>18 DEF Next, MainStep, WorkerStep

\* A step that moves no entry, and starts or ends no task, keeps the account of
\* the entries.
LEMMA QuietStep ==
    ASSUME OncesInv, AccountedInv,
           UNCHANGED <<queue, task, done>>,
           Submitted' = Submitted,
           \A w \in Workers : pc'[w] = "run" <=> pc[w] = "run"
    PROVE  (OncesInv /\ AccountedInv)'
<1>1. \A t : Queued(t)' <=> Queued(t)
  BY DEF Queued
<1>2. OncesInv'
  BY <1>1 DEF OncesInv
<1>3. AccountedInv'
  BY <1>1 DEF AccountedInv
<1>4. QED
  BY <1>2, <1>3

\* How many entries main() has pushed, before and after each of its steps.
LEMMA SubmittedStep ==
    ASSUME TypeOK, IndexInv, [Next]_vars
    PROVE  /\ Submitted \in 0 .. NTasks
           /\ AddPush => Submitted = k - 1 /\ Submitted' = k /\ k \in Tasks
           /\ ~ AddPush => Submitted' = Submitted
<1> USE PoolAssumption DEF Tasks
<1>1. Submitted \in 0 .. NTasks
  BY DEF Submitted, TypeOK, IndexInv, MainPC
<1>2. ASSUME AddPush PROVE Submitted = k - 1 /\ Submitted' = k /\ k \in Tasks
  <2>1. mpc = "push" /\ mpc' = "signal" /\ k' = k
    BY <1>2 DEF AddPush
  <2>2. QED
    BY <2>1 DEF Submitted, TypeOK, IndexInv
<1>3. ASSUME UNCHANGED <<mpc, k>> PROVE Submitted' = Submitted
  BY <1>3 DEF Submitted
<1>4. ASSUME mpc \notin {"create", "add", "push", "signal"},
             mpc' \notin {"create", "add", "push", "signal"}
      PROVE  Submitted' = Submitted
  BY <1>4 DEF Submitted
<1>5. ASSUME Create PROVE Submitted' = Submitted
  BY <1>5 DEF Create, NextOr, Submitted, TypeOK, IndexInv
<1>6. ASSUME AddLock PROVE Submitted' = Submitted
  BY <1>6 DEF AddLock, Submitted
<1>7. ASSUME AddSignal PROVE Submitted' = Submitted
  <2>1. mpc = "signal" /\ NextOr(NTasks, "add", "poll")
    BY <1>7 DEF AddSignal
  <2>2. QED
    BY <2>1 DEF NextOr, Submitted, TypeOK, IndexInv
<1>8. ASSUME Poll \/ StopRefused \/ StopSet \/ StopBroadcast \/ StopJoin \/ StopDestroy
      PROVE  Submitted' = Submitted
  BY <1>4, <1>8 DEF Poll, StopRefused, StopSet, StopBroadcast, StopJoin, NextOr,
                    StopDestroy
<1>9. ASSUME \E w \in Workers : WorkerStep(w) \/ SpuriousWakeup(w)
      PROVE  Submitted' = Submitted
  BY <1>3, <1>9 DEF WorkerStep, Acquire, TestWait, Park, Leave, Take, Run,
                    SpuriousWakeup
<1>10. ASSUME UNCHANGED vars PROVE Submitted' = Submitted
  BY <1>3, <1>10 DEF vars
<1>11. QED
  BY <1>1, <1>2, <1>5, <1>6, <1>7, <1>8, <1>9, <1>10 DEF Next, MainStep

\* AddTask puts a new entry at the end of the list.
LEMMA PushStep ==
    ASSUME TypeOK, IndexInv, OncesInv, AccountedInv, AddPush
    PROVE  (OncesInv /\ AccountedInv)'
<1> DEFINE InNew(t) == \E i \in 1 .. Len(queue') : queue'[i] = t
<1> USE PoolAssumption DEF Tasks
<1>1. k \in Tasks /\ Submitted = k - 1 /\ Submitted' = k
  BY SubmittedStep DEF Next, MainStep
<1>2. /\ queue' = Append(queue, k) /\ queue \in Seq(Tasks)
      /\ UNCHANGED <<done, pc, task>>
  BY DEF AddPush, TypeOK
<1>3. /\ Len(queue') = Len(queue) + 1 /\ Len(queue) \in Nat
      /\ \A i \in 1 .. Len(queue) : queue'[i] = queue[i] /\ queue[i] \in Tasks
      /\ queue'[Len(queue) + 1] = k
  BY <1>1, <1>2
<1>4. \A t : InNew(t) <=> Queued(t) \/ t = k
  <2> HIDE DEF Tasks
  <2>1. ASSUME NEW t, InNew(t) PROVE Queued(t) \/ t = k
    BY <2>1, <1>3 DEF Queued
  <2>2. ASSUME NEW t, Queued(t) PROVE InNew(t)
    BY <2>2, <1>3 DEF Queued
  <2>3. InNew(k)
    BY <1>3
  <2> HIDE DEF InNew
  <2>4. QED
    BY <2>1, <2>2, <2>3
<1>5. k \notin done /\ ~ Queued(k) /\ \A w \in Workers : task[w] # k
  <2>1. ~ Queued(k)
    BY <1>1, <1>3 DEF OncesInv, Queued
  <2>2. QED
    BY <1>1, <2>1 DEF OncesInv, TypeOK
<1>6. OncesInv'
  <2>1. (\A i \in 1 .. Len(queue) : queue[i] <= Submitted /\ queue[i] \notin done)'
    BY <1>1, <1>2, <1>3, <1>5 DEF OncesInv
  <2>2. (\A i, j \in 1 .. Len(queue) : i # j => queue[i] # queue[j])'
    BY <1>1, <1>3 DEF OncesInv
  <2>3. (\A t \in done : t \in Tasks /\ t <= Submitted)'
    BY <1>1, <1>2 DEF OncesInv
  <2>4. \A w \in Workers :
           pc[w] = "run" => task[w] <= k /\ task[w] \notin done /\ ~ InNew(task[w])
    <3> HIDE DEF InNew
    <3>1. \A w \in Workers : task[w] \in Tasks \union {0}
      BY DEF TypeOK
    <3>2. QED
      BY <1>1, <1>4, <1>5, <3>1 DEF OncesInv
  <2>5. (\A w \in Workers : pc[w] = "run" =>
           task[w] <= Submitted /\ task[w] \notin done /\ ~ Queued(task[w]))'
    BY <1>1, <1>2, <2>4 DEF Queued
  <2>6. QED
    BY <1>1, <1>2, <2>1, <2>2, <2>3, <2>5 DEF OncesInv
<1>7. AccountedInv'
  <2>1. \A t : InNew(t) => Queued(t)'
    BY DEF Queued
  <2> HIDE DEF InNew
  <2>2. QED
    BY <1>1, <1>2, <1>4, <2>1 DEF AccountedInv
<1>8. QED
  BY <1>6, <1>7

\* A worker takes the oldest entry off the list and nobody else has it.
LEMMA TakeStep ==
    ASSUME TypeOK, IndexInv, CheckInv, OncesInv, AccountedInv,
           NEW w \in Workers, Take(w)
    PROVE  (OncesInv /\ AccountedInv)'
<1> DEFINE InNew(t) == \E i \in 1 .. Len(queue') : queue'[i] = t
<1>1. queue # << >> /\ queue \in Seq(Tasks) /\ task \in [Workers -> Tasks \union {0}]
  BY DEF Take, CheckInv, TypeOK
<1>2. /\ task' = [task EXCEPT ![w] = Head(queue)]
      /\ queue' = Tail(queue)
      /\ pc' = [pc EXCEPT ![w] = "run"]
      /\ pc[w] = "check"
      /\ UNCHANGED <<done, mpc, k>>
  BY <1>1 DEF Take
<1>3. Submitted' = Submitted
  BY <1>2 DEF Submitted
<1>4. /\ Len(queue) \in Nat \ {0} /\ Len(queue') = Len(queue) - 1
      /\ \A i \in 1 .. Len(queue') : queue'[i] = queue[i + 1]
      /\ Head(queue) = queue[1] /\ queue[1] \in Tasks
  BY <1>1, <1>2
<1>5. /\ \A v \in Workers : task'[v] = IF v = w THEN queue[1] ELSE task[v]
      /\ \A v \in Workers : pc'[v] = IF v = w THEN "run" ELSE pc[v]
  BY <1>1, <1>2, <1>4 DEF TypeOK
<1> HIDE DEF Workers
<1>6. \A t : Queued(t) <=> InNew(t) \/ t = queue[1]
  <2>1. ASSUME NEW t, Queued(t), t # queue[1] PROVE InNew(t)
    <3>1. PICK i \in 1 .. Len(queue) : queue[i] = t
      BY <2>1 DEF Queued
    <3>2. i - 1 \in 1 .. Len(queue') /\ queue'[i - 1] = t
      BY <1>4, <2>1, <3>1
    <3>3. QED
      BY <3>2
  <2>2. ASSUME NEW t, InNew(t) PROVE Queued(t)
    <3>1. PICK i \in 1 .. Len(queue') : queue'[i] = t
      BY <2>2
    <3>2. i + 1 \in 1 .. Len(queue) /\ queue[i + 1] = t
      BY <1>4, <3>1
    <3>3. QED
      BY <3>2 DEF Queued
  <2>3. Queued(queue[1])
    BY <1>4 DEF Queued
  <2> HIDE DEF InNew
  <2>4. QED
    BY <2>1, <2>2, <2>3
<1>7. queue[1] <= Submitted /\ queue[1] \notin done /\ ~ InNew(queue[1])
  <2>1. \A i \in 1 .. Len(queue') : queue[i + 1] # queue[1]
    BY <1>4 DEF OncesInv
  <2>2. QED
    BY <1>4, <2>1 DEF OncesInv
<1>8. \A v \in Workers : v # w /\ pc[v] = "run" => task[v] # queue[1]
  BY <1>4, <1>6 DEF OncesInv
<1>9. OncesInv'
  <2>1. (\A i \in 1 .. Len(queue) : queue[i] <= Submitted /\ queue[i] \notin done)'
    BY <1>2, <1>3, <1>4 DEF OncesInv
  <2>2. (\A i, j \in 1 .. Len(queue) : i # j => queue[i] # queue[j])'
    BY <1>4 DEF OncesInv
  <2>3. (\A t \in done : t \in Tasks /\ t <= Submitted)'
    BY <1>2, <1>3 DEF OncesInv
  <2>4. (\A v \in Workers : pc[v] = "run" <=> task[v] # 0)'
    <3>1. queue[1] # 0
      BY <1>4 DEF Tasks
    <3>2. QED
      BY <1>5, <3>1 DEF OncesInv
  <2>5. (\A v \in Workers : pc[v] = "run" =>
           task[v] <= Submitted /\ task[v] \notin done /\ ~ Queued(task[v]))'
    <3>1. \A v \in Workers : v # w /\ pc[v] = "run" => ~ InNew(task[v])
      <4> HIDE DEF InNew
      <4>1. QED
        BY <1>6 DEF OncesInv
    <3>2. QED
      BY <1>2, <1>3, <1>5, <1>7, <3>1 DEF OncesInv, Queued
  <2>6. (\A u, v \in Workers :
           u # v /\ pc[u] = "run" /\ pc[v] = "run" => task[u] # task[v])'
    BY <1>5, <1>8 DEF OncesInv
  <2>7. QED
    BY <2>1, <2>2, <2>3, <2>4, <2>5, <2>6 DEF OncesInv
<1>10. AccountedInv'
  <2>1. pc[w] # "run" /\ task[w] = 0
    BY <1>2 DEF OncesInv
  <2>2. ASSUME NEW t \in Tasks, NEW v \in Workers, task[v] = t PROVE task'[v] = t
    BY <1>5, <2>1, <2>2 DEF Tasks
  <2>3. task'[w] = queue[1]
    BY <1>5
  <2>4. \A t : InNew(t) => Queued(t)'
    BY DEF Queued
  <2> HIDE DEF InNew
  <2>5. QED
    BY <1>2, <1>3, <1>6, <2>2, <2>3, <2>4 DEF AccountedInv
<1>11. QED
  BY <1>9, <1>10

\* A worker finishes its entry.
LEMMA RunStep ==
    ASSUME TypeOK, IndexInv, OncesInv, AccountedInv, NEW w \in Workers, Run(w)
    PROVE  (OncesInv /\ AccountedInv)'
<1>1. /\ pc[w] = "run" /\ done' = done \union {task[w]}
      /\ UNCHANGED <<queue, mpc, k>>
  BY DEF Run
<1>2. /\ \A v \in Workers : task'[v] = IF v = w THEN 0 ELSE task[v]
      /\ \A v \in Workers : pc'[v] = IF v = w THEN "begin" ELSE pc[v]
  BY DEF Run, TypeOK
<1>3. Submitted' = Submitted
  BY <1>1 DEF Submitted
<1>4. \A t : Queued(t)' <=> Queued(t)
  BY <1>1 DEF Queued
<1>5. task[w] \in Tasks /\ task[w] <= Submitted /\ ~ Queued(task[w])
  BY <1>1 DEF OncesInv, TypeOK
<1> HIDE DEF Workers
<1>6. OncesInv'
  <2>1. (\A i \in 1 .. Len(queue) : queue[i] <= Submitted /\ queue[i] \notin done)'
    BY <1>1, <1>3, <1>5 DEF OncesInv, Queued
  <2>2. (\A i, j \in 1 .. Len(queue) : i # j => queue[i] # queue[j])'
    BY <1>1 DEF OncesInv
  <2>3. (\A t \in done : t \in Tasks /\ t <= Submitted)'
    BY <1>1, <1>3, <1>5 DEF OncesInv
  <2>4. (\A v \in Workers : pc[v] = "run" <=> task[v] # 0)'
    BY <1>2 DEF OncesInv
  <2>5. (\A v \in Workers : pc[v] = "run" =>
           task[v] <= Submitted /\ task[v] \notin done /\ ~ Queued(task[v]))'
    BY <1>1, <1>2, <1>3, <1>4 DEF OncesInv
  <2>6. (\A u, v \in Workers :
           u # v /\ pc[u] = "run" /\ pc[v] = "run" => task[u] # task[v])'
    BY <1>2 DEF OncesInv
  <2>7. QED
    BY <2>1, <2>2, <2>3, <2>4, <2>5, <2>6 DEF OncesInv
<1>7. AccountedInv'
  <2>1. ASSUME NEW t \in Tasks, NEW v \in Workers, task[v] = t
        PROVE  t \in done' \/ task'[v] = t
    BY <1>1, <1>2, <2>1
  <2>2. QED
    BY <1>1, <1>3, <1>4, <2>1 DEF AccountedInv
<1>8. QED
  BY <1>6, <1>7

\* Every step keeps the account of the entries.
LEMMA EntryStep ==
    ASSUME TypeOK, IndexInv, WaitInv, BornInv, CheckInv, OncesInv, AccountedInv,
           [Next]_vars
    PROVE  (OncesInv /\ AccountedInv)'
<1> DEFINE Quiet == /\ UNCHANGED <<queue, task, done>>
                    /\ \A w \in Workers : pc'[w] = "run" <=> pc[w] = "run"
<1>1. CASE AddPush
  BY <1>1, PushStep
<1>2. ASSUME NEW w \in Workers, Take(w) PROVE (OncesInv /\ AccountedInv)'
  BY <1>2, TakeStep
<1>3. ASSUME NEW w \in Workers, Run(w) PROVE (OncesInv /\ AccountedInv)'
  BY <1>3, RunStep
<1>4. ASSUME Quiet, ~ AddPush PROVE (OncesInv /\ AccountedInv)'
  BY <1>4, QuietStep, SubmittedStep
<1>5. ASSUME NEW W \in SUBSET waiting, WakeUp(W), UNCHANGED <<queue, task, done>>
      PROVE  Quiet
  BY <1>5, WakeUpEffect DEF WaitInv, TypeOK
<1>6. ASSUME UNCHANGED <<queue, task, done, pc>> PROVE Quiet
  BY <1>6
<1>7. CASE Create
  <2>1. k \in Workers /\ pc[k] = "unborn"
    BY <1>7 DEF Create, BornInv, IndexInv, TypeOK, Workers
  <2>2. Quiet
    BY <1>7, <2>1 DEF Create, pool, TypeOK
  <2>3. ~ AddPush
    BY <1>7 DEF Create, AddPush
  <2>4. QED
    BY <1>4, <2>2, <2>3
<1>8. CASE AddSignal
  <2>1. PICK W \in SUBSET waiting : WakeUp(W)
    BY <1>8 DEF AddSignal
  <2>2. Quiet /\ ~ AddPush
    BY <1>5, <1>8, <2>1 DEF AddSignal, AddPush, pool
  <2>3. QED
    BY <1>4, <2>2
<1>9. CASE StopBroadcast
  <2>1. Quiet /\ ~ AddPush
    BY <1>5, <1>9 DEF StopBroadcast, AddPush, pool
  <2>2. QED
    BY <1>4, <2>1
<1>10. ASSUME NEW w \in Workers, SpuriousWakeup(w)
       PROVE  (OncesInv /\ AccountedInv)'
  <2>1. {w} \in SUBSET waiting /\ WakeUp({w}) /\ UNCHANGED <<queue, task, done>>
    BY <1>10 DEF SpuriousWakeup, pool
  <2>2. mpc' = mpc
    BY <1>10 DEF SpuriousWakeup
  <2>3. Quiet /\ ~ AddPush
    BY <1>5, <2>1, <2>2 DEF AddPush
  <2>4. QED
    BY <1>4, <2>3
<1>11. CASE AddLock \/ Poll \/ StopRefused \/ StopSet \/ StopJoin \/ StopDestroy
  <2>1. UNCHANGED <<queue, task, done, pc>> /\ ~ AddPush
    BY <1>11 DEF AddLock, Poll, StopRefused, StopSet, StopJoin, StopDestroy,
                 AddPush, pool
  <2>2. QED
    BY <1>4, <1>6, <2>1
<1>12. ASSUME NEW w \in Workers, Acquire(w) \/ TestWait(w) \/ Park(w) \/ Leave(w)
       PROVE  (OncesInv /\ AccountedInv)'
  <2>1. Quiet
    BY <1>12 DEF Acquire, TestWait, Park, Leave, pool, TypeOK
  <2>2. ~ AddPush
    BY <1>12 DEF Acquire, TestWait, Park, Leave, AddPush
  <2>3. QED
    BY <1>4, <2>1, <2>2
<1>13. CASE UNCHANGED vars
  <2>1. UNCHANGED <<queue, task, done, pc>> /\ ~ AddPush
    BY <1>13 DEF vars, AddPush
  <2>2. QED
    BY <1>4, <1>6, <2>1
<1>14. QED
  BY <1>1, <1>2, <1>3, <1>7, <1>8, <1>9, <1>10, <1>11, <1>12, <1>13
     DEF Next, MainStep, WorkerStep

\* A worker that found the list empty holds the mutex until it sleeps: no entry is
\* added in between.
LEMMA ParkStep ==
    ASSUME TypeOK, LockInv, WaitInv, ParkInv, [Next]_vars
    PROVE  ParkInv'
<1> USE PoolAssumption DEF Workers, Tasks, Main, Nobody
<1>1. CASE MainStep /\ ~ AddSignal /\ ~ StopBroadcast
  BY <1>1 DEF MainStep, Create, AddLock, AddPush, Poll, StopRefused, StopSet, StopJoin,
              StopDestroy, pool, LockInv, Holding, ParkInv, TypeOK
<1>2. ASSUME NEW W \in SUBSET waiting, WakeUp(W), queue' = queue PROVE ParkInv'
  <2>1. \A w \in Workers : pc'[w] = IF w \in W THEN "relock" ELSE pc[w]
    BY <1>2, WakeUpEffect DEF TypeOK
  <2> QED BY <1>2, <2>1 DEF ParkInv
<1>3. CASE AddSignal \/ StopBroadcast \/ \E w \in Workers : SpuriousWakeup(w)
  <2>1. queue' = queue /\ \E W \in SUBSET waiting : WakeUp(W)
    BY <1>3 DEF AddSignal, StopBroadcast, SpuriousWakeup, pool
  <2> QED BY <1>2, <2>1
<1>4. ASSUME NEW w \in Workers, WorkerStep(w) PROVE ParkInv'
  <2>1. CASE Acquire(w) \/ TestWait(w) \/ Park(w) \/ Leave(w) \/ Run(w)
    BY <2>1 DEF Acquire, TestWait, Park, Leave, Run, pool, ParkInv, TypeOK
  <2>2. CASE Take(w)
    BY <2>2 DEF Take, LockInv, Holding, ParkInv, TypeOK
  <2> QED BY <1>4, <2>1, <2>2 DEF WorkerStep
<1>5. CASE UNCHANGED vars
  BY <1>5 DEF vars, ParkInv
<1> QED BY <1>1, <1>3, <1>4, <1>5 DEF Next

\* There are finitely many workers on their way, and no fewer of them in a larger
\* set.
LEMMA ComingCounts ==
    /\ IsFiniteSet(Coming) /\ Cardinality(Coming) \in Nat
    /\ \A S, T : IsFiniteSet(T) /\ S \subseteq T => /\ IsFiniteSet(S)
                                                   /\ Cardinality(S) <= Cardinality(T)
<1>1. IsFiniteSet(Workers)
  BY PoolAssumption, FS_Interval DEF Workers
<1>2. Coming \subseteq Workers
  BY DEF Coming
<1>3. IsFiniteSet(Coming)
  BY <1>1, <1>2, FS_Subset
<1> QED BY <1>3, FS_Subset, FS_CardinalityType

\* With the workers that were on their way still there, and no entry more than
\* signals, there are enough of them.
LEMMA MetAsBefore ==
    ASSUME TypeOK, MetInv, waiting' # {} => waiting # {}, IsFiniteSet(Coming'),
           Coming \subseteq Coming', Len(queue') + Signals <= Len(queue) + Signals',
           Len(queue') \in Nat
    PROVE  MetInv'
<1>1. Cardinality(Coming) <= Cardinality(Coming') /\ Cardinality(Coming) \in Nat
  BY ComingCounts
<1>2. Cardinality(Coming') \in Nat
  BY FS_CardinalityType
<1>3. Len(queue) \in Nat /\ Signals \in Nat /\ Signals' \in Nat
  BY DEF TypeOK, Signals
<1> QED BY <1>1, <1>2, <1>3 DEF MetInv

\* A signal moves a sleeping worker to those on their way, an entry taken takes
\* one of them, and a worker goes to sleep over an empty list only.
LEMMA MetStep ==
    ASSUME TypeOK, TypeOK', LockInv, WaitInv, WaitInv', CheckInv, StopInv, ParkInv, MetInv,
           [Next]_vars
    PROVE  MetInv'
<1>1. IsFiniteSet(Coming') /\ Cardinality(Coming') \in Nat
  <2>1. IsFiniteSet(Workers)
    BY PoolAssumption, FS_Interval DEF Workers
  <2>2. Coming' \subseteq Workers
    BY DEF Coming
  <2> QED BY <2>1, <2>2, FS_Subset, FS_CardinalityType
<1>2. Len(queue) \in Nat /\ Len(queue') \in Nat /\ Signals \in 0 .. 1 /\ Signals' \in 0 .. 1
  BY DEF TypeOK, Signals
<1>3. ASSUME queue' = << >> PROVE MetInv'
  <2>1. Len(queue') = 0
    BY <1>3
  <2> QED BY <1>1, <1>2, <2>1 DEF MetInv
<1>4. CASE MainStep /\ ~ AddPush /\ ~ AddSignal /\ ~ StopBroadcast
  <2>1. queue' = queue /\ waiting' = waiting /\ Signals' = Signals
    BY <1>4 DEF MainStep, Create, NextOr, AddLock, Poll, StopRefused, StopSet, StopJoin,
                StopDestroy, pool, Signals
  <2>2. Coming \subseteq Coming'
    BY <1>4 DEF MainStep, Create, AddLock, Poll, StopRefused, StopSet, StopJoin,
                StopDestroy, Coming, TypeOK
  <2> QED BY <1>1, <1>2, <2>1, <2>2, MetAsBefore
<1>5. CASE AddPush
  <2>1. waiting' = waiting /\ Coming' = Coming /\ Signals = 0 /\ Signals' = 1
    BY <1>5 DEF AddPush, Coming, Signals
  <2>2. Len(queue') = Len(queue) + 1
    BY <1>5 DEF AddPush, TypeOK
  <2> QED BY <1>1, <1>2, <2>1, <2>2, MetAsBefore
<1>6. ASSUME NEW W \in SUBSET waiting, WakeUp(W)
      PROVE  /\ waiting' = waiting \ W /\ W \subseteq Workers
             /\ \A w \in Workers : pc'[w] = IF w \in W THEN "relock" ELSE pc[w]
  BY <1>6, WakeUpEffect DEF TypeOK
<1>7. ASSUME NEW W \in SUBSET waiting, WakeUp(W) PROVE Coming' = Coming \union W
  BY <1>6, <1>7 DEF Coming
<1>8. CASE AddSignal
  <2>1. CASE waiting = {}
    <3>1. waiting' = {}
      BY <1>8, <2>1 DEF AddSignal, WakeUp
    <3> QED BY <3>1 DEF MetInv
  <2>2. CASE waiting # {}
    <3>1. PICK w \in waiting : WakeUp({w})
      BY <1>8, <2>2 DEF AddSignal
    <3>2. Coming' = Coming \union {w} /\ w \notin Coming
      BY <1>7, <3>1 DEF WaitInv, Coming
    <3>3. Cardinality(Coming') = Cardinality(Coming) + 1
      BY <3>2, ComingCounts, FS_AddElement
    <3>4. queue' = queue /\ Signals = 1
      BY <1>8 DEF AddSignal, pool, Signals
    <3> QED BY <1>2, <2>2, <3>3, <3>4, ComingCounts DEF MetInv
  <2> QED BY <2>1, <2>2
<1>9. CASE StopBroadcast
  <2>1. waiting' = {}
    BY <1>9 DEF StopBroadcast, WakeUp
  <2> QED BY <2>1 DEF MetInv
<1>10. ASSUME NEW w \in Workers, SpuriousWakeup(w) PROVE MetInv'
  <2>1. {w} \in SUBSET waiting /\ WakeUp({w}) /\ queue' = queue /\ Signals' = Signals
    BY <1>10 DEF SpuriousWakeup, pool, Signals
  <2>2. Coming \subseteq Coming' /\ (waiting' # {} => waiting # {})
    BY <1>6, <1>7, <2>1
  <2> QED BY <1>1, <1>2, <2>1, <2>2, MetAsBefore
<1>11. ASSUME NEW w \in Workers, Acquire(w) \/ Run(w) PROVE MetInv'
  <2>1. queue' = queue /\ waiting' = waiting /\ Signals' = Signals
    BY <1>11 DEF Acquire, Run, pool, Signals
  <2>2. Coming \subseteq Coming'
    BY <1>11 DEF Acquire, Run, Coming, TypeOK
  <2> QED BY <1>1, <1>2, <2>1, <2>2, MetAsBefore
<1>12. ASSUME NEW w \in Workers, TestWait(w) PROVE MetInv'
  <2>1. queue' = queue /\ waiting' = waiting /\ Signals' = Signals
    BY <1>12 DEF TestWait, pool, Signals
  <2>2. queue = << >> \/ Coming \subseteq Coming'
    BY <1>12 DEF TestWait, Coming, TypeOK
  <2> QED BY <1>1, <1>2, <1>3, <2>1, <2>2, MetAsBefore
<1>13. ASSUME NEW w \in Workers, Park(w) PROVE MetInv'
  <2>1. queue' = << >>
    BY <1>13 DEF Park, pool, ParkInv
  <2> QED BY <1>3, <2>1
<1>14. ASSUME NEW w \in Workers, Leave(w) PROVE MetInv'
  <2>1. queue' = << >>
    BY <1>14 DEF Leave, pool, StopInv
  <2> QED BY <1>3, <2>1
<1>15. ASSUME NEW w \in Workers, Take(w) PROVE MetInv'
  <2>1. queue # << >>
    BY <1>15 DEF Take, CheckInv
  <2>2. Len(queue') = Len(queue) - 1
    BY <1>15, <2>1 DEF Take, TypeOK
  <2>3. waiting' = waiting /\ Signals' = Signals
    BY <1>15 DEF Take, Signals
  <2>4. Coming' = Coming \ {w} /\ w \in Coming
    BY <1>15 DEF Take, Coming, TypeOK
  <2>5. Cardinality(Coming') = Cardinality(Coming) - 1
    BY <2>4, ComingCounts, FS_RemoveElement
  <2> QED BY <1>2, <2>2, <2>3, <2>5, ComingCounts DEF MetInv
<1>16. CASE UNCHANGED vars
  BY <1>16 DEF vars, MetInv, Coming, Signals
<1> QED BY <1>4, <1>5, <1>8, <1>9, <1>10, <1>11, <1>12, <1>13, <1>14, <1>15, <1>16
        DEF Next, MainStep, WorkerStep

\* Every thread main() created has begun.
LEMMA CreatedStep ==
    ASSUME TypeOK, IndexInv, CreatedInv, [Next]_vars
    PROVE  CreatedInv'
<1> USE PoolAssumption DEF Workers
<1>1. CASE Create
  BY <1>1 DEF Create, NextOr, CreatedInv, TypeOK, IndexInv
<1>2. CASE MainStep /\ ~ Create /\ ~ AddSignal /\ ~ StopBroadcast
  BY <1>2 DEF MainStep, AddLock, AddPush, Poll, StopRefused, StopSet, StopJoin, StopDestroy,
              CreatedInv
<1>3. CASE AddSignal \/ StopBroadcast \/ \E w \in Workers : SpuriousWakeup(w)
  <2>1. PICK W : WakeUp(W)
    BY <1>3 DEF AddSignal, StopBroadcast, SpuriousWakeup
  <2>2. \A w \in Workers : pc'[w] = "unborn" => pc[w] = "unborn"
    BY <2>1 DEF WakeUp
  <2>3. mpc = "create" => mpc' = mpc /\ k' = k
    BY <1>3 DEF AddSignal, StopBroadcast, SpuriousWakeup
  <2> QED BY <2>2, <2>3 DEF CreatedInv
<1>4. ASSUME NEW w \in Workers, WorkerStep(w) PROVE CreatedInv'
  BY <1>4 DEF WorkerStep, Acquire, TestWait, Park, Leave, Take, Run, CreatedInv, TypeOK
<1>5. CASE UNCHANGED vars
  BY <1>5 DEF vars, CreatedInv
<1> QED BY <1>1, <1>2, <1>3, <1>4, <1>5 DEF Next, MainStep

\* The inductive invariant holds in every state of the pool.
THEOREM PoolInvariant == Spec => []IInv
<1> DEFINE Rest == /\ LockInv /\ WaitInv /\ BornInv /\ CheckInv
                   /\ OncesInv /\ AccountedInv /\ StopInv /\ ParkInv /\ MetInv /\ CreatedInv
<1>1. Init => Rest
  <2> SUFFICES ASSUME Init PROVE Rest
    OBVIOUS
  <2> USE PoolAssumption DEF Init, Workers, Tasks, Main, Nobody
  <2>1. LockInv
    BY DEF LockInv, Holding
  <2>2. WaitInv /\ BornInv /\ CheckInv
    BY DEF WaitInv, BornInv, CheckInv
  <2>3. Submitted = 0
    BY DEF Submitted
  <2>4. Len(queue) = 0
    OBVIOUS
  <2>5. OncesInv
    BY <2>4 DEF OncesInv
  <2>6. AccountedInv
    BY <2>3 DEF AccountedInv
  <2>7. StopInv
    BY DEF StopInv
  <2>8. ParkInv /\ MetInv /\ CreatedInv
    BY DEF ParkInv, MetInv, CreatedInv
  <2>9. QED
    BY <2>1, <2>2, <2>5, <2>6, <2>7, <2>8
<1>2. TypeOK /\ IndexInv /\ TypeOK' /\ Rest /\ [Next]_vars => Rest'
  <2> SUFFICES ASSUME TypeOK, IndexInv, TypeOK', Rest, [Next]_vars PROVE Rest'
    OBVIOUS
  <2>1. (LockInv /\ WaitInv /\ BornInv)'
    BY LockStep
  <2>2. (CheckInv /\ StopInv)'
    BY StopStep
  <2>3. (OncesInv /\ AccountedInv)'
    BY EntryStep
  <2>4. ParkInv'
    BY ParkStep
  <2>5. MetInv'
    BY <2>1, MetStep
  <2>6. CreatedInv'
    BY CreatedStep
  <2> QED BY <2>1, <2>2, <2>3, <2>4, <2>5, <2>6
<1>3. QED
  BY <1>1, <1>2, TypeCorrect, PTL DEF Spec, IInv

\* ThreadFunc never runs an uninitialised or a shared entry, whatever wakeups
\* and thefts happen between pthread_cond_wait and the erase.
THEOREM EntriesAreOwned == Spec => []RunsItsOwnEntry
<1>1. IInv => RunsItsOwnEntry
  BY DEF IInv, OncesInv, TypeOK, RunsItsOwnEntry
<1>2. QED
  BY <1>1, PoolInvariant, PTL

\* A state of the inductive invariant in which the pool is destroyed is an idle
\* one: the entries are accounted for and none is left queued or running.
LEMMA IdleWhenJoined ==
    ASSUME IInv, mpc = "destroy" \/ destroyed
    PROVE  /\ done = Tasks /\ queue = << >> /\ lock = Nobody
           /\ \A w \in Workers : pc[w] = "exited" /\ task[w] = 0
<1>1. \A w \in Workers : pc[w] = "exited"
  BY DEF IInv, StopInv
<1>2. queue = << >> /\ mpc \in {"poll", "stop", "broadcast", "join", "destroy", "exited"}
  BY DEF IInv, StopInv
<1>3. lock = Nobody
  BY <1>1, <1>2 DEF IInv, LockInv, Holding, TypeOK
<1>4. done \subseteq Tasks
  BY DEF IInv, OncesInv
<1>5. \A w \in Workers : task[w] = 0
  BY <1>1 DEF IInv, OncesInv
<1>6. ~ \E t \in Tasks : Queued(t)
  BY <1>2 DEF Queued
<1>7. \A t \in Tasks : t <= Submitted
  BY <1>2 DEF Submitted, Tasks
<1>8. Tasks \subseteq done
  BY <1>5, <1>6, <1>7 DEF IInv, AccountedInv, Tasks
<1>9. QED
  BY <1>1, <1>2, <1>3, <1>4, <1>5, <1>8

\* The mutex and the condition are destroyed in an idle pool only
\* (thread_pool.cpp:99-104).
THEOREM DestroyedOnlyWhenIdle == Spec => []DestroyedWhenIdle
<1>1. IInv => DestroyedWhenIdle
  BY IdleWhenJoined DEF DestroyedWhenIdle
<1>2. QED
  BY <1>1, PoolInvariant, PTL

\* A worker that leaves on the shutdown flag leaves no entry behind, and none
\* sleeps while there are more entries than workers on their way to them.
THEOREM NoEntryAbandoned == Spec => []NothingAbandoned
<1>1. IInv => NothingAbandoned
  BY DEF IInv, StopInv, MetInv, Signals, NothingAbandoned
<1>2. QED
  BY <1>1, PoolInvariant, PTL

\* Each step of the pool is a step of the abstract pool, or none.
LEMMA RefinementStep ==
    ASSUME IInv, [Next]_vars
    PROVE  [AbstractPool!Next]_AbstractPool!vars
<1> DEFINE Stutter == UNCHANGED <<queue, task, done, destroyed>>
<1>1. Stutter => UNCHANGED AbstractPool!vars
  BY DEF AbstractPool!vars
<1>2. CASE AddPush
  <2>1. k \in Tasks /\ ~ (k <= Submitted)
    BY <1>2, SubmittedStep DEF IInv, TypeOK, IndexInv, AddPush, Submitted, Tasks
  <2>2. AbstractPool!Fresh(k)
    <3>1. \A i \in 1 .. Len(queue) : queue[i] # k
      BY <2>1 DEF IInv, OncesInv
    <3>2. k \notin done
      BY <2>1 DEF IInv, OncesInv
    <3>3. \A w \in Workers : task[w] # k
      <4>1. k # 0
        BY <2>1 DEF Tasks
      <4>2. QED
        BY <2>1, <4>1 DEF IInv, OncesInv
    <3>4. QED
      BY <3>1, <3>2, <3>3 DEF AbstractPool!Fresh
  <2>3. ~ destroyed
    BY <1>2 DEF IInv, StopInv, AddPush
  <2>4. AbstractPool!Submit
    BY <1>2, <2>1, <2>2, <2>3 DEF AddPush, AbstractPool!Submit, AbstractPool!Tasks, Tasks
  <2>5. QED
    BY <2>4 DEF AbstractPool!Next
<1>3. ASSUME NEW w \in Workers, Take(w) PROVE AbstractPool!Start(w)
  <2>1. queue # << >> /\ task[w] = 0
    BY <1>3 DEF IInv, CheckInv, OncesInv, Take
  <2>2. ~ destroyed
    BY <1>3 DEF IInv, StopInv, Take
  <2>3. QED
    BY <1>3, <2>1, <2>2 DEF Take, AbstractPool!Start
<1>4. ASSUME NEW w \in Workers, Run(w) PROVE AbstractPool!Finish(w)
  <2>1. task[w] # 0
    BY <1>4 DEF IInv, OncesInv, Run
  <2>2. QED
    BY <1>4, <2>1 DEF Run, AbstractPool!Finish
<1>5. CASE StopDestroy
  <2>1. queue = << >> /\ done = Tasks /\ \A w \in Workers : task[w] = 0
    BY <1>5, IdleWhenJoined DEF StopDestroy
  <2>2. AbstractPool!Close
    BY <1>5, <2>1 DEF StopDestroy, AbstractPool!Close, AbstractPool!Tasks, Tasks
  <2>3. QED
    BY <2>2 DEF AbstractPool!Next
<1>6. CASE \/ Create \/ AddLock \/ AddSignal \/ Poll \/ StopRefused \/ StopSet
           \/ StopBroadcast \/ StopJoin
  <2>1. Stutter
    BY <1>6 DEF Create, AddLock, AddSignal, Poll, StopRefused, StopSet,
                StopBroadcast, StopJoin, pool
  <2>2. QED
    BY <1>1, <2>1
<1>7. ASSUME NEW w \in Workers,
             Acquire(w) \/ TestWait(w) \/ Park(w) \/ Leave(w) \/ SpuriousWakeup(w)
      PROVE  Stutter
  BY <1>7 DEF Acquire, TestWait, Park, Leave, SpuriousWakeup, pool
<1>8. CASE UNCHANGED vars
  BY <1>1, <1>8 DEF vars
<1>9. QED
  BY <1>1, <1>2, <1>3, <1>4, <1>5, <1>6, <1>7, <1>8
     DEF Next, MainStep, WorkerStep, AbstractPool!Next

\* The pool of the source implements the abstract pool: first in, first out,
\* each entry run once by one worker, all of them before the pool is torn down.
THEOREM ImplementsAbstractPool == Spec => ImplementsTaskPool
<1>1. Init => AbstractPool!Init
  BY DEF Init, AbstractPool!Init
<1>2. IInv /\ [Next]_vars => [AbstractPool!Next]_AbstractPool!vars
  BY RefinementStep
<1>3. QED
  BY <1>1, <1>2, PoolInvariant, PTL DEF Spec, ImplementsTaskPool, AbstractPool!Spec

-----------------------------------------------------------------------------
(* Where the program can hang.  A thread moves when the guard of its next  *)
(* step holds.                                                             *)

WorkerMoves(w) == \/ pc[w] \in {"begin", "relock"} /\ lock = Nobody
                  \/ pc[w] \in {"test", "park", "check", "run"}

MainMoves == \/ mpc \in {"create", "push", "signal", "stop", "broadcast", "destroy"}
             \/ mpc = "add" /\ lock = Nobody
             \/ mpc = "poll" /\ queue = << >>
             \/ mpc = "join" /\ pc[k] = "exited"

\* If no thread moves, main() is through, or StopAll joins a worker that tested
\* the flag before it was set and went to sleep after the broadcast
\* (thread_pool.cpp:92-97): nothing else hangs the pool.
HangsOnlyInJoin ==
    ~ MainMoves /\ (\A w \in Workers : ~ WorkerMoves(w)) =>
        \/ mpc = "exited"
        \/ mpc = "join" /\ shutdown /\ queue = << >> /\ pc[k] = "waiting"

\* The pool hangs nowhere but in the join of a worker that the broadcast missed.
THEOREM OnlyTheJoinHangs == Spec => []HangsOnlyInJoin
<1>1. IInv => HangsOnlyInJoin
  <2> SUFFICES ASSUME IInv, ~ MainMoves, \A w \in Workers : ~ WorkerMoves(w), mpc # "exited"
               PROVE  mpc = "join" /\ shutdown /\ queue = << >> /\ pc[k] = "waiting"
    BY DEF HangsOnlyInJoin
  <2>1. mpc \in {"add", "poll", "join"} /\ (mpc = "join" => k \in Workers /\ pc[k] # "exited")
    BY DEF MainMoves, IInv, TypeOK, IndexInv, MainPC, Workers
  <2>2. lock = Nobody
    BY <2>1 DEF WorkerMoves, IInv, TypeOK, LockInv, Holding
  <2>3. \A w \in Workers : pc[w] \in {"waiting", "exited"}
    BY <2>1, <2>2 DEF WorkerMoves, IInv, TypeOK, CreatedInv, WorkerPC
  <2>4. Coming = {} /\ Signals = 0
    BY <2>1, <2>3 DEF Coming, Signals
  <2>5. CASE mpc = "join"
    BY <2>1, <2>3, <2>5 DEF IInv, StopInv
  <2>6. CASE mpc = "add"
    BY <2>2, <2>6 DEF MainMoves
  <2>7. CASE mpc = "poll"
    <3>1. queue # << >>
      BY <2>7 DEF MainMoves
    <3>2. \A w \in Workers : pc[w] = "waiting"
      BY <2>3, <3>1 DEF IInv, StopInv
    <3>3. waiting # {}
      BY <3>2, PoolAssumption DEF IInv, WaitInv, Workers
    <3>4. Len(queue) <= 0
      BY <2>4, <3>3, FS_EmptySet DEF IInv, MetInv
    <3> QED BY <3>1, <3>4 DEF IInv, TypeOK
  <2> QED BY <2>1, <2>5, <2>6, <2>7
<1>2. QED
  BY <1>1, PoolInvariant, PTL
===============================================================================
