--------------------------- MODULE PosixThreadPool ---------------------------
(***************************************************************************)
(* The POSIX thread pool of ch03/thread_pool/3.8.3POSIX/3.40, driven by    *)
(* its main(): create the workers, submit the tasks, poll the size of the  *)
(* task list, stop the pool when the list is empty, leave when stopping it *)
(* a second time is refused.                                               *)
(*                                                                         *)
(* One step is what a thread does between two points where another thread  *)
(* can see or change what it depends on: the mutex, the condition variable *)
(* and the two fields the code touches without the mutex (shutdown, and    *)
(* the list's size in getTaskSize).                                        *)
(***************************************************************************)
EXTENDS Integers, Sequences, FiniteSets

CONSTANTS NumThreads,   \* m_iThreadNum, 5 in main()
          NTasks        \* tasks main() adds, 10 in main()

ASSUME PoolAssumption == NumThreads \in Nat \ {0} /\ NTasks \in Nat \ {0}

Workers == 1 .. NumThreads
Tasks   == 1 .. NTasks          \* the k-th AddTask adds entry k
Main    == 0
Nobody  == -1

VARIABLES queue,        \* m_vecTaskList
          shutdown,     \* the exit flag, read and written without the mutex
          lock,         \* the owner of m_pthreadMutex
          waiting,      \* the threads blocked in pthread_cond_wait
          pc,           \* where each worker is
          task,         \* the worker's local "task", 0 when never assigned
          mpc,          \* where main() is
          k,            \* main()'s loop index: thread, task or join number
          destroyed,    \* StopAll destroyed the mutex and the condition
          done          \* history: the entries whose Run() has returned

vars == <<queue, shutdown, lock, waiting, pc, task, mpc, k, destroyed, done>>
pool == <<queue, shutdown, destroyed, done>>

WorkerPC == {"unborn", "begin", "test", "park", "waiting", "relock", "check",
             "run", "exited"}
MainPC == {"create", "add", "push", "signal", "poll", "stop", "broadcast",
           "join", "destroy", "exited"}

Init == /\ queue = << >>
        /\ shutdown = FALSE
        /\ lock = Nobody
        /\ waiting = {}
        /\ pc = [w \in Workers |-> "unborn"]
        /\ task = [w \in Workers |-> 0]
        /\ mpc = "create"
        /\ k = 1
        /\ destroyed = FALSE
        /\ done = {}

-----------------------------------------------------------------------------
(* The main thread. *)

\* Mutant: the loop bound is off by one.
NextOr_Mutant(last, here, next) ==
    IF k <= last THEN mpc' = here /\ k' = k + 1 ELSE mpc' = next /\ k' = 1

\* Go round main()'s loop again with the next index, or on to the next phase.
NextOr(last, here, next) ==
    IF k < last THEN mpc' = here /\ k' = k + 1 ELSE mpc' = next /\ k' = 1

Create == /\ mpc = "create"
          /\ pc' = [pc EXCEPT ![k] = "begin"]
          /\ NextOr(NumThreads, "create", "add")
          /\ UNCHANGED <<pool, lock, waiting, task>>

\* AddTask: the push is under the mutex, the signal after it.
AddLock == /\ mpc = "add"
           /\ lock = Nobody
           /\ lock' = Main
           /\ mpc' = "push"
           /\ UNCHANGED <<pool, waiting, pc, task, k>>

AddPush == /\ mpc = "push"
           /\ queue' = Append(queue, k)
           /\ lock' = Nobody
           /\ mpc' = "signal"
           /\ UNCHANGED <<shutdown, destroyed, done, waiting, pc, task, k>>

\* A thread that leaves pthread_cond_wait has to take the mutex again.
WakeUp(W) == /\ waiting' = waiting \ W
             /\ pc' = [w \in Workers |-> IF w \in W THEN "relock" ELSE pc[w]]

\* Mutant: AddTask does not signal.
AddSignal_Mutant == /\ mpc = "signal"
                    /\ WakeUp({})
                    /\ NextOr(NTasks, "add", "poll")
                    /\ UNCHANGED <<pool, lock, task>>

AddSignal == /\ mpc = "signal"
             /\ \/ waiting = {} /\ WakeUp({})
                \/ \E w \in waiting : WakeUp({w})
             /\ NextOr(NTasks, "add", "poll")
             /\ UNCHANGED <<pool, lock, task>>

\* Mutant: main() stops the pool without looking at the list.
Poll_Mutant == /\ mpc = "poll"
               /\ mpc' = "stop"
               /\ UNCHANGED <<pool, lock, waiting, pc, task, k>>

\* getTaskSize() == 0; a list that is not empty sends main() back to sleep.
Poll == /\ mpc = "poll"
        /\ queue = << >>
        /\ mpc' = "stop"
        /\ UNCHANGED <<pool, lock, waiting, pc, task, k>>

StopRefused == /\ mpc = "stop"
               /\ shutdown
               /\ mpc' = "exited"
               /\ UNCHANGED <<pool, lock, waiting, pc, task, k>>

\* StopAll sets the flag without taking the mutex.
StopSet == /\ mpc = "stop"
           /\ ~ shutdown
           /\ shutdown' = TRUE
           /\ mpc' = "broadcast"
           /\ UNCHANGED <<queue, destroyed, done, lock, waiting, pc, task, k>>

StopBroadcast == /\ mpc = "broadcast"
                 /\ WakeUp(waiting)
                 /\ mpc' = "join"
                 /\ k' = 1
                 /\ UNCHANGED <<pool, lock, task>>

\* Mutant: StopAll does not join the threads.
StopJoin_Mutant == /\ mpc = "join"
                   /\ NextOr(NumThreads, "join", "destroy")
                   /\ UNCHANGED <<pool, lock, waiting, pc, task>>

StopJoin == /\ mpc = "join"
            /\ pc[k] = "exited"
            /\ NextOr(NumThreads, "join", "destroy")
            /\ UNCHANGED <<pool, lock, waiting, pc, task>>

StopDestroy == /\ mpc = "destroy"
               /\ destroyed' = TRUE
               /\ mpc' = "poll"
               /\ UNCHANGED <<queue, shutdown, done, lock, waiting, pc, task, k>>

MainStep == \/ Create \/ AddLock \/ AddPush \/ AddSignal \/ Poll
            \/ StopRefused \/ StopSet \/ StopBroadcast \/ StopJoin \/ StopDestroy

-----------------------------------------------------------------------------
(* ThreadFunc. *)

\* Mutant: "if" instead of "while" around pthread_cond_wait.
Acquire_Mutant(w) ==
    /\ pc[w] \in {"begin", "relock"}
    /\ lock = Nobody
    /\ lock' = w
    /\ pc' = [pc EXCEPT ![w] = IF pc[w] = "relock" THEN "check" ELSE "test"]
    /\ UNCHANGED <<pool, waiting, task, mpc, k>>

Acquire(w) == /\ pc[w] \in {"begin", "relock"}
              /\ lock = Nobody
              /\ lock' = w
              /\ pc' = [pc EXCEPT ![w] = "test"]
              /\ UNCHANGED <<pool, waiting, task, mpc, k>>

\* The condition of the while loop; the flag may change right after it.
TestWait(w) == /\ pc[w] = "test"
               /\ pc' = [pc EXCEPT ![w] =
                          IF queue = << >> /\ ~ shutdown THEN "park" ELSE "check"]
               /\ UNCHANGED <<pool, lock, waiting, task, mpc, k>>

\* pthread_cond_wait blocks and releases the mutex in one step.
Park(w) == /\ pc[w] = "park"
           /\ waiting' = waiting \union {w}
           /\ pc' = [pc EXCEPT ![w] = "waiting"]
           /\ lock' = Nobody
           /\ UNCHANGED <<pool, task, mpc, k>>

SpuriousWakeup(w) == /\ w \in waiting
                     /\ WakeUp({w})
                     /\ UNCHANGED <<pool, lock, task, mpc, k>>

Leave(w) == /\ pc[w] = "check"
            /\ shutdown
            /\ lock' = Nobody
            /\ pc' = [pc EXCEPT ![w] = "exited"]
            /\ UNCHANGED <<pool, waiting, task, mpc, k>>

\* Mutant: the newest entry is taken instead of the oldest.
Take_Mutant(w) ==
    /\ pc[w] = "check"
    /\ ~ shutdown
    /\ queue # << >>
    /\ task' = [task EXCEPT ![w] = queue[Len(queue)]]
    /\ queue' = SubSeq(queue, 1, Len(queue) - 1)
    /\ lock' = Nobody
    /\ pc' = [pc EXCEPT ![w] = "run"]
    /\ UNCHANGED <<shutdown, destroyed, done, waiting, mpc, k>>

\* With an empty list the code would go on to run an uninitialised pointer.
Take(w) == /\ pc[w] = "check"
           /\ ~ shutdown
           /\ IF queue # << >>
              THEN task' = [task EXCEPT ![w] = Head(queue)] /\ queue' = Tail(queue)
              ELSE UNCHANGED <<task, queue>>
           /\ lock' = Nobody
           /\ pc' = [pc EXCEPT ![w] = "run"]
           /\ UNCHANGED <<shutdown, destroyed, done, waiting, mpc, k>>

Run(w) == /\ pc[w] = "run"
          /\ done' = done \union {task[w]}
          /\ task' = [task EXCEPT ![w] = 0]
          /\ pc' = [pc EXCEPT ![w] = "begin"]
          /\ UNCHANGED <<queue, shutdown, destroyed, lock, waiting, mpc, k>>

WorkerStep(w) == \/ Acquire(w) \/ TestWait(w) \/ Park(w) \/ Leave(w)
                 \/ Take(w) \/ Run(w)

Next == MainStep \/ \E w \in Workers : WorkerStep(w) \/ SpuriousWakeup(w)

Spec == Init /\ [][Next]_vars

\* Every thread is scheduled, and the spurious wakeups POSIX allows do not go
\* on for ever.
FairSpec == /\ Spec
            /\ WF_vars(MainStep)
            /\ \A w \in Workers : WF_vars(WorkerStep(w))
            /\ <>[][~ \E w \in Workers : SpuriousWakeup(w)]_vars

-----------------------------------------------------------------------------
(* Correctness. *)

TypeOK == /\ queue \in Seq(Tasks)
          /\ shutdown \in BOOLEAN
          /\ lock \in Workers \union {Main, Nobody}
          /\ waiting \subseteq Workers
          /\ pc \in [Workers -> WorkerPC]
          /\ task \in [Workers -> Tasks \union {0}]
          /\ mpc \in MainPC
          /\ k \in Nat \ {0}
          /\ destroyed \in BOOLEAN
          /\ done \subseteq Tasks \union {0}

\* The task pointer a worker runs was taken from the list in this very round of
\* the loop (thread_pool.cpp:55-64), and no two workers run the same entry: a
\* wakeup that finds the list emptied by another worker never gets to Run().
RunsItsOwnEntry ==
    /\ \A w \in Workers : pc[w] = "run" => task[w] \in Tasks
    /\ \A v, w \in Workers :
          v # w /\ pc[v] = "run" /\ pc[w] = "run" => task[v] # task[w]

\* When StopAll destroys the mutex and the condition variable
\* (thread_pool.cpp:103-104), every task has run to its end and no thread is
\* left that could still lock or wait on them.
DestroyedWhenIdle ==
    destroyed => /\ done = Tasks
                 /\ queue = << >>
                 /\ lock = Nobody
                 /\ \A w \in Workers : pc[w] = "exited"

\* The workers on their way to the list.
Coming == {w \in Workers : pc[w] \in {"begin", "test", "relock", "check"}}

\* The shutdown test comes before the list test (thread_pool.cpp:45), so a
\* worker that exits would drop whatever is still queued: with main()'s use of
\* the pool, no worker leaves while an entry waits.  Nor does one sleep while an
\* entry waits for it: AddTask signals once for each entry and after releasing
\* the mutex, and still there are as many workers on their way as entries,
\* unless all the workers are awake.
NothingAbandoned ==
    /\ (\E w \in Workers : pc[w] = "exited") => queue = << >>
    /\ waiting # {} =>
          Len(queue) <= Cardinality(Coming) + IF mpc = "signal" THEN 1 ELSE 0

\* The pool implements the abstract pool: entries start in the order they were
\* added, each by one worker, and the pool closes after the last one finished.
AbstractPool == INSTANCE TaskPool WITH
    pending <- queue,
    running <- task,
    closed  <- destroyed
ImplementsTaskPool == AbstractPool!Spec

\* No wakeup of AddTask is lost although it signals after releasing the mutex:
\* every task main() adds is eventually run.
EveryTaskRuns == \A t \in Tasks : <>(t \in done)

\* "Set the shutdown flag, wake every thread, remove every thread": StopAll
\* gets rid of all the threads and main() ends.
MainEnds == <>(mpc = "exited")
=============================================================================
