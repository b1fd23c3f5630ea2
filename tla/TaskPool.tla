------------------------------- MODULE TaskPool -------------------------------
(***************************************************************************)
(* What a thread pool promises its user, whatever locks and signals it is  *)
(* built from: the k-th submitted task is started k-th, by one worker,     *)
(* exactly once, and a pool that has been closed has finished every task   *)
(* that was submitted to it.                                               *)
(***************************************************************************)
EXTENDS Naturals, Sequences

CONSTANTS Workers,      \* the worker threads
          NTasks        \* how many tasks the client submits

VARIABLES pending,      \* tasks submitted and not yet started, oldest first
          running,      \* what each worker is running, 0 when nothing
          done,         \* the tasks whose Run() has returned
          closed        \* the pool has been torn down

vars == <<pending, running, done, closed>>

Tasks == 1 .. NTasks

Init == /\ pending = << >>
        /\ running = [w \in Workers |-> 0]
        /\ done = {}
        /\ closed = FALSE

\* The tasks are numbered in the order of their submission, so a task is new
\* when nobody has seen its number.
Fresh(t) == /\ \A i \in 1 .. Len(pending) : pending[i] # t
            /\ \A w \in Workers : running[w] # t
            /\ t \notin done

Submit == /\ ~ closed
          /\ \E t \in Tasks : Fresh(t) /\ pending' = Append(pending, t)
          /\ UNCHANGED <<running, done, closed>>

Start(w) == /\ ~ closed
            /\ pending # << >>
            /\ running[w] = 0
            /\ running' = [running EXCEPT ![w] = Head(pending)]
            /\ pending' = Tail(pending)
            /\ UNCHANGED <<done, closed>>

Finish(w) == /\ running[w] # 0
             /\ done' = done \union {running[w]}
             /\ running' = [running EXCEPT ![w] = 0]
             /\ UNCHANGED <<pending, closed>>

Close == /\ pending = << >>
         /\ \A w \in Workers : running[w] = 0
         /\ done = Tasks
         /\ closed' = TRUE
         /\ UNCHANGED <<pending, running, done>>

Next == \/ Submit
        \/ Close
        \/ \E w \in Workers : Start(w) \/ Finish(w)

Spec == Init /\ [][Next]_vars
===============================================================================
