------------------------ MODULE MC_PosixThreadPool ------------------------
(* Three workers for four tasks: more tasks than workers, so that a worker *)
(* takes a second one while the others sleep, are being woken or stop.     *)
EXTENDS PosixThreadPool
===========================================================================
