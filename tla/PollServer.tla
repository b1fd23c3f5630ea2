------------------------------- MODULE PollServer -------------------------------
(***************************************************************************)
(* The poll server of ch07/7.5 (7.6/srv/main.cpp): one thread, one table   *)
(* fds[] that only grows, non-blocking sockets.  An entry asks for POLLOUT *)
(* once its requests are read and is answered in a later round.  The entry *)
(* of the listening socket is left out of the table: it never changes.     *)
(***************************************************************************)
EXTENDS Sockets

CONSTANT PollSlots      \* the entries the table was allocated with

ASSUME PollAssumption == PollSlots \in Nat \ {0}

VARIABLES ppc,          \* "wait" in poll, "accept", "check", "read" or "write"
          entry,        \* the entry the round has come to
          fds,          \* the table: for each entry its fd and events
          revents       \* what poll reported, for each entry

pollOwn  == <<ppc, entry, fds, revents>>
pollVars == <<net, pollOwn>>

Flags == {"IN", "OUT", "RDHUP", "HUP"}

PollTypeOK == /\ NetTypeOK
              /\ ppc \in {"wait", "accept", "check", "read", "write"}
              /\ entry \in 0 .. NumClients + 1
              /\ fds \in Seq([fd : Clients \union {NoClient}, events : SUBSET Flags])
              /\ revents \in Seq(SUBSET Flags)

PollInit == /\ NetInit
            /\ ppc = "wait" /\ entry = 0
            /\ fds = << >> /\ revents = << >>

\* What poll says of an entry: the events it asks for, and a hangup always.
PollReady(e) ==
    LET c == e.fd IN
    IF c = NoClient THEN {}
    ELSE {f \in e.events : \/ f = "IN" /\ Readable(c)
                           \/ f = "RDHUP" /\ Gone(c)
                           \/ f = "OUT"}
         \union (IF peer[c] \in {"reset", "dead"} THEN {"HUP"} ELSE {})

PollWait == /\ ~ ended /\ ppc = "wait"
            /\ revents' = [k \in DOMAIN fds |-> PollReady(fds[k])]
            /\ backlog # << >> \/ \E k \in DOMAIN fds : revents'[k] # {}
            /\ ppc' = IF backlog # << >> THEN "accept" ELSE "check"
            /\ entry' = 1
            /\ UNCHANGED <<net, fds>>

Exit == ended' = TRUE /\ UNCHANGED <<ppc, entry, fds, revents>>

PollAdmit == /\ ~ ended /\ ppc = "accept"
             /\ Accepts("open")
             /\ fds' = Append(fds, [fd |-> Accepted, events |-> {"IN", "RDHUP"}])
             /\ revents' = Append(revents, {})
             /\ ppc' = "check"
             /\ UNCHANGED <<peer, sent, got, faults, ended, entry>>

\* An entry past the calloc'ed table has overwritten the heap: from then on
\* the process may be killed at any time, or go on.
Overrun == /\ ~ ended /\ Len(fds) > PollSlots
           /\ Exit
           /\ UNCHANGED <<peer, backlog, srv, sent, got, faults>>

PollAcceptFails == /\ ~ ended /\ ppc = "accept"
                   /\ Fails /\ Exit
                   /\ UNCHANGED <<peer, backlog, srv, sent, got>>

InCheck == ~ ended /\ ppc = "check" /\ entry <= Len(fds)

PollSkip == /\ InCheck /\ revents[entry] \intersect {"HUP", "RDHUP", "IN", "OUT"} = {}
            /\ entry' = entry + 1
            /\ UNCHANGED <<net, ppc, fds, revents>>

PollDrop == /\ InCheck /\ revents[entry] \intersect {"HUP", "RDHUP"} # {}
            /\ Closes(fds[entry].fd)
            /\ fds' = [fds EXCEPT ![entry] = [fd |-> NoClient, events |-> {}]]
            /\ entry' = entry + 1
            /\ UNCHANGED <<peer, backlog, sent, got, faults, ended, ppc, revents>>

Check == /\ InCheck /\ revents[entry] \intersect {"HUP", "RDHUP"} = {} /\ revents[entry] # {}
         /\ ppc' = IF "IN" \in revents[entry] THEN "read" ELSE "write"
         /\ UNCHANGED <<net, entry, fds, revents>>

\* The read loop; the entry's socket may be reset between two reads.
PollRead == /\ ~ ended /\ ppc = "read" /\ Receives(fds[entry].fd)
            /\ UNCHANGED <<peer, backlog, srv, sent, faults, ended, pollOwn>>

\* Every -1 of read taken for an error.
ReadBlocks_Mutant == /\ ~ ended /\ ppc = "read"
                     /\ ~ Readable(fds[entry].fd)
                     /\ Exit
                     /\ UNCHANGED <<peer, backlog, srv, sent, got, faults>>

\* EAGAIN, and the answer is forgotten.
ReadBlocks_Mutant2 == /\ ~ ended /\ ppc = "read"
                      /\ ~ Readable(fds[entry].fd)
                      /\ ppc' = "write"
                      /\ UNCHANGED <<net, entry, fds, revents>>

\* EAGAIN.
ReadBlocks == /\ ~ ended /\ ppc = "read"
              /\ ~ Readable(fds[entry].fd)
              /\ fds' = [fds EXCEPT ![entry].events = @ \union {"OUT"}]
              /\ ppc' = "write"
              /\ UNCHANGED <<net, entry, revents>>

ReadEnds == /\ ~ ended /\ ppc = "read" /\ AtEnd(fds[entry].fd)
            /\ ppc' = "write"
            /\ UNCHANGED <<net, entry, fds, revents>>

\* Any other errno: errExit.
PollReadFails == /\ ~ ended /\ ppc = "read" /\ AtError(fds[entry].fd)
                 /\ ErrorTaken(fds[entry].fd) /\ Exit
                 /\ UNCHANGED <<backlog, srv, sent, got, faults>>

NoWrite == /\ ~ ended /\ ppc = "write" /\ "OUT" \notin revents[entry]
           /\ ppc' = "check" /\ entry' = entry + 1
           /\ UNCHANGED <<net, fds, revents>>

\* events &= !(POLLOUT): !(4) is 0.
Write == /\ ~ ended /\ ppc = "write" /\ "OUT" \in revents[entry]
         /\ Takes(fds[entry].fd)
         /\ fds' = [fds EXCEPT ![entry].events = {}]
         /\ ppc' = "check" /\ entry' = entry + 1
         /\ UNCHANGED <<backlog, srv, sent, got, faults, ended, revents>>

\* errExit on -1.  No SIGPIPE: nothing is written twice to one connection.
WriteFails == /\ ~ ended /\ ppc = "write" /\ "OUT" \in revents[entry]
              /\ Refuses(fds[entry].fd)
              /\ Exit
              /\ UNCHANGED <<backlog, srv, sent, got, faults>>

Checked == /\ ~ ended /\ ppc = "check" /\ entry > Len(fds)
           /\ ppc' = "wait" /\ entry' = 0
           /\ revents' = [k \in DOMAIN fds |-> {}]
           /\ UNCHANGED <<net, fds>>

PollLoop == \/ PollWait \/ PollAdmit \/ PollAcceptFails \/ PollSkip \/ PollDrop \/ Check
            \/ PollRead \/ ReadBlocks \/ ReadEnds \/ PollReadFails
            \/ NoWrite \/ Write \/ WriteFails \/ Checked

PollNext == PollLoop \/ Overrun \/ (~ ended /\ ClientStep /\ UNCHANGED pollOwn)

PollSpec == PollInit /\ [][PollNext]_pollVars

PollFairness == WF_pollVars(PollLoop)

PollFairSpec == PollSpec /\ PollFairness

-----------------------------------------------------------------------------
\* The entry of c asks for POLLOUT: its requests were read, the answer is due.
PollOwed(c) == \E k \in DOMAIN fds : fds[k].fd = c /\ "OUT" \in fds[k].events

\* A request of c was read, in part or to its end, and nothing was written yet:
\* the write is what clears the events of the entry.
PollDue(c) == \E k \in DOMAIN fds : fds[k].fd = c /\ fds[k].events # {} /\ got[c] > 0

(* The process ends only for a peer that has left while it was being       *)
(* served, a failed accept, or an overrun of the table: no order of        *)
(* requests and answers of clients that stay makes one of its calls fail.  *)
PollEndsOnlyFor == ended => \/ \E c \in Clients : peer[c] \in {"reset", "dead"}
                            \/ faults > 0
                            \/ Len(fds) > PollSlots
===============================================================================
