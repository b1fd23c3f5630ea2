-------------------------------- MODULE Sockets --------------------------------
(***************************************************************************)
(* The clients and the kernel's side of the TCP connections of ch07's      *)
(* servers, as the servers' calls see them.  Of a request only its number  *)
(* is kept: sent and got count the requests a client has sent and the      *)
(* server has read from it.                                                *)
(*                                                                         *)
(* A peer that has closed in good order reads as an end of file for ever;  *)
(* the first answer to it is accepted by the kernel and may come back as a *)
(* reset.  A peer that was reset fails one call; after that its socket is  *)
(* dead: it reads as an end of file, and writing to it raises SIGPIPE.     *)
(***************************************************************************)
EXTENDS Naturals, Sequences, FiniteSets

CONSTANTS NumClients,
          MaxSends,     \* requests all the clients send together
          MaxFaults     \* calls of the server that fail for want of resources

ASSUME SocketsAssumption == NumClients \in Nat /\ MaxSends \in Nat /\ MaxFaults \in Nat

\* The clients are numbered in the order in which they connect.
Clients  == 1 .. NumClients
NoClient == 0

VARIABLES peer,         \* the client: "idle", "open", "closed", "reset" or "dead"
          backlog,      \* completed connections nobody has accepted
          srv,          \* the accepted socket: "none", "open", "refused" or "closed"
          sent, got,    \* requests sent by, and read from, each client
          faults,       \* calls that have failed
          ended         \* the server has exited or was killed

net == <<peer, backlog, srv, sent, got, faults, ended>>

NetTypeOK ==
    /\ peer \in [Clients -> {"idle", "open", "closed", "reset", "dead"}]
    /\ backlog \in Seq(Clients)
    /\ srv \in [Clients -> {"none", "open", "refused", "closed"}]
    /\ sent \in [Clients -> 0 .. MaxSends]
    /\ got \in [Clients -> 0 .. MaxSends]
    /\ faults \in 0 .. MaxFaults
    /\ ended \in BOOLEAN

NetInit == /\ peer = [c \in Clients |-> "idle"]
           /\ backlog = << >>
           /\ srv = [c \in Clients |-> "none"]
           /\ sent = [c \in Clients |-> 0]
           /\ got = [c \in Clients |-> 0]
           /\ faults = 0
           /\ ended = FALSE

Gone(c)     == peer[c] \in {"closed", "reset", "dead"}
Unread(c)   == got[c] < sent[c]
Readable(c) == Unread(c) \/ Gone(c)

-----------------------------------------------------------------------------
(* The clients. *)

Connect(c) == /\ ~ ended /\ peer[c] = "idle"
              /\ c > 1 => peer[c - 1] # "idle"
              /\ peer' = [peer EXCEPT ![c] = "open"]
              /\ backlog' = Append(backlog, c)
              /\ UNCHANGED <<srv, sent, got, faults, ended>>

\* What a client does on a connection the server has ended is of no interest.
Active(c) == peer[c] = "open" /\ srv[c] \in {"none", "open"}

\* The requests sent so far, by their numbers.
Requests == {r \in Clients \X (1 .. MaxSends) : r[2] <= sent[r[1]]}

Send(c) == /\ Active(c) /\ Cardinality(Requests) < MaxSends
           /\ sent' = [sent EXCEPT ![c] = @ + 1]
           /\ UNCHANGED <<peer, backlog, srv, got, faults, ended>>

Leave(c) == /\ Active(c)
            /\ \E how \in {"closed", "reset"} : peer' = [peer EXCEPT ![c] = how]
            /\ UNCHANGED <<backlog, srv, sent, got, faults, ended>>

ClientStep == \E c \in Clients : Connect(c) \/ Send(c) \/ Leave(c)

-----------------------------------------------------------------------------
(* What the servers' calls do to a socket. *)

\* accept: the oldest completed connection.
Accepted == Head(backlog)
Accepts(state) == /\ backlog # << >>
                  /\ backlog' = Tail(backlog)
                  /\ srv' = [srv EXCEPT ![Accepted] = state]

Fails == faults < MaxFaults /\ faults' = faults + 1

\* recv or read with data: at least one request, at most all that wait.
Receives(c) == \E n \in got[c] + 1 .. sent[c] : got' = [got EXCEPT ![c] = n]

\* ... without data: 0 for an end of file, -1 for a reset, once.
AtEnd(c)   == ~ Unread(c) /\ peer[c] \in {"closed", "dead"}
AtError(c) == ~ Unread(c) /\ peer[c] = "reset"
ErrorTaken(c) == peer' = [peer EXCEPT ![c] = IF @ = "reset" THEN "dead" ELSE @]

\* send or write: taken by the kernel, -1, or SIGPIPE.
Takes(c)  == /\ peer[c] \in {"open", "closed"}
             /\ \/ UNCHANGED peer
                \/ peer[c] = "closed" /\ peer' = [peer EXCEPT ![c] = "dead"]
Refuses(c)    == peer[c] = "reset" /\ ErrorTaken(c)
BrokenPipe(c) == peer[c] = "dead"

Closes(c) == srv' = [srv EXCEPT ![c] = "closed"]
-----------------------------------------------------------------------------
(* The connections as EchoService sees them. *)

Here == [c \in Clients |-> CASE peer[c] = "idle" -> "away"
                             [] peer[c] = "open" -> "here"
                             [] OTHER -> "left"]

Phase == [c \in Clients |-> CASE srv[c] = "none" -> "new"
                              [] srv[c] = "open" -> "served"
                              [] srv[c] = "refused" -> "refused"
                              [] OTHER -> "over"]
===============================================================================
