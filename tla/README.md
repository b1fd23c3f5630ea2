# Verification of the LinuxCpp_server programs

TLA+ models, TLC runs and TLAPS proofs for the concurrent and event-driven
programs of this repository: a set of servers and exercises that accompany a
book on Linux network programming. `PROJECT.json` lists every run, theorem,
mapped source line, finding and hazard; this file explains them.

## 1. Inventory

| component | state | operations | interacts through |
|---|---|---|---|
| POSIX thread pool (`ch03/thread_pool/3.8.3POSIX/3.40`) | task list, shutdown flag, mutex, condition, thread handles | Create, AddTask, getTaskSize, StopAll, ThreadFunc | one mutex and one condition; `shutdown` and the list's size are also used without the mutex |
| C++11 thread pool (`ch03/thread_pool/3.8.4C++11/3.41`) | threads, a task list each, round-robin index | Init, Dispatch, AddTack, Activate, Main | list mutex per thread |
| Synchronisation programs (`ch03/thread_sync*`) | a shared counter | lock, wait, signal, rwlock | mutexes, conditions, read-write locks |
| Length-framed TCP programs (`ch04/4.11`: 4.6, 4.7, 4.9) | bytes expected and received (`leftlen`) | send, recv loop, shutdown, the answer | a TCP stream |
| One process or thread per connection (`ch07/7.3`, `7.4`) | descriptors, children or detached threads | accept, fork or pthread_create, echo, close | descriptors held by parent and child |
| select, poll, epoll servers (`ch07/7.5multi_IO_server`) | descriptor tables, counts, interest sets, the batch at hand | accept, read, echo, close | the kernel's readiness sets |
| HTTP server (`ch09/9.10http_server`) | request line, headers, pipes | accept_request, get_line, serve_file, execute_cgi | threads, forked scripts, two pipes each, descriptors copied by fork |
| FTP server: dispatch (`ch10/10.5ftp_server`: main, XThreadPool, XThread) | worker bases, notification pipes, task lists | listen_cb, Dispatch, AddTack, Activate, Notify | pipe, list, and the worker's `event_base` |
| FTP server: control session (XFtpServerCMD and command handlers) | bufferevent, registered commands, directory, ip and port | Init, Read, Event, Parse | callbacks of the worker's loop |
| FTP server: data connections (XFtpTask, LIST, RETR, STOR) | bufferevent, FILE, buffer | ConnectoPORT, ClosePORT, Send, ResCMD, Read, Write, Event | callbacks; the control session's ip and port |

What makes them correct, and what is hard:

* **Thread pools.** An entry is run once, by one thread, in the order given; no
  entry is forgotten; stopping ends every thread and only then destroys what
  the threads use. Hard: wakeups that are stolen, spurious or lost, a flag
  that is set without the lock, a decision made on an unlocked size.
* **FTP dispatch.** Connections are shared out evenly; a session is complete
  before its first callback; nobody uses a session that is deleted; a slow
  worker does not stop the accepting thread for ever. Hard: the main thread
  initialises sessions on an event base another thread is running.
* **FTP session.** A transfer is announced and concluded once; what is reported
  complete is complete; the end of a session or connection releases what it
  holds. Hard: callbacks that run inside a command, a client that starts the
  next transfer over the running one, data and end of file in one turn,
  timeouts in any state.
* **The five servers of ch07.** Whatever the technique, a client is admitted or
  turned away once, answered only for what it asked, and given up only after
  it has left; tables and counts say what is connected. Hard: tables that are
  full, entries freed in the middle of a scan, events of a batch that outlive
  their socket, a peer that is reset between two calls, descriptors shared by
  parent and child, agents nobody waits for.
* **HTTP.** Each request gets the one reply it calls for and its descriptors are
  closed. Hard: two pipes between server and script, a fork that copies the
  descriptors of the other threads, an end of file in any line.
* **Framing.** The receiver finds the end of the data, and neither side waits for
  the other for ever. Hard: `recv` returns any part of the stream, a close over
  unread data resets the connection, either program may be killed.

Left out for good: the programs that demonstrate one library call (thread
attributes, byte order, socket options, raw sockets). They are straight-line
code with no state a model would add to. libevent, POSIX threads and the kernel
are not modelled from their own code: their operations appear as the programs
use them and are marked external in the map.

## 2. Modules

| module | models |
|---|---|
| `TaskPool` | what a thread pool promises: abstract specification |
| `PosixThreadPool` | `thread_pool.cpp` and its `main.cpp` |
| `FtpDispatch` | listener, dispatch, activation, session initialisation, worker loop, session end |
| `FtpSession` | a session's commands and its data connections |
| `EchoService` | what the five servers of ch07 promise: abstract specification |
| `Sockets` | the clients of ch07 and the kernel's side of their connections, as the servers' calls see them |
| `SelectServer`, `PollServer`, `EpollServer` | `7.5multi_IO_server`: 7.5, 7.6 and 7.7 |
| `SpawnServer` | 7.3 and 7.4: a process, or a thread, for each connection |
| `Httpd` | `httpSrv.cpp` and the script `color.cpp`, with pipes and descriptors |
| `GetLine` | `get_line` of `httpSrv.cpp`, byte by byte |
| `FramedTransfer` | the three pairs of programs of `ch04/4.11` |
| `MC_PosixThreadPool`, `MC_FtpDispatch`, `MC_Transfers` | symmetry, model values and the requests to check for TLC |
| `EchoServers` | composition: the five servers of ch07 over one set of clients, one of them chosen at the start |
| `Transfers` | composition of `Httpd`, `GetLine` and `FramedTransfer`, likewise |
| `PosixThreadPool_proofs`, `FtpDispatch_proofs`, `FtpSession_proofs`, `Sockets_proofs`, `MultiplexServers_proofs` (select, poll, epoll), `EchoServers_proofs` (processes and threads, and the composition), `Httpd_proofs`, `Transfers_proofs` (get_line, the framed transfers, and the composition) | theorems, for every value of the constants |

### PosixThreadPool

Variables are the class's statics, the mutex's owner, the threads blocked in
the condition, and a program counter for each thread and for `main`. A step is
what a thread does between two points where another thread can see or change
what it depends on. `shutdown` is read in the loop test and set by `StopAll`
without the mutex, so the test and the wait are two steps (`TestWait`, `Park`),
and the flag and the broadcast are two steps (`StopSet`, `StopBroadcast`).
`Park` releases the mutex and joins the waiters in one step, as
`pthread_cond_wait` guarantees. A waiter that is woken has to take the mutex
again. Entries are numbered in the order `main` adds them.
`main`'s poll of a list that is not empty changes nothing and is not a step.

### FtpDispatch

The main thread's path from `accept` to the end of `XFtpServerCMD::Init` is one
step per effect another thread can see: the byte in the pipe (`Wake`), the list
(`Pop`), the greeting that registers the write event (`Greet`), the members
(`Assign`), the callbacks (`SetCallbacks`), and what `XFtpTask.cpp:56` enables
(`Enable`): the read event with its timer, and the write event. A worker is its
loop: it sleeps when nothing is ready, with a timeout if it knew a timer when it
went to sleep, and runs one ready callback at a time. The base has no lock and
nobody notifies a loop that sleeps of what is added to it; but the write event
is ready at once on a connection that takes output, so it wakes the loop, which
then knows the timer too.
A session is alive from `CreateTask` until `delete this`. When `Enable` meets a
session that is already freed, the rest is undefined, and the model stops
there (`broken`) instead of guessing.

### FtpSession

The loop is single threaded, so a step is one callback. Each handler (LIST,
RETR, STOR) is a record: its bufferevent, output, socket, FILE and buffer, and
what the client has been told. The helpers of `XFtpTask` map such a record to
the record after the call; actions are the commands and the callbacks. A FILE
whose pointer is overwritten stays open with what its buffer holds, and is
counted in `lost`; `due` counts the preliminary replies that no 226 has answered,
and `over` the commands that came over a connection still running.
`bufferevent_trigger` runs its callback inside the command, as libevent does.
Files and data are sequences of numbered cells, and the 1 MiB buffer holds
`BufCells` of them: what matters is whether a read is short, whether cells
arrive in order, and what is left over in the buffer. Commands arrive whole.
USER, PWD, CWD and CDUP only reply, here; so does a name that is not registered.

### Sockets, EchoService and the five servers

`Sockets` holds the clients (`Connect`, `Send`, `Leave`: in good order or with a
reset, in any order) and what the calls of a server do to a connection: `accept`
takes the oldest, `recv` any number of waiting requests, an end of file is read
for ever and an error once, an answer to a peer that has gone is taken once and
raises SIGPIPE after that. Of a request only its number is kept.

Each server module extends it with the program's own variables. `SelectServer`:
`fd[]`, `conn_amount`, `fdsr` and the index of the scan; a step is one entry of
the scan, since the count that bounds the scan changes inside it. `PollServer`:
the table that only grows, with `events` and `revents` per entry; the read loop
with its three ways out; the overrun of `fds[]`, after which the process may die
at any time. `EpollServer`: the batch, the table `client[]`, `maxi` and the
kernel's set; a batch leaves sockets out when more are ready than it holds (not
at the bounds of the run, see below).
`SpawnServer` has one module for both programs (`byProcess`, which `Init` chooses
and no step changes): the main loop at `accept`, `fork` or `pthread_create`, and
`close`; an agent per client; who holds a descriptor of each connection;
children that end and are never waited for.

`EchoService` is what all five promise, in nine actions. The mapping is in
`Sockets` (`Here`, `Phase`) and in each server's `SelectOwed`, `PollOwed` and so
on. `EchoServers` extends the four modules, whose names for steps and variables
therefore differ, and puts the five programs under the same clients: `Init`
chooses one, so the state space is the disjoint union of theirs, one run asks
the same question of all, and what is proved of a module can be cited for the
composition.

### Httpd, GetLine and FramedTransfer

`Httpd` follows each thread from `accept` through `accept_request` and
`execute_cgi` to the close, its script from `fork` to its exit, and who holds
each descriptor: a fork copies those of all threads. A request is its line, its
headers and its body; the body and the script's output go through pipes of
`PipeCap` bytes. A file is `FileLines` lines as `fgets` cuts them, and one whose
last line has no newline (the target `"tail"`) is sent without it, because `cat`
tests for the end between reading a line and sending it.

`GetLine` is the function `Httpd` uses for lines, with its buffer, its peek after a
carriage return and its end of file; inputs are all words of at most `MaxInput`
bytes over an ordinary byte, CR and LF. `FramedTransfer` is one
module for the three variants, which differ in how the client learns the end of
the data; data are counted in cells of the client's buffer, either program
may be killed, and a server serves one client after the other. `Transfers`
extends the three modules and composes them as `EchoServers` does: they share no
variable, `Init` chooses the program, and the variables of the others stay.
`MC_Transfers` only names the requests that the two connections of a run make.

## 3. Runs

| run | bounds | shows |
|---|---|---|
| `PosixThreadPool_main` | 3 threads, 4 tasks | types, `RunsItsOwnEntry`, `DestroyedWhenIdle`, `NothingAbandoned`, the refinement of `TaskPool`, `EveryTaskRuns` |
| `PosixThreadPool_stop` | 2 threads, 2 tasks | `MainEnds` is violated |
| `FtpDispatch_main` | 3 clients, 2 threads, queue 1, pipe 1, one client that sends and leaves | types, `Balanced`, `ReadableIsInitialised`, `NoTaskStranded`, `EveryoneIsGreeted`, `SessionsEnd` |
| `FtpDispatch_uaf` | 1 client, 1 thread | `InitOnLiveSession` is violated |
| `FtpSession_main` | 4 commands, files of up to 3 cells, buffer 2 | types, `CompleteOnlyOnce`, `OpenFileIsDriven`, `SessionEndReleasesAll`, `DownloadComplete`, `UploadKept`, `UploadConcluded`, `DataConnectionsEnd` |
| `FtpSession_exact`, `_concluded` | 2 commands | `DownloadExact`, `EveryTransferConcluded` are violated |
| `EchoServers_main` | 2 clients (3 for select and for processes), 2 requests, 1 failing call, tables of 2 (select) and 1 (poll, epoll), batches of 2, 2 agents | types, `SelectTableMatches`, `EpollTableIsCurrent`, `EndsOnlyFor`, the refinement of `EchoService`, `EveryoneGetsVerdict`, `RequestsAreAnswered`, `LeaversAreReleased` |
| `EchoServers_starved` | 2 clients, table of 2 | `EveryoneIsServed` is violated |
| `Transfers_main` | 2 HTTP connections, pipes of 1, output and files of 2, 1 failing call; 5 bytes for a `get_line` buffer of 3; 4 cells for a buffer of 2, 2 clients | types, `ReplyFits`, `BodyReachesScript`, `NothingLeaks`, `CutOnlyFor`, `StopsOnlyFor`, `EveryReplyEnds`, `LinesMatch`, `LineComesThrough`, `ReceivedEnough`, `FailsOnlyFor`, `TransferEnds` |
| `Transfers_isolation` | 2 HTTP connections, no failing call | `OwnRequestSuffices` is violated |
| `Transfers_short` | 4 cells for a buffer of 2, 2 clients | `ReceivedAll` is violated |

**Bounds.** The program's own numbers are larger (5 threads and 10 tasks; 10
workers, a queue of 10, a pipe of 64 KiB; tables of 5, 100 and 1024 entries).
What the bounds have to allow is that the interesting cases happen:

* Pool: more tasks than threads, so that a thread takes a second one while
  others sleep, wait for the mutex or stop.
* Dispatch: more clients than threads, so that the turn wraps; a pipe that is
  full with one byte, so that the main thread does block. The run lets one
  client send and leave (`Active`) and keeps the others silent; of these two,
  which are interchangeable, one always comes first (`InTurnSpec`). Its safety
  invariants are also proved, for any number of clients that do both.
* Session: files that are empty, shorter than the buffer, exactly the buffer and
  longer; PORT, transfer, PORT and another transfer in one session.
* Servers of ch07: a table that is full with a client at the door (3 clients for
  the two entries of select, 2 for one entry of poll and epoll), a freed low
  entry below one in use, more connections than agents are allowed. Not
  among them: with the 2 clients of epoll a batch of 2 leaves no socket out, so
  the liveness properties show nothing of a socket that waits for a later batch
  (the invariants and the refinement are proved for any batch). Two requests,
  because a server that reads takes all that wait, so that a third repeats the second.
* HTTP: two connections, because what a fork copies are the descriptors of one
  other thread; requests are checked in the pairs named in `MC_Transfers`,
  which have two scripts at once and each other kind of request beside one that
  is refused. A pipe of one byte is full at once. A failing call is tried with
  all pairs but the two with two scripts.
* `get_line`: five bytes for a buffer of three: every line end, doubled, split
  by the buffer's end and at the end of the input.
* Framing: data of two buffers, read in any pieces, and a second client after
  one that was killed or that reset its connection.

With the numbers of commands, cells, requests and clients used up a system
stops, and after `StopAll` the pool does: deadlock is therefore not checked, and
that nothing stops too early is what the liveness properties are for.

**Transfers that overlap (FTP).** A handler has one FILE and one bufferevent, and
a second RETR or STOR replaces the FILE even when no new connection is made. When
that happens while the first connection runs, three things go wrong, and the
properties say so instead of looking away:

* what arrives is a mixture of two files: `DownloadComplete` and `UploadKept` say
  nothing of such a transfer (the record's history field `mixed`);
* the first FILE is never closed, nor what its buffer holds written:
  `OpenFileIsDriven` claims that nothing else leaves a file behind, and
  `SessionEndReleasesAll` that all is on disk if it did not happen (`lost`);
* of two commands one never gets its 226: `UploadConcluded` claims that as many
  are missing as came over a running one (`over`).

A client that waits for the reply never starts one.

**Fairness.** Weak fairness throughout, of what the scheduler and the loops run:

* Pool: `main` and each worker; spurious wakeups do not go on for ever; nothing
  is assumed of the mutex beyond that.
* Dispatch: the main thread and each worker's loop; of each client, the callbacks
  of its session and the expiry of its timer, because libevent runs all active
  events before it polls again and nobody is overtaken for ever.
* Session: the callbacks that are due run, and the 60 s timeout of a data
  connection expires when nothing arrives on it. A client that never stops
  sending is excluded by the bound on its data.
* Servers of ch07: the server's process or main loop, and each agent. Nothing of
  the clients, who may stay silent for ever.
* HTTP: each thread and each script. `Transfers_isolation` assumes nothing of the
  clients. `Transfers_main` (`PatientSpec`) assumes that they send the rest of a
  request they began and give up when they have announced more than they
  have; without it a script waits for its input for ever, which is no fault of
  the server. `get_line`: the reader. Framing: server and client each run.

**Findings.** Seven statements of the repository's documents or comments are
violated by what the code does. Each has a run and an entry under "findings"
with the quotation:

* `StopAll` sets its flag and broadcasts without the mutex: a worker between its
  test and its wait misses both (`MainEnds`);
* the event base without a lock is used by two threads: a session is deleted
  while it is initialised (`InitOnLiveSession`);
* RETR sends a whole buffer after a short read (`DownloadExact`);
* LIST and RETR that fail, or have nothing to send, are never concluded
  (`EveryTransferConcluded`);
* the select server scans as many entries as there are connections, and starves
  the client behind a freed entry (`EveryoneIsServed`);
* a script keeps the connections of other clients open until it ends
  (`OwnRequestSuffices`);
* a receiver that knows the length ends before it has received it, and says that it
  is finished (4.7 and 4.9, `ReceivedAll`).

**Statements the code contradicts, without a run of their own.** Here a model
follows the code and a property passes although a comment or the repository's
`README.md` says otherwise:

* `7.5/main.cpp:1` says that the number of connections is not changed when one is
  closed, and that the program terminates when the number is at its maximum. The
  code lowers the count (`:121`) and, with the table full, says "bye" to the next
  client and goes on, although it prints `max connections arrive ,exit` (`:159`).
  `SelectTableMatches` and `EndsOnlyFor` say what the code does.
* The comment at line 155 of the poll server (7.6) says that it cancels the write
  event; `events &= !(POLLOUT)` clears every event, so a client is not heard after
  its first answer until its connection is reset. `RequestsAreAnswered` claims
  the first answer only.
* `httpSrv.cpp:435` says that `cat` puts out the entire contents of a file. A last
  line without a newline is not sent (`:445-450`), and of a file that is one such
  line nothing is: the repository's own `htdocs/index.html` arrives without its
  `</html>`. `ReplyFits` says which lines arrive.
* `README.md:964-965` says that a GET without parameters gets the file, and that
  one with parameters, or a POST, runs the program. In `accept_request` the
  file's execute permission alone decides: a plain GET of an executable runs it,
  and a POST to a file that is none returns the file. `ReplyFits` says that too.

**What else the models do because the code does it**, with no statement of the
repository to contradict, and excepted by name in the properties:

* FTP: STOR answers 226 also when its data connection failed or timed out; a
  transfer that overlaps another leaves a FILE open and a 226 out (above); RETR
  or STOR without a PORT before it hands a null bufferevent to
  `bufferevent_trigger` (`crash`).
* poll: `fds[]` is never reused and overrun by the connection behind its last
  entry.
* epoll: with the table full, `maxi` becomes OPEN_MAX and the freeing loop reads
  past `client[]`; the connection is served without an entry.
* processes: children stay zombies until `fork` fails and the parent exits.
  Threads: a failed `pthread_create` leaves a connection nobody serves and
  detaches an identifier that is old or was never written.
* HTTP: a script that ends before it has read its input kills the server with
  SIGPIPE; a file that cannot be opened is passed to `fclose` as NULL; when the
  client leaves within its body the last byte is repeated for each missing one;
  a line that ends with a carriage return alone waits for the next byte (the peek).
* Framing: 4.7's `strlen` runs past its buffer, so that more may be sent than is
  counted; the loops of 4.7 and 4.9 spin on an end of file if the server is killed
  (`TransferEnds` excepts it).
  How short a client of 4.7 or 4.9 can come, against the finding's `ReceivedAll`, is
  what `ReceivedEnough` says: by less than a buffer.

**Mutants.** Every checked property has a mutated definition in the module
(`..._Mutant`), a change of the kind a maintainer could make: `if` for `while`
around the wait, a join left out, a read that does not loop, a loop that ends one
entry early. With it in place the property fails.

## 4. Proofs

All theorems hold for every value of the constants, under the assumption named
with each: sizes, numbers of clients, threads, tasks, cells and commands.

`PosixThreadPool_proofs` proves, from `PoolAssumption` alone (at least one
thread and one task), for every number of threads and tasks:

* `TypeCorrect`: types, and that `main`'s index stays within its loops;
* `EntriesAreOwned`, `DestroyedOnlyWhenIdle`, `NoEntryAbandoned`: the three
  safety invariants the safety run checks;
* `ImplementsAbstractPool`: the pool implements `TaskPool`;
* `OnlyTheJoinHangs`: if no thread can move, `main` is through or `StopAll` joins a
  worker its broadcast missed, which is the finding of `PosixThreadPool_stop`.

None of the invariants is inductive. That a running worker has an entry of its
own depends on where the entry was before, and that no worker abandons one
depends on who could still add one. The strengthening `IInv` has these parts:

* `LockInv`: the mutex is owned by exactly the thread whose program counter is
  inside the critical section;
* `BornInv`, `WaitInv`: threads not yet created do nothing, and the condition's
  waiters are the threads blocked in it;
* `CheckInv`: a worker past the wait loop sees an entry or the flag. It holds
  because only the holder of the mutex shortens the list, and is what fails when the
  loop becomes an `if`;
* `OncesInv` and `AccountedInv`: each entry submitted so far (`Submitted`) is
  queued, being run or done, in one of these places and once;
* `StopInv`: the flag is set only after `main` saw an empty list with nothing
  left to add, and the threads joined so far are gone;
* `ParkInv` and `MetInv`: a worker that is about to wait saw an empty list and still
  holds the mutex, and while a worker waits no more entries are queued than workers
  and signals are on their way to them. A wakeup may be stolen, but then by a worker
  that looks at the list itself. `CreatedInv` (no thread is missing after `Create`)
  and these give `NothingAbandoned` and `OnlyTheJoinHangs`.

There is a lemma per group of steps (`LockStep`, `StopStep`, `PushStep`,
`TakeStep`, `RunStep`, and `QuietStep` for those that move no entry), with one
step per action below. `RefinementStep` then shows that `AddPush`, `Take`, `Run`
and `StopDestroy` are `Submit`, `Start`, `Finish` and `Close`, and that the
others leave the abstract variables alone; `IdleWhenJoined` is the step that
needs the account of the entries.

`FtpDispatch_proofs` proves, from `DispatchAssumption` alone (at least one
thread, finitely many clients, a listen queue and a pipe that hold something):

* `TypeCorrect`: types, and that `main` has a connection at hand (`ConnInv`)
  whenever it is between `listen_cb` and the end of `Init`;
* `Initialised` and `NothingStranded`: `ReadableIsInitialised` and
  `NoTaskStranded`;
* `LoadsBalanced`: `Balanced`;
* `GreetingsGoOn`: whoever waits for the greeting is with `main`, which goes on or
  waits at a pipe that the worker can read, or with the worker, which can send it.

`Initialised` and `NothingStranded` rest on `DispatchInv`. `armed` is set at the end of `Init` only,
so what has to be carried along is the order of the steps before it:
`OrderInv` says what `main`'s position implies about the session it works on,
*if the worker has not deleted it meanwhile* (that it may have is the finding
`FtpDispatch_uaf`). `FreshInv` and `QueueInv` say that a connection in the
listen queue has no session yet and is queued once, without which `Accept`
could create a session a second time. `DispatchStep` has one step per action.
`Balanced` is not inductive either, since it allows any thread to be the one
ahead: `TurnInv` adds that it is the threads up to `lastThread`. `TurnStep`
shows that one more connection for the next thread keeps the turn, by the
cardinality of the set of clients each thread was given. `GreetingsGoOn` needs to
know where such a client can be (`WayInv`), that `main` finds the task it has put on
a list (`HandInv`), and that every loop runs before there are sessions (`BornInv`).

`FtpSession_proofs` proves, from `SessionAssumption` (a buffer and files of
at least one cell), every safety invariant of `FtpSession_main`: `TypeCorrect`,
`RepliesOnlyOnce`, `FilesAreDriven`, `EndReleasesAll`, `DownloadsAreComplete`,
`UploadsAreKept` and `UploadsAreConcluded`, and its action property,
`FilesAreDriven`. They are statements about the three
handler records, and none says enough about where a transfer's cells are. The
parts of `IInv`:

* `CountsInv`: what is written, on the socket and in the buffer together are
  no more than the client sent, and a file is not read past its end;
* `RepliesInv`: a data connection means that a reply is owed, an open file that
  there is a connection, there are no replies nobody is waiting for, and what was
  written to a closed file is on disk unless a FILE was lost;
* `ConcludedInv`, of STOR: as many replies are due as there are connections, plus
  one for each command that came over one;
* `DownloadInv`: what is on the socket, in the output and in the buffer are
  successive pieces of the file, from its beginning to the read position;
  `UploadInv` is the same from the client to the disk;
* `DrainedInv`: what arrived before the end of a connection has been read when
  the end is handled;
* `SessionInv`, the types of the session, and `SessionEndReleasesAll` itself: after
  the session's end there is nothing left to call back.

`FilesAreDriven` needs the invariant before and after a step (an open file has a
connection, so none is left behind by its end) and `FilesStep`: only a command of
the handler itself takes a file from `fp`.

The helpers of `XFtpTask` are functions of a record, so there is a lemma per
helper and part, and one per action that combines them. What sequences do under
concatenation and cutting is in lemmas of their own.

`Sockets_proofs` holds what the proofs of the servers of ch07 share: `NetInv` (a
connection waits in the queue once, was never accepted, and has a client), that
each call keeps it, and what the clients' steps and the calls are to
`EchoService`. `Bounds` says what the model's own limits allow: at most
`MaxSends` requests in all (`SendsBounded` counts them, as a set of pairs of a
client and a number), and at most `MaxFaults` failing calls. `DoorInv` finds every
client that came and was not accepted in the queue; `ReadableStays` and
`OthersReadable` say that what can be read from a connection stays so until the
server itself takes it.

`MultiplexServers_proofs` treats the three servers of `7.5multi_IO_server`, each
from `SocketsAssumption` and the assumption that its table is not empty:

* select. Count and table depend on each other: that a free entry is found
  (`FreeIsFree`) needs the count to be the number of entries in use, and the
  count stays that number because the entry was free. `SelectIInv` adds that the
  entry to be answered is in use; the refinement needs the table to know that its
  connection is open.
* poll. The table only grows and clients are accepted in the order in which they
  connect, so entry k is client k's, or was (`OrderInv`): this replaces an
  induction over what was appended. `RoundInv` says that what poll reported
  still holds for the entries the round has yet to come to, although the loop
  changes the table under it: without it a hangup could be acted on for a client
  that is there, and `POLLOUT` for one whose request nobody has read. From these,
  `PollImplementsEcho`, and `PollEndsForReason`: the read loop ends the process for
  an error and not for `EAGAIN`.
* epoll, for tables that overflow too. `MaxiInv` (entries in use lie below `maxi`)
  is what makes the loop that frees an entry find it, and `maxi` stays at most
  one behind the table.

`EchoServers_proofs` first treats the servers with a process or a thread for each
client. `HeldInv` says that an agent at work holds a descriptor and one that is
through has lost its client, so that whichever of parent and child closes last,
the connection ends only after the client left (`OpenWhileHeld`,
`SpawnImplementsEcho`). Then it proves of the composition, the specification the
run `EchoServers_main` checks, all its invariants and its refinement:
`TypesCorrect`, `SelectTableStaysCorrect`,
`EpollTableStaysCurrent`, `EndHasOutsideReason` and `AllImplementEcho`. `EchoIInv`
is the invariant of the program that runs, with its `...Rest`: what its
invariant does not need but the types and the end of the process do. The other
programs' variables do not change, but their types mention `net`, which does
(`IdleKeepTypes`). `EndHasOutsideReason` rests on one fact per server about the
step that ends it; that a server does not end is stable because no step is
taken after its end.

Two more theorems are what `EveryoneGetsVerdict`, `RequestsAreAnswered` and
`LeaversAreReleased` rest on. `NobodyWaitsInVain`: as long as somebody waits for a
server (`NobodyIsKeptWaiting`), the guard of a step that serves him holds. The
sockets of the select and epoll servers block, so this depends on what was reported
before still being true when it is used, with other entries served and other
clients at work in between: `SelectFresh`, `EpollFresh` and, for what an entry asks
poll for and the answer it is owed, `PollFresh`. With agents it is `HolderInv`: the
last descriptor of a connection whose agent is through is the parent's, which is
about to close it. `EveryRoundEnds`: the steps of a loop lower a pair of numbers
(entries or events to come, then what is left for the one at hand) until it is back
in its call of select, poll, epoll_wait or accept, and no client raises it. What the
two do not say is which client a round serves: a client behind a freed entry of the
select server is passed over (the finding `EchoServers_starved`), and more than
`MaxEvents` may be ready at once. That is for the runs.

`Httpd_proofs` proves, from `HttpdAssumption` (requests of the kinds named, any
number of connections, pipes of any size, zero included, a page of any length),
the inductive invariant of the HTTP server (`HttpInductive`). None of the server's
properties is inductive by itself: what a client has got at the close depends on
what its thread did since `accept`, and on scripts that hold copies of the
descriptors of other threads. The parts of `HttpIInv`:

* `HoldersInv`: whoever holds a descriptor besides the server is a script that
  still runs; a script that runs holds its own pipe ends, has a thread that is at
  work for it, and once it has exited has written all. With no call failed, the
  server keeps a descriptor only while the thread needs it. A `fork` hands a
  script those of all the other connections, which is why this part has to speak
  of every pair of a script and a descriptor;
* `RepliesInv`: where a request can be (`Routed`), and that the client's reply,
  what is in the pipe, and what the script has written are successive pieces of
  one page (`Relayed`), or the lines of the file that `cat` sends (`CatSent`). The
  end of the output is read only when nobody holds the writing end, so the
  script has ended, and the reply is complete (`PageComplete`);
* `BytesInv`: the script's input and the pipe hold the body up to the server's
  loop index, in order, and a byte is repeated only when the client has left;
* `DrainInv`: when a request is one the server reads to its end, the close comes
  only after all of it was read, which is what `CutOnlyFor` needs;
* `CountsInv`: nothing is read that was not sent, and no pipe holds too much;
* `LoadInv`: no more of the body is moved than was announced, all the script wants
  has been moved when its output is relayed, and the server no longer holds the ends
  it leaves to the script; it is needed to show that nobody waits for himself.

A step for one connection leaves those of the others as they are, except for a
`fork` and the exit of a script, which touch who holds the others' descriptors:
`OthersStay` says so once, and each part then needs its lemma for the stepping
connection only (`HeldKept`, `EmployedKept`, `RoutedKept`, `AnsweredKept`,
`FedKept`, `EmptiedKept`).

`NobodyIsStuck` says of every connection which guard holds: of its thread, of its
script, of another script that inherited its pipe, or none because a client is to
send the rest of its request. `StepsRunOut` gives each connection a measure, `Work`
(the places its thread and its script still have to go through, and the bytes left
to carry through the pipes, twice those not yet in one), that each step for it
lowers and no other step changes.

`Transfers_proofs` adds the invariants of the other two programs, from
`LineAssumption` (a buffer of at least one byte) and `FramesAssumption`. For `get_line`,
`LinesMatch` asks for places at which the input can be cut into the lines; the
invariant `PiecesInv` has those places and says where the line at hand stands behind
the last of them, with its carriage return when the reader peeks. What arrives
later must not change an earlier piece (`PieceStays`): that is so because a
carriage return is peeked behind before its line is returned. The line stays in the
caller's buffer because there is room for the byte it peeks at. For the framed
transfers the strengthening says which end of the
stream may be closed and why (`EndsInv`), that what was read and `leftlen` make
the length as long as the server lives (`LeftInv`), and that a connection that
will make the server fail already has its cause (`ResetInv`). The theorems are
about the specification `Transfers_main` checks and state all its invariants:
`TypesCorrect`, `RepliesAreDue`, `BodyIsOwn`, `NothingStaysOpen`, `CutsHaveCauses`,
`StopsHaveCauses`, `InputIsCut`, `EnoughIsReceived` and `FailuresHaveCauses`, all from
`Inductive`, since a step of one program is no step of the others (`StepsApart`).

Its other theorems come in pairs for the three programs: `RepliesGoOn` and
`RepliesRunOut` (pipes of at least one byte), `LinesGoOn` and `ReaderRunsOut`,
`TransferGoesOn` and `TransferRunsOut` (some data to send). The first of a pair says
that where something is still due a step is possible, the second that steps lower a
natural number. With a scheduler that runs what can run, the two leave no way to
stop or go round for ever before the end.

**Only model-checked:** liveness itself, which is beyond this prover, and with it every
property with `~>`. Of `EveryoneIsGreeted`, `EveryReplyEnds`, `LineComesThrough` and
`TransferEnds` the part that does not need fairness is proved: that nobody is stuck
and, but for the greeting, that steps run out; of `SessionsEnd` and
`DataConnectionsEnd` nothing; of the echo servers' properties, that
nobody is stuck and that rounds end. The guards in these theorems
(`MainMoves`, `ThreadMoves`, `SelectGoes` and the like) repeat those of the actions,
because `ENABLED` is beyond the prover too; that there is a batch for `EpollWait` to
return when something is ready is left to TLC. All safety invariants,
`OpenFileIsDriven` and the two refinements are proved. What a violating run refutes is not: it is false.

## 5. Not modelled

* The C++11 thread pool: its threads print two lines and end, and `main` adds,
  takes off and runs every task itself, one after the other.
* The synchronisation, thread and socket demonstrations: each shows one call.
* FTP: CWD and CDUP's path arithmetic (`XFtpLIST.cpp:91`), the unchecked numbers
  of PORT (`XFtpPORT.cpp:34`), commands that arrive in pieces or several at once
  (`XFtpServerCMD.cpp:48`), the socket that leaks when no bufferevent can be
  made (`XFtpServerCMD.cpp:80`) and failures of a worker's `Setup`, which `Start`
  ignores (`XThread.cpp:39`). They are faults in one function that a unit test
  reaches, without an order of steps a model could explore.
* Clients that stop reading: a `send` to one blocks, and in a server with one
  thread blocks everybody. In the models every answer fits the socket's buffer.
* HTTP: a Content-Length below -1, with which the allocation in the script fails.
* What is said: the text of requests, replies and listings, what a task computes,
  and logging.
