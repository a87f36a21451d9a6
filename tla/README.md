# SiLog in TLA+

SiLog is a logging system in C. An application calls `silogLog`; a library thread
sends the entries over a Unix datagram socket to a daemon; the daemon writes them
to rotating log files and broadcasts them over TCP to viewers (`silog_cat`).
This directory models that path, model-checks it with TLC on small instances and
proves the central parts with TLAPS for all values of the constants.

## Inventory

| Part | State | Operations | What is hard |
|---|---|---|---|
| MPSC queue, `silog_comm/src/silog_mpsc.c` | ring, two positions, a sequence number per slot | Init, Destroy, Push, Pop | lock-free producers, rollback of a refused claim, wraparound of 32-bit positions, copies outside any lock |
| Priority queue, `silog_pqueue.c` | binary heap | Init, Destroy, Clear, Push, Pop, Peek, Reserve | in-place sifting, a sift that cannot allocate |
| File manager, `silog_dae/src/silog_file_manager.c` | current file and stdio buffer, history files, configuration, compression queue and thread | Init, Deinit, WriteRaw, Rotate, Flush, setters | rotation and cleaning while gzip runs, names of one-second resolution, failing calls, crashes |
| IPC, `silog_ipc.c` | socket file, server socket, client descriptor | bind, close, receive, connect, send with reconnection | restarts of the server, stale files, full buffers |
| Logger, `silog_logger/src/silog_logger.c` | once flag, queue, sender thread | silogLog, sending | initialisation that fails once and for all, retry |
| Daemon, `silog_dae/src/silog_daemon.c` | run flags, three threads, what they use | Init, Deinit, thread loops | order of creating, flagging, joining and releasing; starts that fail half way |
| Remote, `silog_remote.c` | client table, descriptors, receive buffer of the client | Init, Deinit, Accept, Broadcast; Connect, Receive, Disconnect | a mutex released while sending, partial sends, framing |
| Viewer, `silog_cat/src/silog_cat.c` | connection, filters | connect, receive, print, connect again | end of either side at any time; a decoder that has to undo the encoder |
| Executable, `silog_exe/src/silog_exe.c` | PID file, the daemon's socket file | start, start -d, stop, status, test | commands in several shells, daemons that crash or hang, PIDs used again |
| Prelog, `silog_prelog.c` | file, level, line buffer on the stack | Init, Deinit, Write | a buffer that is never cleared, lines longer than it |
| Bounded C library, `silog_securec.c` | none | copy, append, compare, search, split, print | sizes at the limit, overlap, NULL |
| Time, utilities | none worth a module | | |

They interact at six places: `silogLog` callers and the sender thread over an MPSC
queue; sender and daemon over the socket; receive and write thread over another MPSC
queue; write thread and compression thread over a third, and over the directory; write
thread and remote thread over the client table; the executable and the daemon process
over the socket file and the PID file.

## Modules

| Module | Models | State and actions |
|---|---|---|
| `BoundedFifo` | what clients of the MPSC queue rely on | an atomic bounded FIFO: Put, Refuse (only when full), Take, Renew |
| `Mpsc` | `silog_mpsc.c` | `writePos`, `readPos`, `seq`, `buffer` as in the struct; one action per atomic access, two per `memcpy_s`, all arithmetic modulo `WordSize`. `ticket`, `granted`, `accepted`, `delivered`, `refused` are history |
| `Heap`, `PQueue` | `silog_pqueue.c` | `Heap` has the sifts as pure operators, `PQueue` the calls; `FileManager` uses `Heap` too |
| `FileManager`, `MCFileManager` | `silog_file_manager.c` | the mutex holder (`pc`) steps through close, rename, scan, unlink; the compression thread (`tpc`) takes tasks in between; `gzips` are the gzip processes, which work by name and outlive the daemon; `current`, `unflushed`, `hist` are the disk. `unsaved`, `stuck`, `removed`, `seen` are history |
| `Ipc` | `silog_ipc.c`, server side and socket | a socket is named by the start of the daemon that bound it, so that a client can hold one that is gone |
| `Logger` | `silog_logger.c`, client side of `silog_ipc.c` | once-initialisation, log call, and the sender's send / reconnect / retry as separate steps |
| `Daemon` | `silog_daemon.c` | `mpc` steps through SilogDaemonInit and Deinit; `rpc`, `wpc`, `tpc` are the threads; `Die` is the end of the process |
| `LogSystem` | the two together | `Logger` and `Daemon` interleaved over `Ipc` |
| `Remote` | `silog_remote.c`, loop of `silog_cat.c` | table, descriptors reused lowest first, one TCP pipe per connection with a window; a frame is `FrameSize` cells; a viewer prints what its options let through |
| `Codec` | encoding and decoding of an entry in `silog_remote.c`, filters of `silog_cat.c` | pure operators; a number is its bits, a byte has `ByteBits` of them |
| `Exe` | `silog_exe.c` | `cmd` is each shell's place in its command; `proc`, `path`, `pidFile` are what the commands look at; `Interrupted` ends a command half way; `stray` is history: a daemon may have escaped the PID file |
| `Prelog` | `silog_prelog.c` | each function is one action, as it runs under one mutex; the line buffer is stack memory, anything at first; prefixes have any length up to beyond the buffer, and a stream may take only a part of a line. A prefix longer than the buffer is the last step (`overrun`): what the code does then is undefined |
| `Securec` | `silog_securec.c` | one operator per function, beside what it should compute |
| `WordArith` | | lemmas on `%` |
| `MpscProofs`, `MpscRefinement`, `DaemonProofs`, `PipelineProofs`, `RemoteProofs`, `CodecProofs`, `ExeProofs` | | the proofs |

In `Daemon` and `Logger` the MPSC queues are atomic sequences. `ImplementsFifo`
justifies this for the daemon's queue, which has one producer. The logger's queue has
any number of producers and is *not* covered (see `MpscOpenPushReturns`): `LogSystem`
speaks of an application whose log calls do not overlap.

`Exe` sees a daemon process from outside: starting, bound, serving, deaf (its socket
lost), gone. What happens within it is `Daemon`. PIDs are given out in turn, so a PID
that a command holds is not given to a new process before the command is over; between
commands any free PID can be used again.

## Runs

| Run | Shows |
|---|---|
| `MpscOrderly` | for orderly callers the ring is the FIFO of `BoundedFifo`, slots are never copied by two threads at a time, the compare-exchange succeeds at once, pushes return |
| `MpscOpen` | for all callers, also after a refusal has taken back another push's position: an element that is delivered is whole, was not refused, and comes in its producer's order |
| `MpscOpenPushReturns` (violation) | for all callers, `PushReturns` fails: a refused push takes back another push's position |
| `PQueue` | nothing is lost or doubled; heap order where one level of sifting is enough |
| `PQueueTop` (violation) | `Pop` may not give the greatest element |
| `FileManager` | accepted entries are kept, once, in order, within the size limit; history files are not replaced while a name is free; a crash loses less than `asyncFlushSize`; Deinit returns with an empty queue. The exceptions, which are what the code does not guard against, are listed below |
| `FileManagerOldest` (violation) | the files removed are not the oldest |
| `LogSystem` | order and accounting of entries from call to file; life times of what threads use; Deinit returns and leaves nothing; queued entries are written |
| `LogSystemRestart` (violation) | a logger that has failed to reconnect once never tries again |
| `Remote` | table, count and descriptors agree; a broadcast never sends to a stranger; where no send was cut, viewers print entries in order, filtered, and with the pid they were logged with (the time stamp only where the decoder undoes the encoder); a slow viewer does not hold up the writer |
| `Exe` | at most one daemon, named by the PID file, and nothing else is signalled, unless one of the mishaps below has happened; `stop` tells the truth; every command returns |
| `Prelog` | what a stream gets is made of the lines that were built, whole or cut, whatever was on the stack and whichever stream fails; the functions of `Securec` compute their references for all small arguments |

The mishaps of `Exe`, recorded in `stray`, are: a daemon started in the foreground, commands
that overlap, a `start` that gives up on a child that is alive or is killed before it has
written the PID file, a PID file that cannot be opened or written, a receive thread that ends right after its start, and a `stop` that gives up on a
daemon that is alive. A `stop` that finds everything gone clears the record.
The properties of `Exe` are therefore silent on two commands that overlap and on commands that
have given up; what they show is that no other history leads to an unrecorded daemon.

The exceptions of `FileManager`: what a failed `fflush` or `fwrite` drops is lost although
WriteRaw has returned or will return SILOG_OK (`unsaved`), and what it leaves in the
buffer is no longer counted (`stuck`); the remains of a short write are not counted in
the size of the file; the size properties need a `maxFileSize` that leaves room for an entry
below 2^32 (`SumsFit`); a history file is replaced when all names of its second are
taken; a gzip whose `.log` was unlinked or replaced under it unlinks the file that has taken the name
since (`overtaken`); and the order of names is that of local time.

A *violation* run states what a comment, a header or a test says, and its
counterexample shows that the code does otherwise; PROJECT.json quotes the line.
Findings without a run were read off the code or are the negation of a condition in a
property: that SilogDaemonInit returns SILOG_OK although a thread may have ended; that a
viewer decodes mixtures of entries after a cut send (`ShownInOrder` speaks only of
connections without one); that a time stamp is decoded wrongly (`TimestampSurvives` says when not);
that a full line buffer has no newline (`OutputIsLines` allows a line with and without);
the exceptions of `FileManager` above; and that a cut prefix is taken for a whole one.

### Bounds

* `Mpsc`: two producers, two slots, words modulo 4, three pushes each. Six positions
  pass a word that wraps at four and a ring that wraps at two, and a refusal, a
  grant and a pop can all overlap. The proofs cover every other size. The violation is
  shown with words that do not wrap, so it is the rollback and not the small word.
* `PQueue`: three keys, capacities 4 and 7, so that the heap has three levels; every
  sift may fail to allocate.
* `FileManager`: three calls with entries of 3, 4 and 4 bytes; a limit of 4 forces
  rotations, one of 10 with words modulo 11 makes the sum wrap; a flush threshold of 7 lets one
  entry stay in the buffer. Two seconds and two sequence numbers make names collide;
  one mishap of any kind (a failing call, a crash, local time put back). Three
  configurations (buffered with asynchronous gzip, direct with synchronous gzip, no
  rotation to speak of) and a setter. Two mishaps with more mixed configurations, 12.8
  million states, were run once without error; they take too long to be kept as a run.
* `LogSystem`: three entries, queues and socket of one place, two starts, one death,
  every failure. All queues can be full at the same time.
* `Remote`: two viewers, two slots, three connections, frames of two cells in a window
  of three, three entries, two inits: descriptors are reused and frames are cut. One
  viewer filters. Bytes of one bit are enough to tell the bytes of a number apart.
* `Exe`: two shells, two PIDs, four commands, two polls before a command gives up:
  two commands overlap, and the PID of a dead daemon that the PID file still names is
  given to another process before the next command.
* `Prelog`: arrays of up to four characters out of three, two lines between
  initialisations, two initialisations, one failure of a stream; prefixes shorter than
  the buffer, as long, and longer. The functions are tried on every array, size and position in range;
  the copying, appending and printing ones also with NULL, size 0 and sizes past the end.

`CHECK_DEADLOCK FALSE` is set where every bounded call may have been used up, after
which the system rests. `PQueue`, `Exe` and `Prelog` are checked for deadlock.

### Fairness

Threads that loop with bounded sleeps are scheduled: weak fairness of each producer's
begun push and of the polling consumer; of the compression thread, of the gzip processes,
which end, and of the join that waits for the thread; of the sender, receive, write and remote threads and of a Deinit that
has begun; of a broadcast that has begun (a send that fails although the viewer is there may
happen, but nothing relies on it); of a shell's command. Nobody has to log,
start, stop, connect, read, crash or obey a signal in time. Weak fairness is enough
everywhere, and no fairness is assumed between two threads that compete for an atomic.

## Proofs

`MpscProofs` has, for every set of producers, every `Capacity` and every
`WordSize` that `Capacity` divides and that is at least `2 * Capacity`:

* `TypeCorrect`: `Spec => []TypeOK`, with no restriction on the callers;
* for orderly callers and `Capacity >= 2`: `RingCorrect` (`[]RingInv`), `FifoCorrect`
  (`[]FifoDelivery`), `OverlapFree` (`[]NoOverlap`), `CasNeverRetries` (`[]CasSucceeds`).

FIFO delivery is not inductive: it needs to be known which sequence number each slot
has. `RingInv` says so. Counted without wrapping, the positions from head (delivered)
to tail (accepted) are inside; each is either owned by exactly one push that has not
published it, with the sequence number of its stage, or published, with its element in
its slot; the slots beyond the tail carry their own position; the consumer works on
the head, which nobody owns. Each action touches one position; that it leaves the
others alone rests on two facts from `WordArith`: positions less than `Capacity` apart
have different slots, and positions less than `WordSize` apart differ as words.
`Capacity >= 2` is needed: with one slot, "published" (`k + 1`) and "free again"
(`k + Capacity`) are the same number.

*Orderly* (operator `MayClaim`) means that a push which finds the ring full does not
overlap another push. The daemon's receive thread pushes alone, and the
compression queue is fed under the file manager's mutex.

`DaemonProofs` has, for all bounds and every set of failing calls,
`ThreadsUseLiveResources` (`[]ResourcesAlive`) and `DeinitReleasesEverything`
(`[]StoppedIsClean`). The inductive invariant `LifeInv` lists at which steps of
SilogDaemonInit and Deinit the queue, the file manager and the remote service exist,
which threads can run there, and when the socket is open; neither property follows
from itself, since both depend on where the controlling thread is.

`MpscRefinement` has `RingIsFifo`: under the assumptions of `MpscProofs` the ring
implements the safety part of `BoundedFifo`, with the accepted elements that are not yet
delivered as its queue. A push takes effect when it claims a position with room, a refused
one when it loads `readPos`, a pop when it advances `readPos`. Beside `RingInv` this
needs that the element of a push that has not taken effect is new to the queue.

`PipelineProofs` has `EntriesStayInOrder` (`[]PipelineOrder`) and
`EntriesAreAccountedFor` (`[]PipelineConserves`), for all bounds and failures. The
inductive invariant `FlowInv` has three parts: what a thread holds depends on where it
is, and a queue or socket that does not exist is empty (`Shape`); each stage is
increasing and before the next (`Order`); the stages, `unsent` and `discarded` together
are all entries logged (`Account`). The properties speak of one concatenated sequence,
which no step changes in one place only; the invariant speaks of each stage, and the
theorems put them together at the end. It uses `LifeInv` for the queue and the socket.

`RemoteProofs` has `TableAlwaysConsistent` (`[]TableConsistent`) and
`SendsToChosenClient` (`[]SendsToItsSlot`) for any number of slots, viewers, connections
and restarts. The broadcast works between two sections under the mutex; the
inductive invariant `IndInv` says that what it has captured is still that of its slot
because the accepting thread fills only free slots and descriptors stay open until
their owner closes them.

`CodecProofs` has `NumbersSurvive`, that pid, tid and line are decoded to what was
encoded, and `TimestampSurvives`, that a time stamp is so exactly when its bytes 2 to 6
are zero, both for bytes of any width.

`ExeProofs` has `PidFileNamesTheDaemon` (`[]OneDaemonRecorded`), `StopReportsTheTruth`
(`[]StopStops`) and `OnlyTheDaemonIsSignalled` (`[]AimsAtDaemon`) for any number of shells,
PIDs, commands and polls. `IndInv` adds to them, for a history without mishap, which
command can be at work on a daemon, what it holds, and what the PID file contains at
each of its steps.

Only model-checked: all liveness (fairness and ENABLED are outside the prover's reach),
`IntactDelivery` of `Mpsc`, the properties of `PQueue`, `FileManager` and `Prelog`, and of `Remote` what viewers show
(`ShownInOrder`, `ShownAsLogged`). What the sifts of `Heap` and the functions of `Securec`
compute is an induction over data, which stays with TLC.

## Not modelled

* Wording and layout: the text of an entry, of a line of `silog_cat`, and of the
  messages of the executable. The logger's level filter only decides which calls count
  as logging.
* `SetLogDir` and `SetLogFileBase`, which move the place of the files.
* `SilogDaemonRemoteInit` and `RemoteDeinit` called on their own by a program that
  embeds the daemon; an init of the remote service that fails is part of `Daemon`.
* In the IPC the bytes of a message and the refusal of one of the wrong size, and the
  table of transports, which has one member.
* The scanf functions of the bounded C library, which check for NULL and call libc.
* The monotonic clock, thread and process ids, error codes, platform macros: no state.
* A system clock that goes back (local time that is put back is modelled), a file system
  that loses flushed data, a stdio buffer that is written because it is full, and a gzip that
  is killed together with the daemon.
* An Init of the file manager while another thread is in the join of its Deinit; what else
  than returning or crashing `pthread_join` may do with a thread that was never created.
* In the write thread of the daemon an entry that cannot be formatted
  (`silog_daemon.c` 105-108), for which `snprintf_s` would have to fail on `%s` and `%d`.
* What follows a prelog prefix that is longer than the line buffer.
* In `Exe` a PID that is given to a new process while a command holds it (`Fresh`), and the
  entries that `test` sends.

## Plan

Done: the queue, the heap, the file manager, IPC with logger and daemon, the remote
service with viewer and codec, the executable, prelog with the bounded C library, and
the proofs above. What could follow:

1. the type and size invariants of `FileManager` as theorems;
2. `Exe` composed with `Daemon`, so that a daemon's states come from its threads;
3. `SetLogDir` and `SetLogFileBase`, with files in two places;
4. a logger whose calls overlap, over the ring itself and not over the FIFO.
