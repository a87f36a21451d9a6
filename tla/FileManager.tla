----------------------------- MODULE FileManager -----------------------------
(***************************************************************************)
(* The log file manager of silog_dae/src/silog_file_manager.c: the current *)
(* file and its stdio buffer, rotation into history files, compression in  *)
(* a thread of its own, removal of surplus history files, and what is left *)
(* on disk after a crash.                                                  *)
(*                                                                         *)
(* Callers are serialised by g_fileManager.lock; pc is the next step of    *)
(* the caller that holds it.  The compression thread takes no lock, and a  *)
(* gzip is a process of its own: it runs while a rotation lists and        *)
(* unlinks history files, and goes on when the daemon has died.            *)
(***************************************************************************)
EXTENDS Integers, Sequences, FiniteSets, FiniteSetsExt, SequencesExt, TLC

CONSTANTS Lengths,      \* bytes of the entry of each call of WriteRaw, in order
          Configs,      \* configurations a program may give to Init
          Settings,     \* <<field, value>> pairs given to the setters
          WordSize,     \* 2^32 in the code
          MaxTime,      \* bound: seconds the clock advances
          SeqTries,     \* MAX_SEQ_RETRY_COUNT
          HeapCapacity, \* MAX_LOG_FILE_COUNT
          QueueSize,    \* COMPRESS_QUEUE_SIZE
          Faults,       \* which calls to the system may fail
          MaxMishaps    \* bound: calls that fail, crashes, and local time put back

Entries == 1..Len(Lengths)
Fragment == 0            \* what a short write leaves in the file, one byte long here
None == [none |-> TRUE]  \* no file
BytesOf(e) == IF e = Fragment THEN 1 ELSE Lengths[e]
Bytes(data) == FoldLeft(LAMBDA n, e : n + BytesOf(e), 0, data)

\* What the sizes of the code count: whole entries, not the remains of others.
IsEntry(e) == e # Fragment
EntryBytes(data) == Bytes(SelectSeq(data, IsEntry))
EntriesOf(data) == Range(data) \ {Fragment}

\* The greatest value a configuration field ever takes.
Greatest(field) ==
    Max({c[field] : c \in Configs} \cup {s[2] : s \in {s \in Settings : s[1] = field}})

ASSUME FileManagerAssumption ==
    /\ \A e \in Entries : Lengths[e] \in Nat \ {0}
    /\ \A e \in Entries : Greatest("asyncFlushSize") + Lengths[e] <= WordSize
    /\ SeqTries \in Nat \ {0}
    /\ Faults \subseteq {"dir", "open", "queue", "thread", "rename", "write", "flush", "gzip"}

VARIABLES
    initialized, open,  \* open: currentFd # NULL
    currentSize, asyncBufferSize, lastFlush, config,
    given,              \* the argument of Init: a program passes the same every time
    running,            \* compressThreadRunning
    tasks,              \* compressQueue
    tpc,                \* the compression thread
    pc, pending,        \* the holder of the lock; the entry it will write
    target,             \* historyPath
    victims,            \* history files it will unlink
    joining,            \* Deinit waits for the compression thread
    \* outside the process
    current, unflushed, \* the current file, and its stdio buffer
    hist,               \* history files: name -> [data, mtime]
    gzips,              \* gzip processes: the file, how far, who waits for it
    now,                \* the clock; SilogGetNowMs has whole seconds
    back,               \* by how much the local time was put back
    \* History
    calls,              \* calls of WriteRaw and Rotate, at most Len(Lengths)
    accepted,           \* entries for which WriteRaw returned SILOG_OK
    removed,            \* entries in files that were unlinked or replaced
    unsaved,            \* entries a failed fflush dropped, or buffered at a crash
    stuck,              \* entries a failed fflush left at the front of unflushed
    limit,              \* the greatest maxFileSize in force so far
    seen,               \* the history files that were there when target was chosen
    mishaps             \* calls that failed, crashes, and times local time was put back

manager == <<initialized, open, currentSize, asyncBufferSize, lastFlush>>
setup == <<config, given>>
thread == <<running, tasks, tpc>>
stream == <<current, unflushed, unsaved, stuck>>
clock == <<now, back>>
lockHolder == <<pc, pending, target, seen, victims>>
bounds == <<limit, mishaps>>
vars == <<manager, setup, thread, lockHolder, joining, stream, hist, gzips, clock,
          calls, accepted, removed, bounds>>

EmptyFile == [data |-> << >>, mtime |-> now]
\* Fault: the date is left out of the name, and midnight is after second 0.
LogNameNoDate(k) == [sec |-> (now - back + 1) % 2, seq |-> k, gz |-> FALSE]

\* The time stamp of a name is local time.
LogName(k) == [sec |-> now - back, seq |-> k, gz |-> FALSE]
GzOf(n) == [n EXCEPT !.gz = TRUE]
Names == DOMAIN hist

Init ==
    /\ initialized = FALSE /\ open = FALSE
    /\ currentSize = 0 /\ asyncBufferSize = 0 /\ lastFlush = 0
    /\ config \in Configs /\ given = config
    /\ running = FALSE /\ tasks = << >> /\ tpc = "none"
    /\ pc = "idle" /\ pending = {} /\ target = None /\ seen = {} /\ victims = << >>
    /\ joining = FALSE
    /\ current = None /\ unflushed = << >> /\ now = 0 /\ back = 0
    /\ hist = << >> /\ gzips = {}
    /\ calls = 0 /\ accepted = {} /\ removed = {} /\ unsaved = {} /\ stuck = 0
    /\ limit = 0 /\ mishaps = 0

\* A call to the system fails.
Mishap == mishaps < MaxMishaps /\ mishaps' = mishaps + 1
Failing(call) == call \in Faults /\ Mishap

-----------------------------------------------------------------------------
(* Init, Deinit, setters.                                                  *)

\* fopen(path, "a") creates the file when it is not there.
Appendable == IF current = None THEN EmptyFile ELSE current

InitCalled ==
    /\ pc = "idle" /\ ~joining /\ ~initialized
    /\ config' = given /\ limit' = Max({limit, given.maxFileSize})
    /\ UNCHANGED given

InitFails ==
    /\ InitCalled
    /\ \/ /\ Failing("dir") \/ Failing("open")
          /\ UNCHANGED <<current, currentSize, running>>
       \/ /\ \/ Failing("queue") /\ UNCHANGED running
             \/ Failing("thread") /\ running' = TRUE  \* the flag is not reset
          /\ current' = Appendable
          /\ currentSize' = Bytes(Appendable.data) % WordSize
    /\ UNCHANGED <<initialized, open, asyncBufferSize, lastFlush, tasks, tpc, lockHolder,
                   joining, unflushed, unsaved, stuck, hist, gzips, clock,
                   calls, accepted, removed>>

\* Fault: the size of a file found on disk is not read.
InitIgnoresSize ==
    /\ InitCalled
    /\ current' = Appendable
    /\ currentSize' = 0
    /\ open' = TRUE /\ initialized' = TRUE
    /\ asyncBufferSize' = 0 /\ lastFlush' = now
    /\ running' = TRUE /\ tasks' = << >> /\ tpc' = "loop"
    /\ UNCHANGED <<lockHolder, joining, unflushed, unsaved, stuck, hist, gzips, clock,
                   calls, accepted, removed, mishaps>>

InitSucceeds ==
    /\ InitCalled
    /\ current' = Appendable
    /\ currentSize' = Bytes(Appendable.data) % WordSize
    /\ open' = TRUE /\ initialized' = TRUE
    /\ asyncBufferSize' = 0 /\ lastFlush' = now
    /\ running' = TRUE /\ tasks' = << >> /\ tpc' = "loop"
    /\ UNCHANGED <<lockHolder, joining, unflushed, unsaved, stuck, hist, gzips, clock,
                   calls, accepted, removed, mishaps>>

Set(field, value) ==
    /\ pc = "idle"
    /\ config[field] # value
    /\ config' = [config EXCEPT ![field] = value]
    /\ limit' = Max({limit, config'.maxFileSize})
    /\ UNCHANGED <<manager, given, thread, lockHolder, joining, stream, hist, gzips, clock,
                   calls, accepted, removed, mishaps>>

Written(data) ==
    IF data = << >> THEN current
    ELSE [data |-> current.data \o data, mtime |-> now]

\* fflush writes the buffer; when it fails, some entries of it, perhaps the
\* beginning of the next one, and rest stays behind.
FlushOutcomes(data) ==
    {[file |-> Written(data), rest |-> << >>, mishaps |-> mishaps]} \cup
    {[file |-> Written(SubSeq(data, 1, k) \o torn), rest |-> SubSeq(data, k + 1, Len(data)),
      mishaps |-> mishaps + 1] :
        k \in {k \in 0..(Len(data) - 1) : "flush" \in Faults /\ mishaps < MaxMishaps},
        torn \in {<< >>, <<Fragment>>}}

\* fflush(currentFd), whose result is not looked at.  The C library drops what
\* it could not write (glibc does) or keeps it in the buffer.
FlushStream(data) ==
    \E f \in FlushOutcomes(data), kept \in BOOLEAN :
        /\ kept => f.rest # << >>
        /\ current' = f.file /\ mishaps' = f.mishaps
        /\ unflushed' = IF kept THEN f.rest ELSE << >>
        /\ stuck' = Len(unflushed')
        /\ unsaved' = IF kept THEN unsaved ELSE unsaved \cup EntriesOf(f.rest)

\* fflush and fclose, whose results are not looked at, if the file is open.
CloseCurrent ==
    \E f \in FlushOutcomes(unflushed) :
        /\ open' = FALSE
        /\ current' = f.file /\ mishaps' = f.mishaps
        /\ unflushed' = << >> /\ stuck' = 0
        /\ unsaved' = unsaved \cup EntriesOf(f.rest)

\* Fault: the thread is not told to stop.
DeinitKeepsRunning ==
    /\ pc = "idle" /\ ~joining
    /\ CloseCurrent
    /\ initialized' = FALSE
    /\ joining' = (running /\ tpc # "none")
    /\ UNCHANGED <<currentSize, asyncBufferSize, lastFlush, setup, thread, lockHolder,
                   hist, gzips, clock, calls, accepted, removed, limit>>

\* After an Init that could not create the thread the flag is still set, and
\* pthread_join gets no thread: undefined, it returns here or is a Crash.
Deinit ==
    /\ pc = "idle" /\ ~joining
    /\ CloseCurrent
    /\ initialized' = FALSE
    /\ running' = FALSE
    /\ joining' = (running /\ tpc # "none")
    /\ UNCHANGED <<currentSize, asyncBufferSize, lastFlush, setup, tasks, tpc, lockHolder,
                   hist, gzips, clock, calls, accepted, removed, limit>>

Joined ==
    /\ joining /\ tpc = "exited"
    /\ joining' = FALSE
    /\ tpc' = "none" /\ tasks' = << >>
    /\ UNCHANGED <<manager, setup, running, lockHolder, stream, hist, gzips, clock,
                   calls, accepted, removed, bounds>>

Flush ==
    /\ pc = "idle" /\ open
    /\ FlushStream(unflushed)
    /\ asyncBufferSize' = 0 /\ lastFlush' = now
    /\ UNCHANGED <<initialized, open, currentSize, setup, thread, lockHolder, joining,
                   hist, gzips, clock, calls, accepted, removed, limit>>

-----------------------------------------------------------------------------
(* SilogFileManagerWriteRaw.                                               *)

Entry == calls + 1

CalledWith(e) ==
    /\ pc = "idle" /\ e \in Entries
    /\ calls' = e

WriteNotInit ==
    /\ CalledWith(Entry)
    /\ ~initialized \/ ~open
    /\ UNCHANGED <<manager, setup, thread, lockHolder, joining, stream, hist, gzips, clock,
                   accepted, removed, bounds>>

\* Fault: the length of the entry is left out.
NeedsRotationLate(e) == currentSize >= config.maxFileSize

NeedsRotation(e) == (currentSize + Lengths[e]) % WordSize >= config.maxFileSize

\* Fault: the threshold is off by one.
FlushDueLate(n) ==
    \/ config.flushMode = "sync"
    \/ n > config.asyncFlushSize
    \/ now - lastFlush >= config.asyncFlushInterval

\* Whether the buffered bytes, n with this entry, are flushed at once.
FlushDue(n) ==
    \/ config.flushMode = "sync"
    \/ n >= config.asyncFlushSize
    \/ now - lastFlush >= config.asyncFlushInterval

\* The part of WriteRaw after the rotation.
AppendEntry(e) ==
    /\ LET n == (asyncBufferSize + Lengths[e]) % WordSize
           data == Append(unflushed, e)
       IN  /\ currentSize' = (currentSize + Lengths[e]) % WordSize
           /\ IF FlushDue(n)
              THEN /\ FlushStream(data)
                   /\ asyncBufferSize' = 0
                   /\ lastFlush' = IF config.flushMode = "sync" THEN lastFlush ELSE now
              ELSE /\ unflushed' = data
                   /\ asyncBufferSize' = n
                   /\ UNCHANGED <<current, unsaved, stuck, lastFlush, mishaps>>
    /\ accepted' = accepted \cup {e}

\* fwrite writes less than asked, SILOG_FILE_WRITE: the write to the disk that
\* it ran into failed, so the library may drop what was buffered before.
AppendShort ==
    /\ Failing("write")
    /\ \E kept \in BOOLEAN :
          /\ unflushed' = Append(IF kept THEN unflushed ELSE << >>, Fragment)
          /\ stuck' = IF kept THEN stuck ELSE 0
          /\ unsaved' = IF kept THEN unsaved ELSE unsaved \cup EntriesOf(unflushed)
    /\ UNCHANGED <<current, currentSize, asyncBufferSize, lastFlush, accepted>>

WriteFits ==
    /\ CalledWith(Entry)
    /\ initialized /\ open /\ ~NeedsRotation(Entry)
    /\ AppendEntry(Entry) \/ AppendShort
    /\ UNCHANGED <<initialized, open, setup, thread, lockHolder, joining, hist, gzips, clock,
                   removed, limit>>

-----------------------------------------------------------------------------
(* SilogFileManagerRotateInternal, for WriteRaw and for Rotate.            *)

\* Fault: it is not looked whether the name is taken.
HistoryNameUnchecked == LogName(0)

\* The first free name of this second; the last one tried when none is free.
HistoryName ==
    LET free == {k \in 0..(SeqTries - 1) : LogName(k) \notin Names}
    IN  LogName(IF free = {} THEN SeqTries - 1 ELSE Min(free))

\* The name is chosen and the current file closed.
RotateBegins ==
    /\ target' = HistoryName /\ seen' = Names
    /\ CloseCurrent
    /\ pc' = "rename"
    /\ UNCHANGED <<initialized, currentSize, asyncBufferSize, lastFlush, setup, thread,
                   victims, joining, hist, gzips, clock, accepted, removed, limit>>

WriteRotates ==
    /\ CalledWith(Entry)
    /\ initialized /\ open /\ NeedsRotation(Entry)
    /\ pending' = {Entry}
    /\ RotateBegins

Rotate ==
    /\ CalledWith(Entry)
    /\ initialized
    /\ pending' = {}
    /\ RotateBegins

\* gzip goes on without noticing when its .gz is unlinked, or when its .log is
\* unlinked or replaced.
Touched(n) ==
    {[g EXCEPT !.linked = @ /\ GzOf(g.name) # n, !.overtaken = @ \/ g.name = n] : g \in gzips}

EntriesIn(names) == UNION {EntriesOf(hist[n].data) : n \in names \cap Names}

\* rename(currentPath, historyPath), which replaces a file of that name.
Rename ==
    /\ pc = "rename" /\ current # None
    /\ removed' = removed \cup EntriesIn({target})
    /\ target' = None /\ seen' = {}

Renamed == (target :> current) @@ hist

\* gzip takes a file that exists and never writes over an existing .gz.
CanGzip(n, files) == n \in DOMAIN files /\ GzOf(n) \notin DOMAIN files

\* gzip opens the .log and creates the .gz; who is the one waiting for it.
GzipBegins(n, files, others, who) ==
    /\ CanGzip(n, files)
    /\ hist' = files @@ (GzOf(n) :> EmptyFile)
    /\ gzips' = others \cup {[name |-> n, file |-> files[n], linked |-> TRUE,
                              overtaken |-> FALSE, filled |-> FALSE, for |-> who]}

\* SilogFileManagerCompressFile for the file that was just rotated away.
Compress(n, files) ==
    \/ /\ ~config.compress \/ (config.compressMode = "async" /\ Len(tasks) = QueueSize)
       /\ pc' = "scan"
       /\ hist' = files /\ gzips' = Touched(n) /\ UNCHANGED <<tasks, mishaps>>
    \/ /\ config.compress /\ config.compressMode = "async" /\ Len(tasks) < QueueSize
       /\ tasks' = Append(tasks, n) /\ pc' = "scan"
       /\ hist' = files /\ gzips' = Touched(n) /\ UNCHANGED mishaps
    \/ /\ config.compress /\ config.compressMode = "sync"
       /\ \/ /\ Failing("gzip") \/ (~CanGzip(n, files) /\ UNCHANGED mishaps)
             /\ pc' = "scan"
             /\ hist' = files /\ gzips' = Touched(n)
          \/ /\ GzipBegins(n, files, Touched(n), "caller")
             /\ pc' = "gzip"
             /\ UNCHANGED mishaps
       /\ UNCHANGED tasks

RotateSucceeds ==
    /\ Rename
    /\ open' = TRUE /\ current' = EmptyFile
    /\ currentSize' = 0 /\ asyncBufferSize' = 0
    /\ Compress(target, Renamed)
    /\ UNCHANGED <<initialized, lastFlush, setup, running, tpc, pending, victims, joining,
                   unflushed, unsaved, stuck, clock, calls, accepted, limit>>

\* The caller of a failed rotation returns the error; WriteRaw drops its entry.
RotationFailed ==
    /\ pc' = "idle" /\ pending' = {} /\ target' = None /\ seen' = {}
    /\ UNCHANGED <<initialized, currentSize, asyncBufferSize, lastFlush, setup, thread,
                   victims, joining, unflushed, unsaved, stuck, clock,
                   calls, accepted, limit>>

\* The file was renamed, but the new one cannot be opened.
RotateNoNewFile ==
    /\ Rename
    /\ Failing("open")
    /\ open' = FALSE /\ current' = None
    /\ hist' = Renamed /\ gzips' = Touched(target)
    /\ RotationFailed

\* Fault: the file is opened with "w" instead of "a".
RotateNoRenameTruncates ==
    /\ pc = "rename"
    /\ \/ open' = TRUE /\ current' = EmptyFile /\ (Failing("rename") \/ (current = None /\ UNCHANGED mishaps))
       \/ open' = FALSE /\ UNCHANGED current /\ Failing("open")
    /\ UNCHANGED <<hist, gzips, removed>>
    /\ RotationFailed

\* Every attempt to rename failed, if only because there is no file; the file
\* is opened again, or cannot be.
RotateNoRename ==
    /\ pc = "rename"
    /\ \/ open' = TRUE /\ current' = Appendable
          /\ (Failing("rename") \/ (current = None /\ UNCHANGED mishaps))
       \/ open' = FALSE /\ UNCHANGED current /\ Failing("open")
    /\ UNCHANGED <<hist, gzips, removed>>
    /\ RotationFailed

-----------------------------------------------------------------------------
(* SilogFileManagerCleanOldFiles.                                          *)

\* "a is older, so of higher priority": but Heap puts the greater element on
\* top, and a result of -1 keeps the older file below.
OldestFileCompare(a, b) ==
    IF a.mtime < b.mtime THEN -1 ELSE IF a.mtime > b.mtime THEN 1 ELSE 0

H == INSTANCE Heap WITH Compare <- OldestFileCompare

\* The heap after pushing the files in the order of scandir; when it is full
\* the remaining files are not looked at.
FileHeap(order) ==
    FoldLeft(LAMBDA b, n : H!Inserted(b, [path |-> n, mtime |-> hist[n].mtime], TRUE),
             [i \in {} |-> None],
             SubSeq(order, 1, Min({Len(order), HeapCapacity})))

\* What is popped while more than maxFileCount files are in the heap.
Victims(order) ==
    LET heap == FileHeap(order)
        surplus == Max({0, H!Size(heap) - config.maxFileCount})
        Left[k \in 0..surplus] == IF k = 0 THEN heap ELSE H!Removed(Left[k - 1], TRUE)
    IN  [k \in 1..surplus |-> Left[k - 1][0].path]

\* scandir lists the directory in any order, or fails: nothing is removed.
Scan ==
    /\ pc = "scan"
    /\ \/ (\E order \in SetToSeqs(Names) : victims' = Victims(order)) /\ UNCHANGED mishaps
       \/ Failing("dir") /\ victims' = << >>
    /\ pc' = "unlink"
    /\ UNCHANGED <<manager, setup, thread, pending, target, seen, joining, stream, hist, gzips, clock,
                   calls, accepted, removed, limit>>

\* A victim that gzip has replaced meanwhile is not found, which is ignored.
Unlink ==
    /\ pc = "unlink" /\ victims # << >>
    /\ hist' = [n \in Names \ {Head(victims)} |-> hist[n]]
    /\ gzips' = Touched(Head(victims))
    /\ removed' = removed \cup EntriesIn({Head(victims)})
    /\ victims' = Tail(victims)
    /\ UNCHANGED <<manager, setup, thread, pc, pending, target, seen, joining, stream, clock,
                   calls, accepted, bounds>>

\* The rotation is over: Rotate returns, WriteRaw goes on to write.
RotateReturns ==
    /\ pc = "unlink" /\ victims = << >> /\ pending = {}
    /\ pc' = "idle"
    /\ UNCHANGED <<manager, setup, thread, pending, target, seen, victims, joining, stream, hist,
                   gzips, clock, calls, accepted, removed, bounds>>

WriteAfterRotate ==
    /\ pc = "unlink" /\ victims = << >> /\ pending # {}
    /\ \E e \in pending : AppendEntry(e) \/ AppendShort
    /\ pc' = "idle" /\ pending' = {}
    /\ UNCHANGED <<initialized, open, setup, thread, target, seen, victims, joining, hist, gzips,
                   clock, calls, removed, limit>>

-----------------------------------------------------------------------------
(* The compression thread.                                                 *)

TaskTaken == tpc = "loop" /\ tasks # << >> /\ tasks' = Tail(tasks)

TaskFails ==
    /\ TaskTaken
    /\ Failing("gzip") \/ (~CanGzip(Head(tasks), hist) /\ UNCHANGED mishaps)
    /\ UNCHANGED <<manager, setup, running, tpc, lockHolder, joining, stream, hist, gzips,
                   clock, calls, accepted, removed, limit>>

GzipStarts ==
    /\ TaskTaken
    /\ GzipBegins(Head(tasks), hist, gzips, "thread")
    /\ tpc' = "gzip"
    /\ UNCHANGED <<manager, setup, running, lockHolder, joining, stream, clock,
                   calls, accepted, removed, bounds>>

\* Fault: the rest of the queue is not worked off.
ThreadExitsAtOnce ==
    /\ tpc = "loop" /\ ~running
    /\ tpc' = "exited"
    /\ UNCHANGED <<manager, setup, running, tasks, lockHolder, joining, stream, hist, gzips,
                   clock, calls, accepted, removed, bounds>>

ThreadExits ==
    /\ tpc = "loop" /\ ~running /\ tasks = << >>
    /\ tpc' = "exited"
    /\ UNCHANGED <<manager, setup, running, tasks, lockHolder, joining, stream, hist, gzips,
                   clock, calls, accepted, removed, bounds>>

-----------------------------------------------------------------------------
(* A gzip process, as far as system("gzip ...") relies on it: it fills the *)
(* .gz it created, then unlinks the .log by its name, even if another file *)
(* is there by now; when it fails half way it removes the .gz.             *)

GzipFills(g) ==
    /\ ~g.filled
    /\ gzips' = (gzips \ {g}) \cup {[g EXCEPT !.filled = TRUE]}
    /\ hist' = IF g.linked THEN [hist EXCEPT ![GzOf(g.name)] = g.file] ELSE hist
    /\ UNCHANGED <<manager, setup, thread, lockHolder, joining, stream, clock,
                   calls, accepted, removed, bounds>>

\* system() returns to the one who waits for g.
GzipReturns(g) ==
    /\ tpc' = IF g.for = "thread" THEN "loop" ELSE tpc
    /\ pc' = IF g.for = "caller" THEN "scan" ELSE pc
    /\ UNCHANGED <<manager, setup, running, tasks, pending, target, seen, victims, joining, stream,
                   clock, calls, accepted, limit>>

\* Fault: gzip is called with -k and keeps the .log.
GzipEndsKeeping(g) ==
    /\ g.filled
    /\ gzips' = gzips \ {g}
    /\ UNCHANGED <<hist, removed, mishaps>>
    /\ GzipReturns(g)

GzipEnds(g) ==
    /\ g.filled
    /\ gzips' = gzips \ {g}
    /\ hist' = [n \in Names \ {g.name} |-> hist[n]]
    /\ removed' = removed \cup (EntriesIn({g.name}) \ EntriesIn({GzOf(g.name)}))
    /\ UNCHANGED mishaps
    /\ GzipReturns(g)

GzipGivesUp(g) ==
    /\ ~g.filled /\ Failing("gzip")
    /\ gzips' = Touched(GzOf(g.name)) \ {[g EXCEPT !.linked = FALSE]}
    /\ hist' = [n \in Names \ {GzOf(g.name)} |-> hist[n]]
    /\ removed' = removed \cup EntriesIn({GzOf(g.name)})
    /\ GzipReturns(g)

-----------------------------------------------------------------------------
Tick ==
    /\ now < MaxTime
    /\ now' = now + 1
    /\ UNCHANGED <<manager, setup, thread, lockHolder, joining, stream, hist, gzips, back,
                   calls, accepted, removed, bounds>>

\* Summer time ends, or the zone changes: local time repeats some seconds.
FallBack ==
    /\ back < now /\ Mishap
    /\ back' = back + 1
    /\ UNCHANGED <<manager, setup, thread, lockHolder, joining, stream, hist, gzips, now,
                   calls, accepted, removed, limit>>

\* The process ends without warning; the files and the gzip processes stay.
Crash ==
    /\ Mishap
    /\ initialized' = FALSE /\ open' = FALSE
    /\ currentSize' = 0 /\ asyncBufferSize' = 0 /\ lastFlush' = 0
    /\ running' = FALSE /\ tasks' = << >> /\ tpc' = "none"
    /\ pc' = "idle" /\ pending' = {} /\ target' = None /\ seen' = {} /\ victims' = << >> /\ joining' = FALSE
    /\ unflushed' = << >> /\ stuck' = 0
    /\ unsaved' = unsaved \cup EntriesOf(unflushed)
    /\ gzips' = {[g EXCEPT !.for = "nobody"] : g \in gzips}
    /\ UNCHANGED <<setup, current, hist, clock, calls, accepted, removed, limit>>

LockHolderStep ==
    \/ RotateSucceeds \/ RotateNoNewFile \/ RotateNoRename
    \/ Scan \/ Unlink \/ RotateReturns \/ WriteAfterRotate

ThreadStep == TaskFails \/ GzipStarts \/ ThreadExits

GzipStep == \E g \in gzips : GzipFills(g) \/ GzipEnds(g) \/ GzipGivesUp(g)

Next ==
    \/ InitFails \/ InitSucceeds
    \/ \E s \in Settings : Set(s[1], s[2])
    \/ Deinit \/ Joined \/ Flush
    \/ WriteNotInit \/ WriteFits \/ WriteRotates \/ Rotate
    \/ LockHolderStep
    \/ ThreadStep
    \/ GzipStep
    \/ Tick \/ FallBack \/ Crash

\* The compression thread runs, gzip ends, and pthread_join returns.
\* Nothing forces a call.
Fairness == WF_vars(ThreadStep) /\ WF_vars(GzipStep) /\ WF_vars(Joined)

Spec == Init /\ [][Next]_vars
LiveSpec == Spec /\ Fairness
-----------------------------------------------------------------------------
(* Properties.                                                             *)

FilesWith(e) == {n \in Names : e \in Range(hist[n].data)}
InCurrent(e) == (current # None /\ e \in Range(current.data)) \/ e \in Range(unflushed)

\* An entry for which WriteRaw returned SILOG_OK is in the current file, in
\* its buffer or in a history file, unless that file was unlinked or replaced
\* (see HistoryKept), or the entry was still in the buffer when the process
\* died or a write of the buffer failed, which fflush reports and the code
\* does not look at.  In particular no failure of rename, fopen, gzip or
\* pthread_create, and no Deinit, loses one (silog_file_manager.c 287-357,
\* 474-501).
Accounted ==
    \A e \in accepted \ (removed \cup unsaved) : InCurrent(e) \/ FilesWith(e) # {}

\* A history file stays as it is until CleanOldFiles unlinks it, or gzip has
\* stored all of it in the .gz.  A rotation replaces one only when all the
\* names of that second were taken (lines 296-315): not after a restart, and
\* not when local time runs through the same second again.  gzip unlinks a
\* file it has not stored only when the one it did store was unlinked or
\* replaced under it and a later rotation of that second took the name.
HistoryKept ==
    [][\A n \in Names :
          \/ n \in DOMAIN hist' /\ hist'[n].data = hist[n].data
          \/ pc = "unlink" /\ victims # << >> /\ n = Head(victims)
          \/ \E g \in gzips : ~g.filled /\ n = GzOf(g.name)
          \/ \E g \in gzips : g.filled /\ n = g.name /\ (g.overtaken \/ hist[n].data = g.file.data)
          \/ pc = "rename" /\ \A k \in 0..(SeqTries - 1) : [n EXCEPT !.seq = k] \in seen]_vars

\* No entry is stored twice: rotation moves a file, the entry written after a
\* rotation is not also in the file rotated away, and a .log stands beside its
\* .gz only while gzip is about to unlink it, also when the daemon that
\* started gzip has died.
StoredOnce ==
    \A e \in accepted :
        /\ InCurrent(e) => FilesWith(e) = {}
        /\ \A m, n \in FilesWith(e) :
              m = n \/ \E g \in gzips : g.filled /\ {m, n} = {g.name, GzOf(g.name)}

\* In asynchronous mode a crash loses less than asyncFlushSize bytes: between
\* calls asyncBufferSize covers what is only in the stdio buffer and stays
\* below the threshold, also after failed rotations and changes of mode.
\* What a failed fflush left in the buffer comes on top, since the counter is
\* set to 0 all the same (lines 643-653, 682).
CrashWindow ==
    (open /\ pc = "idle") =>
        /\ EntryBytes(SubSeq(unflushed, stuck + 1, Len(unflushed))) <= asyncBufferSize
        /\ asyncBufferSize < Greatest("asyncFlushSize")

\* The sum currentSize + len of line 623 stays below 2^32 for every entry and
\* file, with a byte for each failed write that left remains.
SumsFit ==
    LET longest == Max(Range(Lengths))
    IN  Max({limit - 1, longest}) + longest + MaxMishaps < WordSize

\* currentSize never falls behind the whole entries of the current file,
\* whichever way the file was opened (new, found on disk by Init, or opened
\* again after a failed rotation), while maxFileSize leaves room for an entry
\* below 2^32.  The remains of a failed write come on top: they are counted
\* only when Init finds them on disk.
SizeTracked ==
    (open /\ SumsFit) => EntryBytes(current.data \o unflushed) <= currentSize

\* The whole entries of a file stay below the greatest maxFileSize there was,
\* unless it has just one; with the same exceptions.
FileBound(data) == EntryBytes(data) < limit \/ Cardinality(EntriesOf(data)) <= 1

SizeBound ==
    SumsFit =>
        /\ \A n \in Names : FileBound(hist[n].data)
        /\ open => FileBound(current.data \o unflushed)

\* The time stamps in the names of history files order their entries, also
\* across a restart and after compression, as long as local time, which the
\* names are made of, does not go back (lines 123-136).
Chronology ==
    back = 0 =>
        \A m, n \in Names : m.sec < n.sec =>
            \A d \in EntriesOf(hist[m].data), e \in EntriesOf(hist[n].data) : d < e

\* The compression thread ends only when no task is left, and none is queued
\* after that: Deinit destroys an empty queue.
Drained == tpc \in {"none", "exited"} => tasks = << >>

\* Deinit returns: the compression thread sees the flag, works off its queue
\* and ends.
DeinitReturns == joining ~> ~joining

\* README.md and the comments of CleanOldFiles: the files removed are the
\* oldest ones.  OldestFileCompare has the opposite sign.
OldestFirst ==
    [][(pc = "scan" /\ pc' = "unlink") =>
          \A v \in Range(victims'), n \in Names \ Range(victims') :
              hist[v].mtime <= hist[n].mtime]_vars
=============================================================================
