-------------------------------- MODULE Prelog --------------------------------
(***************************************************************************)
(* SiLog's own diagnostics, silog_comm/src/silog_prelog.c.  Every function *)
(* runs under one mutex from its first look at the state to its last, so   *)
(* each is one step, whichever thread calls it.                            *)
(*                                                                         *)
(* A line is put together in a buffer of MaxArray characters on the stack  *)
(* with the functions of the bounded C library.  The buffer is not cleared *)
(* first: buf is what earlier calls have left there, at the beginning      *)
(* anything.  Lines go to the file and to stdout through fputs and fflush, *)
(* whose results the code does not look at: either may get only a part of  *)
(* the line out.                                                           *)
(***************************************************************************)
EXTENDS Securec

CONSTANTS MaxLines,      \* bound: lines accepted
          MaxOpens,      \* bound: initialisations
          MaxFailures    \* bound: writes to a stream that fail

ASSUME PrelogAssumption ==
    MaxLines \in Nat /\ MaxOpens \in Nat /\ MaxFailures \in Nat /\ MaxArray >= 3 /\ MaxChar >= 3

VARIABLES initialized,
          config,        \* minLevel and enableStdout
          fileOpen,
          file,          \* content of the open file
          screen,        \* what has gone to stdout since the initialisation
          buf,           \* the memory of SilogPrelogWriteV's line buffer
          overrun,       \* has a prefix passed the buffer's end?
          opens,         \* number of initialisations
          failures,      \* number of failed writes to a stream
          lines          \* history: the lines accepted since the initialisation,
                         \* and the streams that failed to take them

vars == <<initialized, config, fileOpen, file, screen, buf, overrun, opens, failures, lines>>

Levels == 0..1
Newline == MaxChar
Text(c, n) == [i \in 1..n |-> c]
\* "[errno] [module] [LEVEL] ": short, leaving no room or next to none, and too
\* long.  In this and in Messages NULL is what can not be formatted.
LinePrefixes == {Text(1, n) : n \in {1, MaxArray - 1, MaxArray, MaxArray + 1}} \cup {NULL}
Messages == {Text(2, n) : n \in 0..(MaxArray - 1)} \cup {NULL}
Configs == [minLevel : Levels, enableStdout : BOOLEAN]

Init ==
    /\ initialized = FALSE /\ fileOpen = FALSE
    /\ config = [minLevel |-> 0, enableStdout |-> FALSE]
    /\ file = <<>> /\ screen = <<>>
    /\ buf \in Arrays /\ overrun = FALSE
    /\ opens = 0 /\ failures = 0 /\ lines = <<>>

\* A second call changes nothing.  The default configuration is one of
\* Configs.  fopen empties the file, or fails; then stdout takes its place.
SilogPrelogInit ==
    /\ ~initialized /\ ~overrun /\ opens < MaxOpens
    /\ fileOpen' \in BOOLEAN
    /\ \E c \in Configs :
           config' = [c EXCEPT !.enableStdout = c.enableStdout \/ ~fileOpen']
    /\ initialized' = TRUE
    /\ opens' = opens + 1
    /\ UNCHANGED <<file, screen, buf, overrun, failures, lines>>

SilogPrelogDeinit ==
    /\ initialized /\ ~overrun
    /\ fileOpen' = FALSE
    /\ initialized' = FALSE
    /\ file' = <<>> /\ screen' = <<>> /\ lines' = <<>>
    /\ UNCHANGED <<config, buf, overrun, opens, failures>>

\* The prefix is put in the buffer; a prefix that can not be formatted is left
\* out.  ret is the length of the whole prefix, also of one that was cut.
PutPrefix(memory, prefix) ==
    LET r == snprintf_s(memory, MaxArray, MaxArray - 1, prefix)
    IN  IF r.ret < 0 THEN Result(0, Emptied(r.dest)) ELSE r

\* Fault: the message is put behind the buffer's old content.
BuildLineStale(memory, prefix, text) ==
    strncat_s(strncat_s(memory, MaxArray, text \o <<Nul>>, MaxArray).dest,
              MaxArray, <<Newline, Nul>>, 1).dest

\* The buffer after the prefix, the message and the newline have been put in.
\* vsnprintf writes nothing, not even a Nul, when it is given no room.
BuildLine(memory, prefix, text) ==
    LET prefixed == PutPrefix(memory, prefix)
        n == prefixed.ret
        printed == IF n >= MaxArray THEN prefixed.dest
                   ELSE PutString(prefixed.dest, n, Take(text, MaxArray - n - 1))
    IN  strncat_s(printed, MaxArray, <<Newline, Nul>>, 1).dest

\* SilogPrelogWriteV past its first checks
Admitted(level) == initialized /\ level >= config.minLevel

\* The prefix is longer than the buffer, and the message is printed behind the
\* buffer into a size that has wrapped round.
PassesBuffer(prefix) == prefix # NULL /\ Len(prefix) > MaxArray

\* fputs and fflush: the whole line gets out, or part of it, or nothing
Puts(output, line) == {output \o Take(line, n) : n \in {0, 1, Len(line)}}

SilogPrelogWrite(level, prefix, text) ==
    /\ Admitted(level) /\ text # NULL /\ ~PassesBuffer(prefix)
    /\ ~overrun /\ Len(lines) < MaxLines
    /\ buf' = BuildLine(buf, prefix, text)
    /\ file' \in IF fileOpen THEN Puts(file, String(buf')) ELSE {file}
    /\ screen' \in IF config.enableStdout THEN Puts(screen, String(buf')) ELSE {screen}
    /\ LET failed == {stream \in {"file", "stdout"} :
                        IF stream = "file" THEN fileOpen /\ file' # file \o String(buf')
                        ELSE config.enableStdout /\ screen' # screen \o String(buf')}
       IN  /\ failures' = failures + Cardinality(failed)
           /\ lines' = Append(lines, [full |-> (IF prefix = NULL THEN <<>> ELSE prefix) \o text,
                                      failed |-> failed])
    /\ failures' <= MaxFailures
    /\ UNCHANGED <<initialized, config, fileOpen, overrun, opens>>

\* Not initialised, below minLevel, or a message that vsnprintf refuses, which
\* leaves the prefix in the buffer
SilogPrelogWriteRefused(level, prefix, text) ==
    /\ ~overrun
    /\ Admitted(level) => text = NULL /\ ~PassesBuffer(prefix)
    /\ buf' = IF Admitted(level) THEN PutPrefix(buf, prefix).dest ELSE buf
    /\ UNCHANGED <<initialized, config, fileOpen, file, screen, overrun, opens, failures, lines>>

\* Undefined: the model does not follow the program any further.
SilogPrelogWriteOverruns(level, prefix) ==
    /\ Admitted(level) /\ PassesBuffer(prefix)
    /\ ~overrun
    /\ overrun' = TRUE
    /\ UNCHANGED <<initialized, config, fileOpen, file, screen, buf, opens, failures, lines>>

Overrun == overrun /\ UNCHANGED vars

Next ==
    \/ SilogPrelogInit
    \/ SilogPrelogDeinit
    \/ \E level \in Levels, prefix \in LinePrefixes, text \in Messages :
           \/ SilogPrelogWrite(level, prefix, text)
           \/ SilogPrelogWriteRefused(level, prefix, text)
    \/ \E level \in Levels, prefix \in LinePrefixes : SilogPrelogWriteOverruns(level, prefix)
    \/ Overrun

Spec == Init /\ [][Next]_vars

-----------------------------------------------------------------------------
(* Properties.                                                             *)

\* What an accepted line may become.  One that fits is all there.  One that
\* does not is cut to the buffer, the newline being the end of what is cut off
\* or taking the place of one more character.  A stream that failed has the
\* beginning of it.
Shapes(line, stream) ==
    LET whole == Append(line.full, Newline)
        cuts == IF Len(whole) < MaxArray THEN {whole}
                ELSE {Take(whole, MaxArray - 1), Append(Take(line.full, MaxArray - 2), Newline)}
    IN  IF stream \notin line.failed THEN cuts
        ELSE {Take(cut, n) : cut \in cuts, n \in 0..MaxArray}

\* What a stream may hold when it has been given all the lines
Outputs(stream) ==
    FoldLeft(LAMBDA outputs, line : {o \o s : o \in outputs, s \in Shapes(line, stream)},
             {<<>>}, lines)

\* Every line that SilogPrelogWriteV accepts goes to the file, to stdout or to
\* both: a file that can not be opened never swallows it, one stream's failure
\* does not keep it from the other, and what arrives is the lines in order, as
\* far as the buffer goes, with nothing of what was in the buffer before, however
\* long prefix and message are and whether or not the prefix could be formatted.
OutputIsLines ==
    initialized /\ ~overrun =>
        /\ fileOpen \/ config.enableStdout
        /\ fileOpen => file \in Outputs("file")
        /\ config.enableStdout => screen \in Outputs("stdout")

\* memcpy_s, memmove_s and memset_s write exactly what they should, on whatever
\* the memory holds and however source and target overlap.  (In this and the
\* following properties the memory is the buffer before its first use, when it
\* holds anything.)
MemoryMovesExactly == opens = 0 => MovesExact(buf)

\* strcpy_s, strncpy_s, strcat_s, strncat_s, sprintf_s and snprintf_s deliver
\* all that fits, or nothing, never write behind the size they are given, leave
\* a string that ends within it, and answer what they have done, also for null
\* pointers and a size of 0.
StringsCopyExactly == opens = 0 => CopiesExact(buf) /\ AppendsExact(buf) /\ FormatsExact(buf)

\* strcmp_s orders strings and strncmp_s their beginnings, strchr_s and
\* strrchr_s find the first and the last character, strstr_s finds the first
\* occurrence, also at the string's end, within whatever size they are given.
SearchesFindFirst == opens = 0 => ComparesExact(buf) /\ SearchesExact(buf)

\* A loop over strtok_s splits whatever string the memory holds into its
\* pieces, each once and in order.
TokensSplitExactly == opens = 0 => TokensExact(buf)
=============================================================================
