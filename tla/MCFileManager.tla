--------------------------- MODULE MCFileManager ---------------------------
(* Small instances of FileManager.                                         *)
EXTENDS FileManager

Buffered == [maxFileSize |-> 4, maxFileCount |-> 1, compress |-> TRUE,
             compressMode |-> "async", flushMode |-> "async",
             asyncFlushSize |-> 7, asyncFlushInterval |-> 1]

Direct == [Buffered EXCEPT !.maxFileCount = 2, !.compressMode = "sync", !.flushMode = "sync"]

\* A limit with which currentSize + len can pass the word.
Endless == [Buffered EXCEPT !.maxFileSize = WordSize - 1, !.compress = FALSE]

\* The last two entries are as long as a file may be.
MCLengths == <<3, 4, 4>>
MCConfigs == {Buffered, Direct, Endless}
MCSettings == {<<"flushMode", "async">>}
MCFaults == {"dir", "open", "queue", "thread", "rename", "write", "flush", "gzip"}

\* For the question which files are removed: no compression, nothing fails.
Plain == [Buffered EXCEPT !.compress = FALSE, !.flushMode = "sync"]
PlainConfigs == {Plain}
=============================================================================
