------------------------------- MODULE Securec -------------------------------
(***************************************************************************)
(* The bounded C library of silog_comm/src/silog_securec.c: each function  *)
(* as an operator from its arguments to its result and the memory it       *)
(* leaves, and what it should compute, for all small arguments.            *)
(*                                                                         *)
(* A char array is a sequence of characters, Nul among them; a string is   *)
(* the part in front of the first Nul.  An array may be longer than the    *)
(* size the caller names, so that a write behind it would show.  memcpy_s  *)
(* and memmove_s, which may be called on overlapping memory, work on       *)
(* addresses of one memory.                                                *)
(***************************************************************************)
EXTENDS Integers, Sequences, SequencesExt, FiniteSetsExt

CONSTANTS NULL,        \* the null pointer
          MaxChar,     \* characters are 0 .. MaxChar
          MaxArray     \* bound: size of the arrays that are tried

ASSUME SecurecAssumption == MaxChar \in Nat /\ MaxArray \in Nat \ {0}

Nul == 0

\* libc
strnlen(str, n) ==
    LET ends == {i \in 1..Len(str) : i <= n /\ str[i] = Nul}
    IN  IF ends = {} THEN n ELSE Min(ends) - 1

strlen(str) == strnlen(str, Len(str))

Put(dest, at, src, n) ==
    [i \in DOMAIN dest |-> IF i \in (at + 1)..(at + n) THEN src[i - at] ELSE dest[i]]

String(array) == SubSeq(array, 1, strlen(array))
PutString(dest, at, s) == Put(dest, at, s \o <<Nul>>, Len(s) + 1)

Result(ret, dest) == [ret |-> ret, dest |-> dest]

-----------------------------------------------------------------------------
(* Memory.  Address 0 is the null pointer.                                 *)

Region(a, n) == a..(a + n - 1)

memmove(mem, dest, src, n) ==
    [a \in DOMAIN mem |-> IF a \in Region(dest, n) THEN mem[src + a - dest] ELSE mem[a]]

\* memcpy on overlapping memory: upwards or downwards, as the library likes.
CopyBytes(mem, dest, src, order) ==
    FoldLeft(LAMBDA m, k : [m EXCEPT ![dest + k] = m[src + k]], mem, order)

memcpy(mem, dest, src, n) ==
    LET up == [k \in 1..n |-> k - 1]
    IN  {CopyBytes(mem, dest, src, up), CopyBytes(mem, dest, src, Reverse(up))}

memset_s(mem, dest, destMax, c, count) ==
    IF dest = 0 \/ destMax = 0 THEN Result("EINVAL", mem)
    ELSE IF count > destMax THEN Result("ERANGE", mem)
    ELSE Result("EOK", [a \in DOMAIN mem |-> IF a \in Region(dest, count) THEN c ELSE mem[a]])

\* Fault: an overlap is looked for on one side only.
memcpy_s_onesided(mem, dest, destMax, src, count) ==
    IF dest = 0 \/ destMax = 0 \/ src = 0 THEN {Result("EINVAL", mem)}
    ELSE IF count > destMax THEN {Result("ERANGE", mem)}
    ELSE IF src < dest /\ src + count > dest
    THEN {Result("EOK", memmove(mem, dest, src, count))}
    ELSE {Result("EOK", m) : m \in memcpy(mem, dest, src, count)}

memcpy_s(mem, dest, destMax, src, count) ==
    IF dest = 0 \/ destMax = 0 \/ src = 0 THEN {Result("EINVAL", mem)}
    ELSE IF count > destMax THEN {Result("ERANGE", mem)}
    ELSE IF \/ src < dest /\ src + count > dest
            \/ dest < src /\ dest + destMax > src
    THEN {Result("EOK", memmove(mem, dest, src, count))}
    ELSE {Result("EOK", m) : m \in memcpy(mem, dest, src, count)}

memmove_s(mem, dest, destMax, src, count) ==
    IF dest = 0 \/ destMax = 0 \/ src = 0 THEN Result("EINVAL", mem)
    ELSE IF count > destMax THEN Result("ERANGE", mem)
    ELSE Result("EOK", memmove(mem, dest, src, count))

-----------------------------------------------------------------------------
(* Copying and appending strings.                                          *)

Emptied(dest) == Put(dest, 0, <<Nul>>, 1)

\* Fault: the terminating Nul is not counted.
CopyStringTight(dest, destMax, src, n) ==
    IF n > destMax THEN Result("ERANGE", Emptied(dest))
    ELSE Result("EOK", PutString(dest, 0, SubSeq(src, 1, n)))

\* The common part of strcpy_s and strncpy_s, n being the source's length
CopyString(dest, destMax, src, n) ==
    IF n >= destMax THEN Result("ERANGE", Emptied(dest))
    ELSE Result("EOK", PutString(dest, 0, SubSeq(src, 1, n)))

strcpy_s(dest, destMax, src) ==
    IF dest = NULL \/ destMax = 0 THEN Result("EINVAL", dest)
    ELSE IF src = NULL THEN Result("EINVAL", Emptied(dest))
    ELSE CopyString(dest, destMax, src, strlen(src))

strncpy_s(dest, destMax, src, count) ==
    IF dest = NULL \/ destMax = 0 THEN Result("EINVAL", dest)
    ELSE IF src = NULL THEN Result("EINVAL", Emptied(dest))
    ELSE CopyString(dest, destMax, src, strnlen(src, count))

\* The common part of strcat_s and strncat_s, which leave dest alone on failure
AppendString(dest, destMax, src, n) ==
    LET destLen == strnlen(dest, destMax)
    IN  IF destLen + n >= destMax THEN Result("ERANGE", dest)
        ELSE Result("EOK", PutString(dest, destLen, SubSeq(src, 1, n)))

strcat_s(dest, destMax, src) ==
    IF dest = NULL \/ destMax = 0 \/ src = NULL THEN Result("EINVAL", dest)
    ELSE AppendString(dest, destMax, src, strlen(src))

strncat_s(dest, destMax, src, count) ==
    IF dest = NULL \/ destMax = 0 \/ src = NULL THEN Result("EINVAL", dest)
    ELSE AppendString(dest, destMax, src, strnlen(src, count))

-----------------------------------------------------------------------------
(* Formatting.  text is what the format and its arguments amount to, which *)
(* is libc's business; NULL stands for a format that is NULL or in error.  *)

vsnprintf(dest, size, text) == PutString(dest, 0, SubSeq(text, 1, Min({size - 1, Len(text)})))

\* sprintf_s and vsprintf_s
sprintf_s(dest, destMax, text) ==
    IF dest = NULL \/ destMax = 0 THEN Result(-1, dest)
    ELSE IF text = NULL THEN Result(-1, Emptied(dest))
    ELSE IF Len(text) >= destMax THEN Result(-1, Emptied(vsnprintf(dest, destMax, text)))
    ELSE Result(Len(text), vsnprintf(dest, destMax, text))

\* snprintf_s and vsnprintf_s
snprintf_s(dest, destMax, count, text) ==
    LET maxWrite == Min({count, destMax - 1})
    IN  IF dest = NULL \/ destMax = 0 THEN Result(-1, dest)
        ELSE IF text = NULL THEN Result(-1, Emptied(dest))
        ELSE Result(Len(text),
                    [vsnprintf(dest, maxWrite + 1, text) EXCEPT ![maxWrite + 1] = Nul])

-----------------------------------------------------------------------------
(* Comparing and searching.                                                *)

strnlen_s(str, strMax) == IF str = NULL \/ strMax = 0 THEN 0 ELSE strnlen(str, strMax)

\* libc, up to the sign
memcmp(a, b, n) ==
    LET differ == {i \in 1..n : a[i] # b[i]}
    IN  IF differ = {} THEN 0 ELSE IF a[Min(differ)] < b[Min(differ)] THEN -1 ELSE 1

Missing(str, strMax) == str = NULL \/ strMax = 0

\* What strcmp_s and strncmp_s answer when a string is missing
CompareMissing(str1, str1Max, str2, str2Max) ==
    IF ~Missing(str1, str1Max) THEN 1 ELSE IF ~Missing(str2, str2Max) THEN -1 ELSE 0

strcmp_s(str1, str1Max, str2, str2Max) ==
    IF Missing(str1, str1Max) \/ Missing(str2, str2Max)
    THEN CompareMissing(str1, str1Max, str2, str2Max)
    ELSE LET len1 == strnlen(str1, str1Max)
             len2 == strnlen(str2, str2Max)
             cmp == memcmp(str1, str2, Min({len1, len2}))
         IN  IF cmp # 0 THEN cmp
             ELSE IF len1 < len2 THEN -1 ELSE IF len1 > len2 THEN 1 ELSE 0

\* The lengths are not compared: a string equals its prefixes.
strncmp_s(str1, str1Max, str2, str2Max, count) ==
    IF Missing(str1, str1Max) \/ Missing(str2, str2Max)
    THEN CompareMissing(str1, str1Max, str2, str2Max)
    ELSE memcmp(str1, str2, Min({strnlen(str1, str1Max), strnlen(str2, str2Max), count}))

Found(position) == [ret |-> "EOK", position |-> position]
NotFound == [ret |-> "EINVAL", position |-> 0]

strchr_s(str, strMax, c) ==
    LET at == {i \in 1..strnlen(str, strMax) : str[i] = c}
    IN  IF Missing(str, strMax) THEN NotFound
        ELSE IF at = {} THEN NotFound ELSE Found(Min(at) - 1)

\* From the end towards the beginning, position 0 being in front of it
strrchr_s(str, strMax, c) ==
    LET last[i \in 0..strnlen(str, strMax)] ==
            IF i = 0 THEN NotFound ELSE IF str[i] = c THEN Found(i - 1) ELSE last[i - 1]
    IN  IF Missing(str, strMax) THEN NotFound ELSE last[strnlen(str, strMax)]

\* Fault: the loop ends one position early.
strstr_s_short(str, strMax, substr, substrMax) ==
    IF Missing(str, strMax) \/ substr = NULL THEN NotFound
    ELSE LET strLen == strnlen(str, strMax)
             subLen == strnlen(substr, substrMax)
             at == {i \in 0..(strLen - subLen - 1) :
                        memcmp(SubSeq(str, i + 1, i + subLen), substr, subLen) = 0}
         IN  IF subLen = 0 THEN Found(0)
             ELSE IF subLen > strLen \/ at = {} THEN NotFound ELSE Found(Min(at))

strstr_s(str, strMax, substr, substrMax) ==
    IF Missing(str, strMax) \/ substr = NULL THEN NotFound
    ELSE LET strLen == strnlen(str, strMax)
             subLen == strnlen(substr, substrMax)
             at == {i \in 0..(strLen - subLen) :
                        memcmp(SubSeq(str, i + 1, i + subLen), substr, subLen) = 0}
         IN  IF subLen = 0 THEN Found(0)
             ELSE IF subLen > strLen \/ at = {} THEN NotFound ELSE Found(Min(at))
-----------------------------------------------------------------------------
(* Splitting.  strtok_s writes into the string and keeps its place in the  *)
(* context; both, and the token it returns, are positions, 0 being NULL.   *)

Strtok(str, token, context) == [str |-> str, token |-> token, context |-> context]

\* Fault: a token that ends with the string leaves the context behind its
\* beginning, not NULL.
strtok_s_again(str, strToken, delimit, context) ==
    LET from == IF strToken # 0 THEN strToken ELSE context
        end == from + strlen(SubSeq(str, from, Len(str)))
        token == Min({i \in from..end : i = end \/ str[i] \notin delimit})
        stop == Min({i \in token..end : i = end \/ str[i] \in delimit})
    IN  IF from = 0 \/ token = end THEN Strtok(str, 0, 0)
        ELSE IF stop # end THEN Strtok([str EXCEPT ![stop] = Nul], token, stop + 1)
        ELSE Strtok(str, token, IF token + 1 < end THEN token + 1 ELSE 0)

strtok_s(str, strToken, delimit, context) ==
    LET from == IF strToken # 0 THEN strToken ELSE context
        end == from + strlen(SubSeq(str, from, Len(str)))
        token == Min({i \in from..end : i = end \/ str[i] \notin delimit})
        stop == Min({i \in token..end : i = end \/ str[i] \in delimit})
    IN  IF from = 0 THEN Strtok(str, 0, 0)
        ELSE IF token = end THEN Strtok(str, 0, 0)
        ELSE IF stop # end THEN Strtok([str EXCEPT ![stop] = Nul], token, stop + 1)
        ELSE Strtok(str, token, 0)

\* The tokens of a loop that calls strtok_s until it returns NULL
RECURSIVE Tokens(_, _, _, _)
Tokens(str, strToken, delimit, context) ==
    LET r == strtok_s(str, strToken, delimit, context)
    IN  IF r.token = 0 THEN <<>>
        ELSE <<String(SubSeq(r.str, r.token, Len(r.str)))>> \o Tokens(r.str, 0, delimit, r.context)

-----------------------------------------------------------------------------
(* What the functions should compute.  Each definition compares them with  *)
(* that for one content of the memory they work on, and all small values   *)
(* of their other arguments.                                               *)

Arrays == [1..MaxArray -> 0..MaxChar]
Strings == BoundedSeq(1..MaxChar, MaxArray - 1)
Sizes == 0..MaxArray
Take(s, n) == SubSeq(s, 1, Min({n, Len(s)}))

Array(s) == IF s = NULL THEN NULL ELSE s \o <<Nul>>

\* What a function that checks its target, its source and the room answers
Verdict(isBad, isTooLong) == IF isBad THEN "EINVAL" ELSE IF isTooLong THEN "ERANGE" ELSE "EOK"

\* memcpy_s on memory that overlaps in any way does what memmove_s does: it
\* finds every overlap, and on failure touches nothing.  memset_s fills what
\* was asked for and nothing else.
MovesExact(mem) ==
    \A dest, src, destMax, count \in Sizes :
        LET r == memmove_s(mem, dest, destMax, src, count)
            filled == memset_s(mem, dest, destMax, MaxChar, count)
            outside == {a \in DOMAIN mem : a < dest \/ a >= dest + count}
        IN  dest + destMax <= Len(mem) + 1 =>
                /\ src + count <= Len(mem) + 1 =>
                       /\ memcpy_s(mem, dest, destMax, src, count) = {r}
                       /\ r.ret = Verdict(0 \in {dest, destMax, src}, count > destMax)
                       /\ IF r.ret = "EOK"
                          THEN /\ SubSeq(r.dest, dest, dest + count - 1)
                                      = SubSeq(mem, src, src + count - 1)
                               /\ \A a \in outside : r.dest[a] = mem[a]
                          ELSE r.dest = mem
                /\ filled.ret = Verdict(0 \in {dest, destMax}, count > destMax)
                /\ \A a \in DOMAIN mem :
                       filled.dest[a] = IF filled.ret = "EOK" /\ a \notin outside
                                        THEN MaxChar ELSE mem[a]

\* What is written lies within the size the caller named, and ends there.
Within(dest, destMax, after) ==
    /\ \A i \in (destMax + 1)..MaxArray : after[i] = dest[i]
    /\ destMax > 0 => strnlen(after, destMax) < destMax

\* Copying: the string, or the part of it asked for, is copied if there is
\* room for it with its Nul, and otherwise the target is emptied; the answer
\* tells which.  strncpy_s reads no more of the source than it was asked for:
\* one without a Nul does as well.
CopiesExact(dest) ==
    \A s \in Strings \cup {NULL}, destMax, count \in Sizes :
        LET want == IF s = NULL THEN <<>> ELSE Take(s, count)
            isCopy(r, t) ==
                /\ r.ret = Verdict(destMax = 0 \/ s = NULL, Len(t) >= destMax)
                /\ Within(dest, destMax, r.dest)
                /\ destMax > 0 => String(r.dest) = IF r.ret = "EOK" THEN t ELSE <<>>
        IN  /\ isCopy(strcpy_s(dest, destMax, Array(s)), IF s = NULL THEN <<>> ELSE s)
            /\ isCopy(strncpy_s(dest, destMax, Array(s), count), want)
            /\ s # NULL /\ count = Len(want) => isCopy(strncpy_s(dest, destMax, s, count), want)
            /\ strcpy_s(NULL, destMax, Array(s)).ret = "EINVAL"
            /\ strncpy_s(NULL, destMax, Array(s), count).ret = "EINVAL"

\* Appending: strcat_s and strncat_s append all that was asked for or leave the
\* target as it was, and the answer tells which.  A target without a Nul within
\* destMax is refused, and therefore stays without one.
AppendsExact(dest) ==
    \A s \in Strings \cup {NULL}, destMax, count \in Sizes :
        LET old == Take(String(dest), destMax)
            isAppended(r, t) ==
                /\ r.ret = Verdict(destMax = 0 \/ s = NULL, Len(old) + Len(t) >= destMax)
                /\ IF r.ret = "EOK"
                   THEN String(r.dest) = old \o t /\ Within(dest, destMax, r.dest)
                   ELSE r.dest = dest
        IN  /\ isAppended(strcat_s(dest, destMax, Array(s)), IF s = NULL THEN <<>> ELSE s)
            /\ isAppended(strncat_s(dest, destMax, Array(s), count),
                          IF s = NULL THEN <<>> ELSE Take(s, count))

\* Formatting: sprintf_s prints all or nothing; snprintf_s prints what fits.
\* Both answer -1 for nothing printed, and otherwise, if all of it was, its
\* length.
FormatsExact(dest) ==
    \A s \in Strings \cup {NULL}, destMax, count \in Sizes :
        LET all == sprintf_s(dest, destMax, s)
            cut == snprintf_s(dest, destMax, count, s)
            fitting == IF s = NULL THEN <<>> ELSE Take(s, Min({count, destMax - 1}))
        IN  /\ \A r \in {all, cut} : Within(dest, destMax, r.dest)
            /\ IF s = NULL \/ destMax = 0
               THEN all.ret = -1 /\ cut.ret = -1
               ELSE /\ all.ret = IF Len(s) < destMax THEN Len(s) ELSE -1
                    /\ IF fitting = s THEN cut.ret = Len(s) ELSE cut.ret >= Len(fitting)
            /\ destMax > 0 => /\ String(all.dest) = IF all.ret >= 0 THEN s ELSE <<>>
                              /\ String(cut.dest) = fitting

\* Comparing: strcmp_s orders the strings as far as the sizes let it see them,
\* and equality is that of strings.  strncmp_s, when it tells the first count
\* characters apart, puts them in that order, and when it does not, one of the
\* two begins with the other.  A missing string comes before all others.
ComparesExact(array) ==
    \A m \in 1..MaxArray :
        LET s == Take(String(array), m)
            cmp(t, u) == strcmp_s(Array(t), MaxArray, Array(u), MaxArray)
        IN  /\ strnlen_s(array, m) = Len(s)
            /\ \A t \in Strings, k \in Sizes :
                   LET c == strcmp_s(array, m, Array(t), k)
                       u == Take(t, k)
                       part == strncmp_s(array, m, Array(t), MaxArray, k)
                   IN  /\ IF k = 0 THEN c = 1 ELSE (c = 0) <=> (s = u)
                       /\ strcmp_s(Array(t), k, array, m) = -c
                       /\ m = MaxArray /\ k = MaxArray /\ c < 0 =>
                              \A v \in Strings : cmp(t, v) < 0 => cmp(s, v) < 0
                       /\ IF part = 0
                          THEN IsPrefix(Take(s, k), u) \/ IsPrefix(u, Take(s, k))
                          ELSE part = cmp(Take(s, k), u)
            /\ \A missing \in {NULL, Array(<<>>)}, k \in Sizes :
                   LET n == IF missing = NULL THEN k ELSE 0
                   IN  /\ strcmp_s(missing, n, array, m) = -1
                       /\ strncmp_s(missing, n, array, m, k) = -1
                       /\ strnlen_s(missing, n) = 0

\* Searching: strchr_s and strrchr_s find a character nothing equal to which
\* comes before or behind it; strstr_s finds the first occurrence if there is
\* one, also at the very end of what the size lets it see.
SearchesExact(array) ==
    \A m \in 1..MaxArray :
        LET s == Take(String(array), m)
            occurs(t, k) == IsPrefix(t, SubSeq(s, k + 1, Len(s)))
            isAmong(c, from, to) == \E k \in from..to : s[k + 1] = c
        IN  /\ \A t \in Strings, k \in Sizes :
                   LET r == strstr_s(array, m, Array(t), k)
                       u == Take(t, k)
                   IN  IF r.ret = "EOK"
                       THEN occurs(u, r.position) /\ \A i \in 0..(r.position - 1) : ~occurs(u, i)
                       ELSE \A i \in 0..Len(s) : ~occurs(u, i)
            /\ \A c \in 1..MaxChar :
                   LET first == strchr_s(array, m, c)
                       last == strrchr_s(array, m, c)
                   IN  IF isAmong(c, 0, Len(s) - 1)
                       THEN /\ first.ret = "EOK" /\ isAmong(c, first.position, first.position)
                            /\ ~isAmong(c, 0, first.position - 1)
                            /\ last.ret = "EOK" /\ isAmong(c, last.position, last.position)
                            /\ ~isAmong(c, last.position + 1, Len(s) - 1)
                       ELSE first.ret = "EINVAL" /\ last.ret = "EINVAL"

\* Calling strtok_s until it returns NULL gives the pieces of the string
\* between delimiters, each once and in order, without empty ones.
TokensExact(array) ==
    \A delimit \in SUBSET (1..MaxChar) :
        LET s == Take(String(array), MaxArray - 1)
            isStart(i) == s[i] \notin delimit /\ (i > 1 => s[i - 1] \in delimit)
            starts == {i \in 1..Len(s) : isStart(i)}
            piece(i) == SubSeq(s, i, Max({j \in i..Len(s) : \A k \in i..j : s[k] \notin delimit}))
            order == SetToSortSeq(starts, <)
        IN  Tokens(s \o <<Nul>>, 1, delimit, 0) = [n \in DOMAIN order |-> piece(order[n])]
=============================================================================
