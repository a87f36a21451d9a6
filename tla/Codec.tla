-------------------------------- MODULE Codec --------------------------------
(***************************************************************************)
(* How silog_comm/src/silog_remote.c turns a log entry into bytes and back *)
(* and which entries silog_cat shows.  A number of n bytes is given by its *)
(* bits, bit 0 being the lowest; a byte has ByteBits of them, so that the  *)
(* shifts by 8, 16, ... are shifts by whole bytes.                         *)
(***************************************************************************)
EXTENDS Integers, Sequences

CONSTANT ByteBits        \* 8

ASSUME CodecAssumption == ByteBits \in Nat \ {0}

Bit == {0, 1}
Word(n) == [0 .. n * ByteBits - 1 -> Bit]

\* Byte k of n, the first being 0: (x >> (n - 1 - k) bytes) & 0xFF
Byte(x, n, k) == [i \in 0 .. ByteBits - 1 |-> x[(n - 1 - k) * ByteBits + i]]

\* SilogRemoteSerializeEntry, a number of n bytes
Serialize(x, n) == [k \in 0 .. n - 1 |-> Byte(x, n, k)]

\* SilogRemoteDeserializeEntry: the bytes, byte k shifted left by shift[k]
\* bytes, joined with |
Deserialize(bytes, n, shift) ==
    [j \in 0 .. n * ByteBits - 1 |->
        IF \E k \in 0 .. n - 1 :
               /\ j \in shift[k] * ByteBits .. shift[k] * ByteBits + ByteBits - 1
               /\ bytes[k][j - shift[k] * ByteBits] = 1
        THEN 1 ELSE 0]

\* The shifts for pid, tid and line
PlainShift(n) == [k \in 0 .. n - 1 |-> n - 1 - k]

\* The shifts for ts: << 56, << 56 >> 8, << 48, << 48 >> 8, << 40, ...
TsShift == [k \in 0 .. 7 |-> CASE k = 0 -> 7
                               [] k \in {1, 2} -> 6
                               [] k \in {3, 4} -> 5
                               [] k \in {5, 6} -> 4
                               [] k = 7 -> 0]

\* Fault: the lowest two bytes of pid are joined at the same place.
DecodePidShifted(bytes) ==
    Deserialize(bytes, 8, [k \in 0 .. 7 |-> IF k = 6 THEN 0 ELSE 7 - k])

DecodePid(bytes) == Deserialize(bytes, 8, PlainShift(8))
DecodeTs(bytes) == Deserialize(bytes, 8, TsShift)

Zero(byte) == \A i \in 0 .. ByteBits - 1 : byte[i] = 0

\* The timestamps that DecodeTs gives back
TsSurvives(x) == \A k \in 2 .. 6 : Zero(Byte(x, 8, k))

-----------------------------------------------------------------------------
(* SilogCatPrintLog: an entry is shown if its level is high enough and its *)
(* tag contains the tag asked for, if one was.                             *)

Occurs(s, t) == \E i \in 0 .. Len(t) - Len(s) : SubSeq(t, i + 1, i + Len(s)) = s

Shows(config, e) ==
    /\ e.level >= config.minLevel
    /\ config.filterTag # << >> => Occurs(config.filterTag, e.tag)
=============================================================================
