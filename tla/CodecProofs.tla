---------------------------- MODULE CodecProofs ----------------------------
(***************************************************************************)
(* What SilogRemoteDeserializeEntry makes of the bytes written by          *)
(* SilogRemoteSerializeEntry, for a byte of any number of bits and numbers *)
(* of any length: pid, tid and line come back as they were, and ts does    *)
(* exactly if its bytes 2 to 6 are zero.                                   *)
(***************************************************************************)
EXTENDS Codec, WordArith, TLAPS

Places == 0 .. ByteBits - 1

\* The index of a bit determines the byte it is in and its place there.
LEMMA PlaceUnique ==
    ASSUME NEW p \in Int, NEW q \in Int, NEW i \in Places, NEW j \in Places,
           p * ByteBits + i = q * ByteBits + j
    PROVE  p = q /\ i = j
  <1> DEFINE B == ByteBits
  <1>0. B \in Nat \ {0} /\ i \in 0 .. B - 1 /\ j \in 0 .. B - 1 /\ p * B + i = q * B + j
    BY CodecAssumption DEF Places
  <1> HIDE DEF B
  <1>1. (p - q) * B = j - i
    BY <1>0, SMT
  <1>2. j - i < B /\ j - i > - B
    BY <1>0
  <1>3. p - q < 1
    BY <1>0, <1>1, <1>2, SMT
  <1>4. p - q > - 1
    BY <1>0, <1>1, <1>2, SMT
  <1>5. p = q
    BY <1>3, <1>4
  <1> QED
    BY <1>0, <1>5

\* Every bit has such a place.
LEMMA PlaceExists ==
    ASSUME NEW n \in Nat, NEW j \in 0 .. n * ByteBits - 1
    PROVE  \E p \in 0 .. n - 1, i \in Places : j = p * ByteBits + i
  <1> DEFINE B == ByteBits
             p == j \div B
             i == j % B
  <1>0. B \in Nat \ {0} /\ n * B \in Nat /\ j \in Nat /\ j < n * B
    BY CodecAssumption
  <1>1. p \in Int /\ i \in 0 .. B - 1 /\ j = B * p + i
    BY <1>0, DivMod
  <1> HIDE DEF B, p, i
  <1>2. p >= 0
    BY <1>0, <1>1, SMT
  <1>3. p < n
    BY <1>0, <1>1, SMT
  <1>4. j = p * B + i
    BY <1>0, <1>1, SMT
  <1> QED
    BY <1>1, <1>2, <1>3, <1>4 DEF Places, B

\* The bits of a byte are among those of the number.
LEMMA PlaceWithin ==
    ASSUME NEW n \in Nat, NEW p \in 0 .. n - 1, NEW i \in Places
    PROVE  p * ByteBits + i \in 0 .. n * ByteBits - 1
  <1> DEFINE B == ByteBits
  <1>0. B \in Nat \ {0} /\ i \in 0 .. B - 1
    BY CodecAssumption DEF Places
  <1> HIDE DEF B
  <1>1. p * B \in Nat /\ n * B \in Nat /\ p * B + B = (p + 1) * B
    BY <1>0, SMT
  <1>2. (p + 1) * B <= n * B
    BY <1>0, SMT
  <1> QED
    BY <1>0, <1>1, <1>2 DEF B

LEMMA BitOfByte ==
    ASSUME NEW n \in Nat, NEW x \in Word(n), NEW p \in 0 .. n - 1, NEW i \in Places
    PROVE  /\ Serialize(x, n)[n - 1 - p][i] = x[p * ByteBits + i]
           /\ x[p * ByteBits + i] \in {0, 1}
  <1>1. n - 1 - p \in 0 .. n - 1 /\ n - 1 - (n - 1 - p) = p
    OBVIOUS
  <1>2. x[p * ByteBits + i] \in {0, 1}
    BY PlaceWithin DEF Word, Bit
  <1>3. Serialize(x, n)[n - 1 - p] = [l \in Places |-> x[p * ByteBits + l]]
    BY <1>1 DEF Serialize, Byte, Places
  <1> QED
    BY <1>2, <1>3

\* Bit i of some byte that is shifted to place p is set.
Joined(bytes, n, shift, p, i) == \E k \in 0 .. n - 1 : shift[k] = p /\ bytes[k][i] = 1

\* A bit of the result is set if it is set in some byte shifted to its place.
LEMMA BitOfResult ==
    ASSUME NEW n \in Nat, NEW bytes, NEW shift \in [0 .. n - 1 -> Int], NEW p \in 0 .. n - 1, NEW i \in Places
    PROVE  Deserialize(bytes, n, shift)[p * ByteBits + i] =
               IF Joined(bytes, n, shift, p, i) THEN 1 ELSE 0
  <1> DEFINE j == p * ByteBits + i
  <1>1. j \in 0 .. n * ByteBits - 1
    BY PlaceWithin
  <1>2. ASSUME NEW k \in 0 .. n - 1
        PROVE  /\ (j \in shift[k] * ByteBits .. shift[k] * ByteBits + ByteBits - 1) <=> (shift[k] = p)
               /\ shift[k] = p => j - shift[k] * ByteBits = i
    <2> DEFINE B == ByteBits
               q == shift[k]
    <2>0. B \in Nat \ {0} /\ q \in Int /\ q * B \in Int /\ p * B \in Int /\ i \in 0 .. B - 1 /\ j = p * B + i
      BY CodecAssumption DEF Places
    <2> HIDE DEF B, q, j
    <2>1. ASSUME q = p PROVE j \in q * B .. q * B + B - 1 /\ j - q * B = i
      BY <2>0, <2>1
    <2>2. ASSUME j \in q * B .. q * B + B - 1 PROVE q = p
      <3> DEFINE l == j - q * B
      <3>1. l \in Places /\ q * B + l = p * B + i
        BY <2>0, <2>2 DEF Places, B
      <3>2. q \in Int /\ p \in Int
        BY <2>0
      <3> HIDE DEF l
      <3>3. l \in Places /\ q * ByteBits + l = p * ByteBits + i
        BY <3>1 DEF B
      <3> QED
        BY <3>2, <3>3, PlaceUnique, Zenon
    <2> QED
      BY <2>1, <2>2 DEF B, q
  <1>3. (\E k \in 0 .. n - 1 :
            /\ j \in shift[k] * ByteBits .. shift[k] * ByteBits + ByteBits - 1
            /\ bytes[k][j - shift[k] * ByteBits] = 1)
        <=> Joined(bytes, n, shift, p, i)
    <2> HIDE DEF j
    <2> QED
      BY <1>2 DEF Joined
  <1> HIDE DEF j
  <1>4. Deserialize(bytes, n, shift)[j] =
            IF \E k \in 0 .. n - 1 :
                   /\ j \in shift[k] * ByteBits .. shift[k] * ByteBits + ByteBits - 1
                   /\ bytes[k][j - shift[k] * ByteBits] = 1
            THEN 1 ELSE 0
    BY <1>1 DEF Deserialize
  <1> QED
    BY <1>3, <1>4 DEF j

\* The result has the bits of x if every place has.
LEMMA SameBits ==
    ASSUME NEW n \in Nat, NEW x \in Word(n), NEW bytes, NEW shift \in [0 .. n - 1 -> Int]
    PROVE  Deserialize(bytes, n, shift) = x <=>
               \A p \in 0 .. n - 1, i \in Places :
                   Deserialize(bytes, n, shift)[p * ByteBits + i] = x[p * ByteBits + i]
  <1> DEFINE y == Deserialize(bytes, n, shift)
             D == 0 .. n * ByteBits - 1
  <1>1. y = [j \in D |-> y[j]] /\ x = [j \in D |-> x[j]]
    BY DEF Deserialize, Word
  <1>2. ASSUME \A p \in 0 .. n - 1, i \in Places : y[p * ByteBits + i] = x[p * ByteBits + i]
        PROVE  \A j \in D : y[j] = x[j]
    <2> HIDE DEF y
    <2> QED
      BY <1>2, PlaceExists
  <1> HIDE DEF y, D
  <1> QED
    BY <1>1, <1>2 DEF y

\* pid, tid and line arrive as they were sent: the decoder's shifts undo the
\* encoder's, for a number of any length.
THEOREM NumbersSurvive ==
    ASSUME NEW n \in Nat, NEW x \in Word(n)
    PROVE  Deserialize(Serialize(x, n), n, PlainShift(n)) = x
  <1>1. PlainShift(n) \in [0 .. n - 1 -> Int]
    BY DEF PlainShift
  <1>2. ASSUME NEW p \in 0 .. n - 1, NEW i \in Places
        PROVE  Deserialize(Serialize(x, n), n, PlainShift(n))[p * ByteBits + i] = x[p * ByteBits + i]
    <2> DEFINE s == Serialize(x, n)
               b == x[p * ByteBits + i]
    <2>1. \A k \in 0 .. n - 1 : PlainShift(n)[k] = p <=> k = n - 1 - p
      BY DEF PlainShift
    <2>2. n - 1 - p \in 0 .. n - 1
      OBVIOUS
    <2>3. s[n - 1 - p][i] = b /\ b \in {0, 1}
      BY BitOfByte
    <2> HIDE DEF s, b
    <2>4. Joined(s, n, PlainShift(n), p, i) <=> b = 1
      BY <2>1, <2>2, <2>3 DEF Joined
    <2> QED
      BY <1>1, <2>3, <2>4, BitOfResult DEF s, b
  <1> QED
    BY <1>1, <1>2, SameBits

\* Bit i of byte k of ts, and what the decoder makes of it at every place
LEMMA TimestampBits ==
    ASSUME NEW x \in Word(8), NEW i \in Places
    PROVE  LET B(k) == Serialize(x, 8)[k][i]
               r(p) == DecodeTs(Serialize(x, 8))[p * ByteBits + i]
           IN  /\ \A k \in 0 .. 7 : B(k) \in {0, 1} /\ B(k) = x[(7 - k) * ByteBits + i]
               /\ r(7) = B(0)
               /\ r(6) = IF B(1) = 1 \/ B(2) = 1 THEN 1 ELSE 0
               /\ r(5) = IF B(3) = 1 \/ B(4) = 1 THEN 1 ELSE 0
               /\ r(4) = IF B(5) = 1 \/ B(6) = 1 THEN 1 ELSE 0
               /\ r(3) = 0 /\ r(2) = 0 /\ r(1) = 0
               /\ r(0) = B(7)
  <1> DEFINE s == Serialize(x, 8)
             B(k) == s[k][i]
             r(p) == DecodeTs(s)[p * ByteBits + i]
  <1>1. \A k \in 0 .. 7 : B(k) \in {0, 1} /\ B(k) = x[(7 - k) * ByteBits + i]
    <2> TAKE k \in 0 .. 7
    <2>1. 7 - k \in 0 .. 8 - 1 /\ 8 - 1 - (7 - k) = k
      OBVIOUS
    <2> QED
      BY <2>1, BitOfByte
  <1>2. TsShift \in [0 .. 7 -> Int]
    BY DEF TsShift
  <1>3. \A p \in 0 .. 7 : r(p) = IF \E k \in 0 .. 7 : TsShift[k] = p /\ B(k) = 1 THEN 1 ELSE 0
    <2> HIDE DEF s
    <2> TAKE p \in 0 .. 7
    <2> DEFINE n == 8
    <2>1. n \in Nat /\ 0 .. n - 1 = 0 .. 7
      OBVIOUS
    <2>a. TsShift \in [0 .. n - 1 -> Int] /\ p \in 0 .. n - 1
      BY <1>2, <2>1
    <2> HIDE DEF n
    <2>2. Deserialize(s, n, TsShift)[p * ByteBits + i] =
              IF Joined(s, n, TsShift, p, i) THEN 1 ELSE 0
      BY <2>1, <2>a, BitOfResult
    <2> QED
      BY <2>1, <2>2 DEF DecodeTs, n, Joined
  <1>4. /\ TsShift[0] = 7 /\ TsShift[1] = 6 /\ TsShift[2] = 6 /\ TsShift[3] = 5
        /\ TsShift[4] = 5 /\ TsShift[5] = 4 /\ TsShift[6] = 4 /\ TsShift[7] = 0
    BY DEF TsShift
  <1>5. 0 .. 7 = {0, 1, 2, 3, 4, 5, 6, 7}
    OBVIOUS
  <1> HIDE DEF B, r
  <1>6. /\ r(7) = B(0)
        /\ r(6) = IF B(1) = 1 \/ B(2) = 1 THEN 1 ELSE 0
    BY <1>1, <1>3, <1>4, <1>5
  <1>7. /\ r(5) = IF B(3) = 1 \/ B(4) = 1 THEN 1 ELSE 0
        /\ r(4) = IF B(5) = 1 \/ B(6) = 1 THEN 1 ELSE 0
    BY <1>1, <1>3, <1>4, <1>5
  <1>8. r(3) = 0 /\ r(2) = 0 /\ r(1) = 0 /\ r(0) = B(7)
    BY <1>1, <1>3, <1>4, <1>5
  <1> QED
    BY <1>1, <1>6, <1>7, <1>8 DEF B, r

\* A timestamp arrives as it was sent exactly if its bytes 2 to 6 are zero:
\* the shifts of SilogRemoteDeserializeEntry for ts undo the encoder's for the
\* highest two bytes and the lowest only.
THEOREM TimestampSurvives ==
    ASSUME NEW x \in Word(8)
    PROVE  DecodeTs(Serialize(x, 8)) = x <=> TsSurvives(x)
  <1> DEFINE s == Serialize(x, 8)
  <1>1. TsShift \in [0 .. 8 - 1 -> Int] /\ 0 .. 8 - 1 = {0, 1, 2, 3, 4, 5, 6, 7}
    BY DEF TsShift
  <1>2. DecodeTs(s) = x <=> \A p \in 0 .. 8 - 1, i \in Places :
                                DecodeTs(s)[p * ByteBits + i] = x[p * ByteBits + i]
    <2> HIDE DEF s
    <2> DEFINE n == 8
    <2>1. n \in Nat /\ x \in Word(n) /\ TsShift \in [0 .. n - 1 -> Int]
      BY <1>1
    <2> HIDE DEF n
    <2>2. Deserialize(s, n, TsShift) = x <=>
              \A p \in 0 .. n - 1, i \in Places :
                  Deserialize(s, n, TsShift)[p * ByteBits + i] = x[p * ByteBits + i]
      BY <2>1, SameBits
    <2> QED
      BY <2>2 DEF DecodeTs, n
  <1>3. TsSurvives(x) <=> \A i \in Places : s[2][i] = 0 /\ s[3][i] = 0 /\ s[4][i] = 0
                                              /\ s[5][i] = 0 /\ s[6][i] = 0
    <2>1. \A k \in 0 .. 7 : s[k] = Byte(x, 8, k)
      BY DEF Serialize
    <2>2. 2 .. 6 = {2, 3, 4, 5, 6}
      OBVIOUS
    <2> HIDE DEF s
    <2>3. \A k \in 2 .. 6 : Zero(Byte(x, 8, k)) <=> \A i \in Places : s[k][i] = 0
      BY <2>1 DEF Zero, Places
    <2> QED
      BY <2>2, <2>3 DEF TsSurvives
  <1>4. ASSUME NEW i \in Places
        PROVE  (\A p \in 0 .. 8 - 1 : DecodeTs(s)[p * ByteBits + i] = x[p * ByteBits + i])
                   <=> s[2][i] = 0 /\ s[3][i] = 0 /\ s[4][i] = 0 /\ s[5][i] = 0 /\ s[6][i] = 0
    <2> DEFINE B(k) == s[k][i]
               r(p) == DecodeTs(s)[p * ByteBits + i]
               b(p) == x[p * ByteBits + i]
    <2>1. /\ \A k \in 0 .. 7 : B(k) \in {0, 1} /\ B(k) = b(7 - k)
          /\ r(7) = B(0)
          /\ r(6) = IF B(1) = 1 \/ B(2) = 1 THEN 1 ELSE 0
          /\ r(5) = IF B(3) = 1 \/ B(4) = 1 THEN 1 ELSE 0
          /\ r(4) = IF B(5) = 1 \/ B(6) = 1 THEN 1 ELSE 0
          /\ r(3) = 0 /\ r(2) = 0 /\ r(1) = 0
          /\ r(0) = B(7)
      BY TimestampBits
    <2> HIDE DEF B, r, b
    <2>2. /\ b(7) = B(0) /\ b(6) = B(1) /\ b(5) = B(2) /\ b(4) = B(3)
          /\ b(3) = B(4) /\ b(2) = B(5) /\ b(1) = B(6) /\ b(0) = B(7)
      BY <2>1
    <2>3. \A k \in {0, 1, 2, 3, 4, 5, 6, 7} : B(k) \in {0, 1}
      BY <2>1
    <2>4. (r(7) = b(7) /\ r(6) = b(6) /\ r(5) = b(5) /\ r(4) = b(4) /\ r(3) = b(3) /\ r(2) = b(2)
              /\ r(1) = b(1) /\ r(0) = b(0))
          <=> B(2) = 0 /\ B(3) = 0 /\ B(4) = 0 /\ B(5) = 0 /\ B(6) = 0
      BY <2>1, <2>2, <2>3
    <2>5. (\A p \in 0 .. 8 - 1 : r(p) = b(p))
          <=> (r(7) = b(7) /\ r(6) = b(6) /\ r(5) = b(5) /\ r(4) = b(4) /\ r(3) = b(3) /\ r(2) = b(2)
                  /\ r(1) = b(1) /\ r(0) = b(0))
      BY <1>1
    <2> QED
      BY <2>4, <2>5 DEF B, r, b
  <1> HIDE DEF s
  <1> QED
    BY <1>2, <1>3, <1>4 DEF s
=============================================================================
