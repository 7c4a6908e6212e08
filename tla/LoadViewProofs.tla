---------------------------- MODULE LoadViewProofs ----------------------------
(***************************************************************************)
(* Proofs about relocation: a stream is taken whole or not at all, the two *)
(* halves of an address make it up again, and in a view every relocation   *)
(* was applied once, so that pointers and pairs of halves have moved with  *)
(* their segments.                                                         *)
(***************************************************************************)
EXTENDS LoadView, SequenceTheorems, WellFoundedInduction, TLAPS

\* Nothing is decoded under a header whose widths do not fit, so that an error
\* always leaves bytes unread or nothing decoded.
DecodeInvariant ==
    /\ stage = "decode" /\ ~WidthsFit => decoded = <<>>
    /\ AllOrNothing

\* What comes after extraction leaves the relocations of the module alone.
LEMMA LaterStepsKeep ==
    ASSUME DecodeInvariant, UNCHANGED <<file, decodeVars, relocations>>,
           stage = "decode" <=> stage' = "decode"
    PROVE  DecodeInvariant'
BY DEF DecodeInvariant, AllOrNothing, WidthsFit, TypeShift, SegBits, coding, decodeVars

\* A step of the decoder keeps its invariant.
LEMMA DecodeKeeps ==
    ASSUME DecodeInvariant, Decode
    PROVE  DecodeInvariant'
<1>1. CASE Broken
  <2>1. /\ stage' = "extracted" /\ relocations' = file.typeA \o <<>>
        /\ UNCHANGED <<file, left, decoded>>
    BY <1>1 DEF Broken, Malformed, Extracted, decodeVars
  <2>2. left = 0 => decoded = <<>>
    BY <1>1 DEF Broken, DecodeInvariant
  <2>3. QED
    BY <2>1, <2>2 DEF DecodeInvariant, AllOrNothing
<1>2. CASE StateCommand \/ RelocationCommand
  <2>1. stage = "decode" /\ stage' = "decode" /\ WidthsFit /\ file' = file
    BY <1>2 DEF StateCommand, RelocationCommand
  <2>2. WidthsFit'
    BY <2>1 DEF WidthsFit, TypeShift, SegBits, coding
  <2>3. QED
    BY <2>1, <2>2 DEF DecodeInvariant, AllOrNothing
<1>3. CASE StreamEnds
  BY <1>3 DEF StreamEnds, Extracted, decodeVars, DecodeInvariant, AllOrNothing
<1>4. QED
  BY <1>1, <1>2, <1>3 DEF Decode

\* A module has all the relocations of its compressed stream or none of them,
\* and those of its sections in either case (prx.py, _parse_relocations).
THEOREM StreamsAreWhole == Spec => []AllOrNothing
<1>1. Init => DecodeInvariant
  BY DEF Init, DecodeInit, DecodeInvariant, AllOrNothing
<1>2. DecodeInvariant /\ [Next]_vars => DecodeInvariant'
  <2> SUFFICES ASSUME DecodeInvariant, [Next]_vars PROVE DecodeInvariant'
    OBVIOUS
  <2>1. CASE UNCHANGED vars
    BY <2>1, LaterStepsKeep DEF vars, decodeVars
  <2>2. CASE Decode
    BY <2>2, DecodeKeeps
  <2>3. CASE BeginView
    BY <2>3, LaterStepsKeep DEF BeginView
  <2>4. CASE Apply
    BY <2>4, LaterStepsKeep DEF Apply, Refuse
  <2>5. CASE Complete
    BY <2>5, LaterStepsKeep DEF Complete
  <2>6. QED
    BY <2>1, <2>2, <2>3, <2>4, <2>5 DEF Next
<1>3. DecodeInvariant => AllOrNothing
  BY DEF DecodeInvariant
<1>4. QED
  BY <1>1, <1>2, <1>3, PTL DEF Spec

-----------------------------------------------------------------------------
(* The carry *)

\* A number of 16 bits.
IsHalf(n) == n \in Int /\ 0 <= n /\ n <= 65535

\* An address is its high half, shifted, and its low half.
LEMMA SplitInHalves ==
    ASSUME NEW a \in Int, 0 <= a, a <= 4294967295
    PROVE  /\ IsHalf(a \div 65536) /\ IsHalf(a % 65536)
           /\ a = (a \div 65536) * 65536 + (a % 65536)
<1> DEFINE q == a \div 65536
<1> DEFINE r == a % 65536
<1>1. q \in Int /\ r \in Int /\ 0 <= r /\ r <= 65535 /\ a = q * 65536 + r
  BY SMT
<1> HIDE DEF q, r
<1>2. 0 <= q /\ q <= 65535
  BY <1>1, SMT
<1>3. QED
  BY <1>1, <1>2, SMT DEF IsHalf, q, r

\* Two halves put together come apart again.
LEMMA JoinHalves ==
    ASSUME NEW q \in Int, NEW r \in Int, 0 <= q, q <= 65535, 0 <= r, r <= 65535
    PROVE  /\ (q * 65536 + r) \div 65536 = q
           /\ (q * 65536 + r) % 65536 = r
           /\ (q * 65536 + r) % 4294967296 = q * 65536 + r
<1>1. (q * 65536 + r) \div 65536 = q
  BY SMT
<1>2. (q * 65536 + r) % 65536 = r
  BY SMT
<1>3. (q * 65536 + r) % 4294967296 = q * 65536 + r
  BY SMT
<1>4. QED
  BY <1>1, <1>2, <1>3, SMT

\* A carry out of the highest half is lost, and made up for by the sign.
LEMMA CarryOut ==
    ASSUME NEW r \in Int, 32768 <= r, r <= 65535
    PROVE  /\ (65535 * 65536 + r + 65536) % 4294967296 = r
           /\ (r - 65536) % 4294967296 = 65535 * 65536 + r
BY SMT

\* What is added to the high half when the low half is negative.
LEMMA CarriesUp ==
    ASSUME NEW a, Low(a) >= HalfLimit \div 2
    PROVE  Carried(a) = High((a + HalfLimit) % WordLimit)
BY DEF Carried

\* The machine shifts the high half and adds the low half as a signed number:
\* with the carry that load_view.py adds, that makes the address again, for
\* every address of 32 bits (apply_psp_relocation_word, R_MIPS_HI16).
THEOREM HalvesMakeTheAddress ==
    ASSUME HalfLimit = 65536, NEW address \in Int, 0 <= address, address < WordLimit
    PROVE  (Carried(address) * HalfLimit + Signed(Low(address))) % WordLimit = address
<1>1. WordLimit = 4294967296 /\ HalfLimit \div 2 = 32768
  BY SMT DEF WordLimit
<1> DEFINE high == address \div 65536
<1> DEFINE low == address % 65536
<1>2. /\ high \in Int /\ 0 <= high /\ high <= 65535
      /\ low \in Int /\ 0 <= low /\ low <= 65535
      /\ address = high * 65536 + low
  BY <1>1, SplitInHalves, SMT DEF IsHalf
<1>3. High(address) = high /\ Low(address) = low
  BY SMT DEF High, Low
<1> HIDE DEF high, low
<1>4. CASE low < 32768
  <2>1. Carried(address) = high /\ Signed(Low(address)) = low
    BY <1>1, <1>2, <1>3, <1>4, SMT DEF Carried, Signed
  <2>2. (high * 65536 + low) % 4294967296 = high * 65536 + low
    BY <1>2, JoinHalves, SMT
  <2>3. Carried(address) * HalfLimit + Signed(Low(address)) = high * 65536 + low
    BY <2>1, SMT
  <2>4. QED
    BY <1>1, <1>2, <2>2, <2>3, SMT
<1>5. CASE low >= 32768
  <2>1. Carried(address) = ((address + 65536) % 4294967296) \div 65536
    <3>1. Low(address) >= HalfLimit \div 2
      BY <1>1, <1>3, <1>5, SMT
    <3>2. QED
      BY <1>1, <3>1, CarriesUp, SMT DEF High
  <2>2. Signed(Low(address)) = low - 65536
    BY <1>1, <1>2, <1>3, <1>5, SMT DEF Signed
  <2>3. CASE high < 65535
    <3>1. /\ (address + 65536) % 4294967296 = (high + 1) * 65536 + low
          /\ ((high + 1) * 65536 + low) \div 65536 = high + 1
      <4>1. address + 65536 = (high + 1) * 65536 + low
        BY <1>2, SMT
      <4>2. QED
        BY <1>2, <2>3, <4>1, JoinHalves, SMT
    <3>2. Carried(address) = high + 1
      BY <2>1, <3>1, SMT
    <3>3. (high + 1) * 65536 + (low - 65536) = high * 65536 + low
      BY <1>2, SMT
    <3>4. (high * 65536 + low) % 4294967296 = high * 65536 + low
      BY <1>2, JoinHalves, SMT
    <3>5. QED
      BY <1>1, <1>2, <1>3, <2>2, <3>2, <3>3, <3>4, SMT
  <2>4. CASE high = 65535
    <3>1. (address + 65536) % 4294967296 = low
      BY <1>2, <1>5, <2>4, CarryOut, SMT
    <3>2. low \div 65536 = 0
      BY <1>2, SMT
    <3>3. Carried(address) = 0
      BY <2>1, <3>1, <3>2, SMT
    <3>4. (low - 65536) % 4294967296 = address
      BY <1>2, <1>5, <2>4, CarryOut, SMT
    <3>5. QED
      BY <1>1, <1>2, <1>3, <2>2, <3>3, <3>4, SMT
  <2>5. QED
    BY <1>2, <2>3, <2>4, SMT
<1>6. QED
  BY <1>2, <1>4, <1>5, SMT

-----------------------------------------------------------------------------
(* Numbers of bits, in words of the width the code has *)

\* The widths of the code: a byte, and the part of a jump that is its target.
CodeWidths == ByteBits = 8 /\ JumpBits = 26

\* The powers a header of 16 bits can ask for.
LEMMA PowerTyped ==
    ASSUME NEW n \in 0 .. 16
    PROVE  2 ^ n \in Nat \ {0}
<1>1. \/ n = 0 \/ n = 1 \/ n = 2 \/ n = 3 \/ n = 4 \/ n = 5 \/ n = 6 \/ n = 7 \/ n = 8
      \/ n = 9 \/ n = 10 \/ n = 11 \/ n = 12 \/ n = 13 \/ n = 14 \/ n = 15 \/ n = 16
  OBVIOUS
<1>2. 2 ^ 0 \in Nat \ {0} /\ 2 ^ 1 \in Nat \ {0} /\ 2 ^ 2 \in Nat \ {0}
      /\ 2 ^ 3 \in Nat \ {0} /\ 2 ^ 4 \in Nat \ {0} /\ 2 ^ 5 \in Nat \ {0}
  OBVIOUS
<1>3. 2 ^ 6 \in Nat \ {0} /\ 2 ^ 7 \in Nat \ {0} /\ 2 ^ 8 \in Nat \ {0}
      /\ 2 ^ 9 \in Nat \ {0} /\ 2 ^ 10 \in Nat \ {0} /\ 2 ^ 11 \in Nat \ {0}
  OBVIOUS
<1>4. 2 ^ 12 \in Nat \ {0} /\ 2 ^ 13 \in Nat \ {0} /\ 2 ^ 14 \in Nat \ {0}
      /\ 2 ^ 15 \in Nat \ {0} /\ 2 ^ 16 \in Nat \ {0}
  OBVIOUS
<1>5. QED
  BY <1>1, <1>2, <1>3, <1>4, Zenon

\* The limits, of 16 and 32 bits.
LEMMA LimitsOfCode ==
    ASSUME CodeWidths
    PROVE  HalfLimit = 65536 /\ WordLimit = 4294967296 /\ JumpLimit = 67108864
           /\ 2 ^ ByteBits = 256
<1>1. HalfLimit = 2 ^ 16
  BY DEF CodeWidths, HalfLimit
<1>2. HalfLimit = 65536
  BY <1>1
<1>3. WordLimit = 4294967296
  BY <1>2 DEF WordLimit
<1>4. JumpLimit = 67108864
  BY DEF CodeWidths, JumpLimit
<1>5. 2 ^ ByteBits = 256
  BY DEF CodeWidths
<1>6. QED
  BY <1>2, <1>3, <1>4, <1>5

\* Of some numbers one is the least.
LEMMA LeastNumber ==
    ASSUME NEW T, T \subseteq Nat, T # {}
    PROVE  \E x \in T : \A y \in T : x <= y
<1> DEFINE Less == {ss \in Nat \X Nat : ss[1] < ss[2]}
<1>1. IsWellFoundedOn(Less, Nat)
  BY NatLessThanWellFounded DEF OpToRel
<1>2. \E x \in T : \A y \in T : ~ (<<y, x>> \in Less)
  <2> HIDE DEF Less
  <2> QED
    BY <1>1, WFMin
<1>3. PICK x \in T : \A y \in T : ~ (<<y, x>> \in Less)
  BY <1>2
<1>4. ASSUME NEW y \in T, y < x PROVE FALSE
  <2>1. <<y, x>> \in Less
    BY <1>4
  <2>2. QED
    BY <2>1, <1>3
<1>5. QED
  BY <1>4

\* The loop over seg_bits ends if a width is enough.
LEMMA WidthIsFound ==
    ASSUME NEW index \in Nat, NEW enough \in 1 .. index + 1, 2 ^ enough >= index
    PROVE  SegBits(index) \in Nat \ {0}
<1> DEFINE W == {b \in 1 .. index + 1 : 2 ^ b >= index}
<1>1. W # {} /\ W \subseteq Nat
  OBVIOUS
<1>2. \A b : b \in W <=> b \in 1 .. index + 1 /\ 2 ^ b >= index
  OBVIOUS
<1> HIDE DEF W
<1>3. PICK b \in W : \A c \in W : b <= c
  BY <1>1, LeastNumber
<1>4. /\ b \in 1 .. index + 1 /\ 2 ^ b >= index
      /\ \A c \in 1 .. index + 1 : 2 ^ c >= index => b <= c
  BY <1>2, <1>3
<1>5. SegBits(index) \in 1 .. index + 1
  BY <1>4 DEF SegBits
<1>6. QED
  BY <1>5

\* The field of a segment has a width, for every header of a file.
LEMMA SegBitsTyped ==
    ASSUME NEW index \in Nat, index <= 65534
    PROVE  SegBits(index) \in Nat \ {0}
<1> DEFINE W == {b \in 1 .. index + 1 : 2 ^ b >= index}
<1>1. \/ index >= 15 \/ index <= 2 \/ (index > 2 /\ index <= 8) \/ (index > 8 /\ index <= 16)
  OBVIOUS
<1>2. index >= 15 => 16 \in W
  OBVIOUS
<1>3. index <= 2 => 1 \in W
  OBVIOUS
<1>4. index > 2 /\ index <= 8 => 3 \in W
  OBVIOUS
<1>5. index > 8 /\ index <= 16 => 4 \in W
  OBVIOUS
<1>6. \A b : b \in W <=> b \in 1 .. index + 1 /\ 2 ^ b >= index
  OBVIOUS
<1> HIDE DEF W
<1>7. PICK b : b \in W
  BY <1>1, <1>2, <1>3, <1>4, <1>5
<1>8. b \in 1 .. index + 1 /\ 2 ^ b >= index
  BY <1>6, <1>7
<1>9. QED
  BY <1>8, WidthIsFound

\* Some bits of a number are a number.
LEMMA BitsTyped ==
    ASSUME NEW value \in Nat, NEW from \in 0 .. 16, NEW count \in 0 .. 16
    PROVE  Bits(value, from, count) \in Nat
<1>1. 2 ^ from \in Nat \ {0} /\ 2 ^ count \in Nat \ {0}
  BY PowerTyped
<1> DEFINE a == 2 ^ from
<1> DEFINE b == 2 ^ count
<1>2. Bits(value, from, count) = (value \div a) % b
  BY DEF Bits
<1>3. a \in Nat \ {0} /\ b \in Nat \ {0}
  BY <1>1
<1> HIDE DEF a, b
<1>4. value \div a \in Int
  BY <1>3
<1> DEFINE q == value \div a
<1>5. q \in Int
  BY <1>4
<1> HIDE DEF q
<1>6. q % b \in Nat
  BY <1>3, <1>5
<1>7. QED
  BY <1>2, <1>6 DEF q

-----------------------------------------------------------------------------
(* Words in the bytes of a file *)

\* A number of 32 bits, and byte k of one.
IsWord(n) == n \in Int /\ 0 <= n /\ n <= 4294967295
ByteOf(w, k) == Bits(w, k * ByteBits, ByteBits)

\* The bytes of a number.
LEMMA BytesTyped ==
    ASSUME CodeWidths, NEW w \in Int
    PROVE  /\ ByteOf(w, 0) \in 0 .. 255 /\ ByteOf(w, 1) \in 0 .. 255
           /\ ByteOf(w, 2) \in 0 .. 255 /\ ByteOf(w, 3) \in 0 .. 255
<1>1. ByteOf(w, 0) \in 0 .. 255 /\ ByteOf(w, 1) \in 0 .. 255
  BY SMT DEF ByteOf, Bits, CodeWidths
<1>2. ByteOf(w, 2) \in 0 .. 255 /\ ByteOf(w, 3) \in 0 .. 255
  BY SMT DEF ByteOf, Bits, CodeWidths
<1>3. QED
  BY <1>1, <1>2

\* A word is its bytes, the lowest first.
LEMMA WordOfBytes ==
    ASSUME CodeWidths, NEW w, IsWord(w)
    PROVE  ByteOf(w, 0) + ByteOf(w, 1) * 2 ^ ByteBits + ByteOf(w, 2) * HalfLimit
           + ByteOf(w, 3) * HalfLimit * 2 ^ ByteBits = w
<1>1. (w % 256) + ((w \div 256) % 256) * 256 + ((w \div 65536) % 256) * 65536
      + ((w \div 16777216) % 256) * 65536 * 256 = w
  BY SMT DEF IsWord
<1>2. ByteOf(w, 0) = w % 256 /\ ByteOf(w, 1) = (w \div 256) % 256
  BY SMT DEF ByteOf, Bits, CodeWidths, IsWord
<1>3. ByteOf(w, 2) = (w \div 65536) % 256 /\ ByteOf(w, 3) = (w \div 16777216) % 256
  BY SMT DEF ByteOf, Bits, CodeWidths, IsWord
<1>4. HalfLimit = 65536 /\ 2 ^ ByteBits = 256
  BY LimitsOfCode, SMT
<1>5. QED
  BY <1>1, <1>2, <1>3, <1>4, SMT

\* What is read is a word.
LEMMA WordRead ==
    ASSUME CodeWidths, NEW D, NEW c \in [D -> 0 .. 255], NEW at \in Int, at .. at + 3 \subseteq D
    PROVE  IsWord(WordAt(c, at))
<1>1. c[at] \in 0 .. 255 /\ c[at + 1] \in 0 .. 255 /\ c[at + 2] \in 0 .. 255
      /\ c[at + 3] \in 0 .. 255
  <2>1. at \in D /\ at + 1 \in D /\ at + 2 \in D /\ at + 3 \in D
    OBVIOUS
  <2>2. QED
    BY <2>1
<1> DEFINE b0 == c[at]
<1> DEFINE b1 == c[at + 1]
<1> DEFINE b2 == c[at + 2]
<1> DEFINE b3 == c[at + 3]
<1>2. WordAt(c, at) = b0 + b1 * 256 + b2 * 65536 + b3 * 65536 * 256
  <2>1. HalfLimit = 65536 /\ 2 ^ ByteBits = 256
    BY LimitsOfCode, SMT
  <2>2. QED
    BY <2>1, SMT DEF WordAt
<1>3. b0 \in 0 .. 255 /\ b1 \in 0 .. 255 /\ b2 \in 0 .. 255 /\ b3 \in 0 .. 255
  BY <1>1
<1> HIDE DEF b0, b1, b2, b3
<1>4. QED
  BY <1>2, <1>3, SMT DEF IsWord

\* What a write leaves in the file.
LEMMA WrittenBytes ==
    ASSUME NEW D, NEW c \in [D -> 0 .. 255], NEW at \in Int, at .. at + 3 \subseteq D,
           NEW w \in Int, NEW d, d = WithWord(c, at, w)
    PROVE  /\ DOMAIN d = D
           /\ d[at] = ByteOf(w, 0) /\ d[at + 1] = ByteOf(w, 1)
           /\ d[at + 2] = ByteOf(w, 2) /\ d[at + 3] = ByteOf(w, 3)
           /\ \A i \in D : i \notin at .. at + 3 => d[i] = c[i]
<1>1. DOMAIN d = D /\ \A i \in D : d[i] = IF i \in at .. at + 3
                                         THEN ByteOf(w, i - at) ELSE c[i]
  BY DEF WithWord, ByteOf
<1>2. at \in D /\ at + 1 \in D /\ at + 2 \in D /\ at + 3 \in D
  OBVIOUS
<1>3. at - at = 0 /\ (at + 1) - at = 1 /\ (at + 2) - at = 2 /\ (at + 3) - at = 3
  OBVIOUS
<1>4. at \in at .. at + 3 /\ at + 1 \in at .. at + 3 /\ at + 2 \in at .. at + 3
      /\ at + 3 \in at .. at + 3
  OBVIOUS
<1>5. ASSUME NEW j \in Int, j \in D, j \in at .. at + 3
      PROVE  d[j] = ByteOf(w, j - at)
  BY <1>1, <1>5, Zenon
<1>6. at \in Int /\ at + 1 \in Int /\ at + 2 \in Int /\ at + 3 \in Int
  OBVIOUS
<1>7. d[at] = ByteOf(w, 0)
  <2>1. d[at] = ByteOf(w, at - at)
    BY <1>2, <1>4, <1>5, <1>6, Zenon
  <2>2. QED
    BY <1>3, <2>1, Zenon
<1>8. d[at + 1] = ByteOf(w, 1)
  <2>1. d[at + 1] = ByteOf(w, (at + 1) - at)
    BY <1>2, <1>4, <1>5, <1>6, Zenon
  <2>2. QED
    BY <1>3, <2>1, Zenon
<1>9. d[at + 2] = ByteOf(w, 2)
  <2>1. d[at + 2] = ByteOf(w, (at + 2) - at)
    BY <1>2, <1>4, <1>5, <1>6, Zenon
  <2>2. QED
    BY <1>3, <2>1, Zenon
<1>10. d[at + 3] = ByteOf(w, 3)
  <2>1. d[at + 3] = ByteOf(w, (at + 3) - at)
    BY <1>2, <1>4, <1>5, <1>6, Zenon
  <2>2. QED
    BY <1>3, <2>1, Zenon
<1>11. ASSUME NEW i \in D, i \notin at .. at + 3
       PROVE  d[i] = c[i]
  BY <1>1, <1>11, Zenon
<1>12. QED
  BY <1>1, <1>7, <1>8, <1>9, <1>10, <1>11, Zenon

\* A word written is the word read.
LEMMA WordWritten ==
    ASSUME CodeWidths, NEW D, NEW c \in [D -> 0 .. 255], NEW at \in Int, at .. at + 3 \subseteq D,
           NEW w \in Int, IsWord(w), NEW d, d = WithWord(c, at, w)
    PROVE  WordAt(d, at) = w
<1>1. /\ DOMAIN d = D
      /\ d[at] = ByteOf(w, 0) /\ d[at + 1] = ByteOf(w, 1)
      /\ d[at + 2] = ByteOf(w, 2) /\ d[at + 3] = ByteOf(w, 3)
      /\ \A i \in D : i \notin at .. at + 3 => d[i] = c[i]
  BY WrittenBytes
<1>2. QED
  BY <1>1, WordOfBytes, Zenon DEF WordAt

\* A word that shares no byte with the one written stays.
LEMMA WordElsewhere ==
    ASSUME NEW D, NEW c \in [D -> 0 .. 255], NEW at \in Int, at .. at + 3 \subseteq D,
           NEW w \in Int, NEW d, d = WithWord(c, at, w),
           NEW other \in Int, other .. other + 3 \subseteq D, at \notin other - 3 .. other + 3
    PROVE  WordAt(d, other) = WordAt(c, other)
<1>1. \A i \in D : i \notin at .. at + 3 => d[i] = c[i]
  BY WrittenBytes
<1>2. d[other] = c[other] /\ d[other + 1] = c[other + 1] /\ d[other + 2] = c[other + 2]
      /\ d[other + 3] = c[other + 3]
  BY <1>1
<1>3. QED
  BY <1>2, Zenon DEF WordAt

\* d is what c becomes with word w written at an offset.
Writes(D, c, at, w, d) ==
    /\ c \in [D -> 0 .. 255] /\ at \in Int /\ at .. at + 3 \subseteq D
    /\ w \in Int /\ IsWord(w) /\ d = WithWord(c, at, w)

\* A write leaves bytes.
LEMMA WriteTyped ==
    ASSUME CodeWidths, NEW D, NEW c, NEW at, NEW w, NEW d, Writes(D, c, at, w, d)
    PROVE  d \in [D -> 0 .. 255]
<1>1. /\ c \in [D -> 0 .. 255] /\ at \in Int /\ at .. at + 3 \subseteq D
      /\ w \in Int /\ d = WithWord(c, at, w)
  BY Zenon DEF Writes
<1>2. /\ DOMAIN d = D
      /\ d[at] = ByteOf(w, 0) /\ d[at + 1] = ByteOf(w, 1)
      /\ d[at + 2] = ByteOf(w, 2) /\ d[at + 3] = ByteOf(w, 3)
      /\ \A i \in D : i \notin at .. at + 3 => d[i] = c[i]
  BY <1>1, WrittenBytes
<1>3. /\ ByteOf(w, 0) \in 0 .. 255 /\ ByteOf(w, 1) \in 0 .. 255
      /\ ByteOf(w, 2) \in 0 .. 255 /\ ByteOf(w, 3) \in 0 .. 255
  BY <1>1, BytesTyped
<1>4. ASSUME NEW i \in D PROVE d[i] \in 0 .. 255
  <2>1. CASE i \in at .. at + 3
    <3>1. i = at \/ i = at + 1 \/ i = at + 2 \/ i = at + 3
      BY <1>1, <2>1
    <3>2. QED
      BY <1>2, <1>3, <3>1
  <2>2. CASE i \notin at .. at + 3
    BY <1>1, <1>2, <2>2
  <2>3. QED
    BY <2>1, <2>2
<1>5. d = [i \in D |-> d[i]]
  BY <1>1 DEF WithWord
<1>6. QED
  BY <1>4, <1>5

\* What a write does, at its offset and elsewhere.
LEMMA WriteDone ==
    ASSUME CodeWidths, NEW D, NEW c, NEW at, NEW w, NEW d, Writes(D, c, at, w, d)
    PROVE  /\ d \in [D -> 0 .. 255] /\ WordAt(d, at) = w
           /\ \A other \in Int : other .. other + 3 \subseteq D /\ at \notin other - 3 .. other + 3
                 => WordAt(d, other) = WordAt(c, other)
<1>1. /\ c \in [D -> 0 .. 255] /\ at \in Int /\ at .. at + 3 \subseteq D
      /\ w \in Int /\ IsWord(w) /\ d = WithWord(c, at, w)
  BY Zenon DEF Writes
<1>2. d \in [D -> 0 .. 255]
  BY WriteTyped, Zenon
<1>3. WordAt(d, at) = w
  BY <1>1, WordWritten
<1>4. ASSUME NEW other \in Int, other .. other + 3 \subseteq D, at \notin other - 3 .. other + 3
      PROVE  WordAt(d, other) = WordAt(c, other)
  BY <1>1, <1>4, WordElsewhere
<1>5. QED
  BY <1>2, <1>3, <1>4

-----------------------------------------------------------------------------
(* The types of the decoder *)

\* The types of what the decoder keeps.
DecodeTypes ==
    /\ file \in Files
    /\ stage \in {"decode", "extracted", "apply", "view", "refused", "KeyError"}
    /\ left \in Nat /\ source \in Nat /\ base \in Int
    /\ decoded \in Seq(Relocation) /\ relocations \in Seq(Relocation)

\* What is known of a file.
LEMMA FileTyped ==
    ASSUME CodeWidths, file \in Files
    PROVE  /\ headers \in [DOMAIN headers -> Header] /\ DOMAIN headers \subseteq Nat
           /\ file.stream \in Nat /\ file.stream <= 65534
           /\ coding.flagBits \in 0 .. 16 /\ coding.typeBits \in 0 .. 16
           /\ coding.flags \in Seq(Flag) /\ coding.types \in Seq(Nat) /\ coding.size \in Nat
           /\ file.typeA \in Seq(Relocation)
           /\ file.bytes \in [DOMAIN file.bytes -> 0 .. 255]
<1>1. /\ headers \in [DOMAIN headers -> Header] /\ file.stream \in DOMAIN headers
      /\ DOMAIN headers \subseteq 0 .. HalfLimit - 2
      /\ coding \in Coding /\ file.typeA \in Seq(Relocation)
      /\ file.bytes \in [DOMAIN file.bytes -> 0 .. 2 ^ ByteBits - 1]
  BY FilesAssumption, Zenon DEF headers, coding
<1>2. HalfLimit - 2 = 65534 /\ 2 ^ ByteBits - 1 = 255 /\ 2 * ByteBits = 16
  <2>1. HalfLimit = 65536 /\ 2 ^ ByteBits = 256
    BY LimitsOfCode, SMT
  <2>2. 2 * ByteBits = 16
    BY DEF CodeWidths
  <2>3. QED
    BY <2>1, <2>2, SMT
<1> DEFINE top == HalfLimit - 2
<1> DEFINE byte == 2 ^ ByteBits - 1
<1> DEFINE bits == 2 * ByteBits
<1>3. top = 65534 /\ byte = 255 /\ bits = 16
  BY <1>2, SMT
<1>4. /\ DOMAIN headers \subseteq 0 .. top /\ file.stream \in DOMAIN headers
      /\ coding \in [flagBits: 0 .. bits, typeBits: 0 .. bits, flags: Seq(Flag),
                     types: Seq(Nat), size: Nat]
      /\ file.bytes \in [DOMAIN file.bytes -> 0 .. byte]
  BY <1>1, Zenon DEF Coding
<1> HIDE DEF top, byte, bits
<1>5. DOMAIN headers \subseteq Nat /\ file.stream \in Nat /\ file.stream <= 65534
  <2>1. ASSUME NEW i \in DOMAIN headers PROVE i \in Nat /\ i <= 65534
    <3>1. i \in 0 .. top
      BY <1>4, <2>1, Zenon
    <3>2. top \in Int
      BY <1>3, SMT
    <3>3. i \in Nat /\ i <= top
      BY <3>1, <3>2, SMT
    <3>4. QED
      BY <1>3, <3>3, SMT
  <2>2. QED
    BY <1>4, <2>1, SMT
<1>6. /\ coding.flagBits \in 0 .. 16 /\ coding.typeBits \in 0 .. 16
      /\ coding.flags \in Seq(Flag) /\ coding.types \in Seq(Nat) /\ coding.size \in Nat
  <2>1. bits = 16
    BY <1>3, SMT
  <2>2. coding \in [flagBits: 0 .. 16, typeBits: 0 .. 16, flags: Seq(Flag),
                    types: Seq(Nat), size: Nat]
    BY <1>4, <2>1, Zenon
  <2>3. QED
    BY <2>2, Zenon
<1>7. file.bytes \in [DOMAIN file.bytes -> 0 .. 255]
  <2>1. byte = 255
    BY <1>3, SMT
  <2>2. QED
    BY <1>4, <2>1, Zenon
<1>8. QED
  BY <1>1, <1>5, <1>6, <1>7, SMT

\* The fields of a command are numbers if the widths of the header fit.
LEMMA FieldsTyped ==
    ASSUME CodeWidths, file \in Files, WidthsFit, NEW c \in Nat
    PROVE  /\ FlagIndex(c) \in Nat /\ SegmentIndex(c) \in Nat /\ TypeIndex(c) \in Nat
           /\ 2 ^ TypeShift \in Nat \ {0}
           /\ 2 ^ (TypeShift + coding.typeBits) \in Nat \ {0}
<1>1. coding.flagBits \in 0 .. 16 /\ coding.typeBits \in 0 .. 16
  BY FileTyped, SMT
<1>2. SegBits(file.stream) \in Nat \ {0}
  <2>1. file.stream \in Nat /\ file.stream <= 65534
    BY FileTyped, SMT
  <2>2. QED
    BY <2>1, SegBitsTyped, SMT
<1>3. TypeShift = coding.flagBits + SegBits(file.stream)
  BY DEF TypeShift
<1>4. TypeShift + coding.typeBits <= 16
  BY DEF WidthsFit, CodeWidths
<1>5. SegBits(file.stream) \in 0 .. 16 /\ TypeShift \in 0 .. 16
      /\ TypeShift + coding.typeBits \in 0 .. 16
  BY <1>1, <1>2, <1>3, <1>4
<1>6. FlagIndex(c) \in Nat
  <2>1. 0 \in 0 .. 16
    OBVIOUS
  <2>2. QED
    BY <1>1, <2>1, BitsTyped DEF FlagIndex
<1>7. SegmentIndex(c) \in Nat
  BY <1>1, <1>5, BitsTyped DEF SegmentIndex
<1>8. TypeIndex(c) \in Nat
  BY <1>1, <1>5, BitsTyped DEF TypeIndex
<1>9. 2 ^ TypeShift \in Nat \ {0} /\ 2 ^ (TypeShift + coding.typeBits) \in Nat \ {0}
  BY <1>5, PowerTyped
<1>10. QED
  BY <1>6, <1>7, <1>8, <1>9

\* The signed value of a half.
LEMMA SignedTyped ==
    ASSUME CodeWidths, NEW h \in Int
    PROVE  Signed(h) \in Int
<1>1. HalfLimit = 65536
  BY LimitsOfCode, SMT
<1>2. QED
  BY <1>1, SMT DEF Signed

\* A quotient of numbers is a number.
LEMMA QuotientTyped ==
    ASSUME NEW x \in Int, NEW d \in Nat \ {0}
    PROVE  x \div d \in Int /\ (x \in Nat => x \div d \in Nat)
OBVIOUS

\* Commands are numbers of 16 bits.
LEMMA InputsTyped ==
    ASSUME CodeWidths
    PROVE  Commands \subseteq Nat /\ Halves \subseteq Nat /\ Words \subseteq Nat
<1>1. HalfLimit \in Int /\ WordLimit \in Int
  BY LimitsOfCode, SMT
<1>2. QED
  BY <1>1, StreamAssumption, SMT

\* An entry of the table of flags.
LEMMA FlagTyped ==
    ASSUME CodeWidths, file \in Files, WidthsFit, NEW c \in Nat, Accepted(c)
    PROVE  FlagOf(c) \in Flag
<1>1. FlagIndex(c) \in Nat /\ coding.flags \in Seq(Flag) /\ FlagIndex(c) < Len(coding.flags)
  <2>1. FlagIndex(c) \in Nat
    BY FieldsTyped
  <2>2. coding.flags \in Seq(Flag)
    BY FileTyped, SMT
  <2>3. QED
    BY <2>1, <2>2 DEF Accepted
<1>2. Len(coding.flags) \in Nat /\ FlagIndex(c) + 1 \in 1 .. Len(coding.flags)
  BY <1>1, SMT
<1>3. QED
  BY <1>1, <1>2, ElementOfSeq, Zenon DEF FlagOf

\* The offset a command gives, and what it costs.
LEMMA OffsetTyped ==
    ASSUME CodeWidths, DecodeTypes, WidthsFit, NEW c \in Nat, Accepted(c), FlagOf(c).relocates,
           NEW o \in Offsets(c)
    PROVE  o.at \in Int /\ o.cost \in Nat
<1>1. FlagOf(c).mode \in {0, 2, 4}
  <2>1. FlagOf(c) \in Flag /\ FlagOf(c).mode # 6
    BY FlagTyped, Zenon DEF Accepted, DecodeTypes
  <2>2. QED
    BY <2>1 DEF Flag
<1>2. Delta(c) \in Int
  <2>1. Signed(c) \in Int /\ 2 ^ (TypeShift + coding.typeBits) \in Nat \ {0}
    BY SignedTyped, FieldsTyped DEF DecodeTypes
  <2>2. QED
    BY <2>1, QuotientTyped DEF Delta
<1>3. HalfLimit \in Int
  BY LimitsOfCode, SMT
<1>4. base \in Int /\ Halves \subseteq Nat /\ Words \subseteq Nat
  BY InputsTyped DEF DecodeTypes
<1>5. CASE FlagOf(c).mode = 0
  <2>1. Offsets(c) = {[at |-> base + Delta(c), cost |-> 0]}
    BY <1>5 DEF Offsets
  <2>2. QED
    BY <1>2, <1>4, <2>1
<1>6. CASE FlagOf(c).mode = 2
  <2>1. Offsets(c) = {[at |-> base + Delta(c) * HalfLimit + h, cost |-> 2] : h \in Halves}
    BY <1>6 DEF Offsets
  <2>2. PICK h \in Halves : o = [at |-> base + Delta(c) * HalfLimit + h, cost |-> 2]
    BY <2>1
  <2>3. Delta(c) * HalfLimit \in Int
    BY <1>2, <1>3
  <2>4. QED
    BY <1>4, <2>2, <2>3
<1>7. CASE FlagOf(c).mode = 4
  <2>1. Offsets(c) = {[at |-> w, cost |-> 4] : w \in Words}
    BY <1>7 DEF Offsets
  <2>2. QED
    BY <1>4, <2>1
<1>8. QED
  BY <1>1, <1>5, <1>6, <1>7

\* The low half a command gives, and what it costs.
LEMMA AddendTyped ==
    ASSUME CodeWidths, DecodeTypes, NEW c \in Nat, Accepted(c), FlagOf(c).relocates,
           NEW a \in Addends(c)
    PROVE  a.low \in Int \cup {None} /\ a.cost \in Nat
<1>1. FlagOf(c).low \in {0, 8, 16} /\ Halves \subseteq Nat
  BY InputsTyped DEF Accepted
<1>2. CASE FlagOf(c).low = 0
  <2>1. Addends(c) = {[low |-> 0, cost |-> 0]}
    BY <1>2 DEF Addends
  <2>2. QED
    BY <2>1
<1>3. CASE FlagOf(c).low = 8
  <2>1. Addends(c) = {[low |-> None, cost |-> 0]}
    BY <1>3 DEF Addends
  <2>2. QED
    BY <2>1
<1>4. CASE FlagOf(c).low = 16
  <2>1. Addends(c) = {[low |-> Signed(h), cost |-> 2] : h \in Halves}
    BY <1>4 DEF Addends
  <2>2. PICK h \in Halves : a = [low |-> Signed(h), cost |-> 2]
    BY <2>1
  <2>3. Signed(h) \in Int
    BY <1>1, SignedTyped
  <2>4. QED
    BY <2>2, <2>3
<1>5. QED
  BY <1>1, <1>2, <1>3, <1>4

\* The type a command gives.
LEMMA TypeTyped ==
    ASSUME NEW c, coding.types[TypeIndex(c) + 1] \in DOMAIN CompactTypes
    PROVE  TypeOf(c) \in Nat
<1>1. \A t \in 0 .. 7 : CompactTypes[t] \in Nat
  <2> SUFFICES ASSUME NEW t \in 0 .. 7 PROVE CompactTypes[t] \in Nat
    OBVIOUS
  <2>1. CASE t <= 2
    BY <2>1 DEF CompactTypes
  <2>2. CASE t \in 3 .. 5
    <3>1. ~(t <= 2)
      BY <2>2
    <3>2. QED
      BY <2>2, <3>1 DEF CompactTypes
  <2>3. CASE t >= 6
    <3>1. ~(t <= 2) /\ t \notin 3 .. 5
      BY <2>3
    <3>2. QED
      BY <2>3, <3>1 DEF CompactTypes
  <2>4. QED
    BY <2>1, <2>2, <2>3
<1>2. DOMAIN CompactTypes = 0 .. 7
  BY DEF CompactTypes
<1>3. QED
  BY <1>1, <1>2 DEF TypeOf

\* A command that relocates adds a relocation.
LEMMA RelocationTyped ==
    ASSUME CodeWidths, DecodeTypes, RelocationCommand
    PROVE  DecodeTypes'
<1>1. PICK c \in Commands :
          /\ Accepted(c) /\ FlagOf(c).relocates
          /\ \E o \in Offsets(c), a \in Addends(c) :
                /\ Fits(c, o, a)
                /\ base' = o.at /\ left' = left - (2 + o.cost + a.cost)
                /\ decoded' = Append(decoded,
                     [type |-> TypeOf(c), offset |-> o.at, source |-> source,
                      target |-> SegmentIndex(c), typeB |-> TRUE, addend |-> a.low])
  BY DEF RelocationCommand
<1>2. PICK o \in Offsets(c), a \in Addends(c) :
          /\ Fits(c, o, a)
          /\ base' = o.at /\ left' = left - (2 + o.cost + a.cost)
          /\ decoded' = Append(decoded,
               [type |-> TypeOf(c), offset |-> o.at, source |-> source,
                target |-> SegmentIndex(c), typeB |-> TRUE, addend |-> a.low])
  BY <1>1
<1>3. WidthsFit /\ UNCHANGED <<file, stage, source, relocations>> /\ c \in Nat
  BY InputsTyped DEF RelocationCommand
<1>4. o.at \in Int /\ o.cost \in Nat
  BY <1>1, <1>3, OffsetTyped
<1>5. a.low \in Int \cup {None} /\ a.cost \in Nat
  BY <1>1, <1>3, AddendTyped
<1>6. o.at \in Nat
  BY <1>2, <1>4 DEF Fits, Inside
<1>7. TypeOf(c) \in Nat
  BY <1>1, TypeTyped DEF Accepted
<1>8. SegmentIndex(c) \in Nat
  BY <1>3, FieldsTyped DEF DecodeTypes
<1> DEFINE r == [type |-> TypeOf(c), offset |-> o.at, source |-> source,
                 target |-> SegmentIndex(c), typeB |-> TRUE, addend |-> a.low]
<1>9. source \in Nat
  BY DEF DecodeTypes
<1>10. r \in Relocation
  BY <1>5, <1>6, <1>7, <1>8, <1>9 DEF Relocation
<1>11. decoded' = Append(decoded, r)
  BY <1>2
<1> HIDE DEF r
<1>12. decoded' \in Seq(Relocation)
  BY <1>10, <1>11, AppendProperties DEF DecodeTypes
<1>13. left' \in Nat
  <2>1. 2 + o.cost + a.cost <= left
    BY <1>2 DEF Fits
  <2>2. left \in Nat
    BY DEF DecodeTypes
  <2>3. left' = left - (2 + o.cost + a.cost)
    BY <1>2
  <2>4. QED
    BY <1>4, <1>5, <2>1, <2>2, <2>3
<1>14. base' \in Int
  BY <1>2, <1>4
<1>15. QED
  BY <1>3, <1>12, <1>13, <1>14 DEF DecodeTypes

\* What a module extracts is a list of relocations.
LEMMA ExtractedTyped ==
    ASSUME CodeWidths, DecodeTypes, NEW typeB \in Seq(Relocation), Extracted(typeB),
           UNCHANGED decodeVars
    PROVE  DecodeTypes'
<1>1. file.typeA \in Seq(Relocation)
  BY FileTyped DEF DecodeTypes
<1>2. relocations' \in Seq(Relocation)
  BY <1>1, ConcatProperties DEF Extracted
<1>3. QED
  BY <1>2 DEF DecodeTypes, Extracted, decodeVars

\* A step of the decoder keeps its types.
LEMMA DecodeTyped ==
    ASSUME CodeWidths, DecodeTypes, Decode
    PROVE  DecodeTypes'
<1>1. CASE Broken
  <2>1. <<>> \in Seq(Relocation)
    OBVIOUS
  <2>2. QED
    BY <1>1, <2>1, ExtractedTyped DEF Broken, Malformed
<1>2. CASE StreamEnds
  <2>1. decoded \in Seq(Relocation)
    BY DEF DecodeTypes
  <2>2. QED
    BY <1>2, <2>1, ExtractedTyped DEF StreamEnds
<1>3. CASE StateCommand
  <2>1. PICK c \in Commands :
          /\ \/ /\ FlagOf(c).mode = 0
                /\ base' = c \div 2 ^ TypeShift /\ left' = left - 2
             \/ /\ FlagOf(c).mode = 4 /\ left >= 6
                /\ base' \in Words /\ left' = left - 6
          /\ source' = SegmentIndex(c)
    BY <1>3 DEF StateCommand
  <2>2. /\ WidthsFit /\ left >= 2 /\ c \in Nat /\ Words \subseteq Nat
        /\ UNCHANGED <<file, stage, decoded, relocations>>
    BY <1>3, InputsTyped DEF StateCommand
  <2>3. SegmentIndex(c) \in Nat /\ 2 ^ TypeShift \in Nat \ {0}
    BY <2>2, FieldsTyped DEF DecodeTypes
  <2>4. c \div 2 ^ TypeShift \in Int
    BY <2>2, <2>3, QuotientTyped
  <2>5. base' \in Int /\ left' \in Nat /\ source' \in Nat
    <3>1. left \in Nat
      BY DEF DecodeTypes
    <3>2. base' \in Int
      <4>1. base' = c \div 2 ^ TypeShift \/ base' \in Words
        BY <2>1, Zenon
      <4>2. QED
        <5>1. CASE base' \in Words
          BY <2>2, <5>1
        <5>2. CASE base' = c \div 2 ^ TypeShift
          BY <2>4, <5>2, Zenon
        <5>3. QED
          BY <4>1, <5>1, <5>2, Zenon
    <3>3. left' = left - 2 \/ (left' = left - 6 /\ left >= 6)
      BY <1>3 DEF StateCommand
    <3>4. source' \in Nat
      BY <2>1, <2>3
    <3>5. QED
      BY <2>2, <3>1, <3>2, <3>3, <3>4
  <2>6. QED
    BY <2>2, <2>5 DEF DecodeTypes
<1>4. CASE RelocationCommand
  BY <1>4, RelocationTyped
<1>5. QED
  BY <1>1, <1>2, <1>3, <1>4 DEF Decode

-----------------------------------------------------------------------------
(* Segments *)

\* A header of a file.
LEMMA HeaderTyped ==
    ASSUME CodeWidths, file \in Files, NEW i \in DOMAIN headers
    PROVE  /\ headers[i].vaddr \in Nat /\ headers[i].offset \in Nat
           /\ headers[i].filesz \in Nat /\ headers[i].memsz \in Nat
<1>1. headers \in [DOMAIN headers -> Header]
  BY FileTyped, SMT
<1>2. headers[i] \in Header
  BY <1>1
<1>3. QED
  BY <1>2 DEF Header

\* The word a relocation is about lies in the file.
LEMMA PlaceTyped ==
    ASSUME CodeWidths, file \in Files, NEW r \in Relocation, InFile(r)
    PROVE  /\ FileOffset(r) \in Int
           /\ FileOffset(r) .. FileOffset(r) + 3 \subseteq DOMAIN file.bytes
<1>1. r.source \in DOMAIN headers /\ headers[r.source].load /\ r.offset \in Nat
  BY DEF InFile, IsLoad, Relocation
<1>2. headers[r.source].offset \in Nat /\ headers[r.source].filesz \in Nat
  BY <1>1, HeaderTyped
<1>3. headers[r.source].offset .. headers[r.source].offset + headers[r.source].filesz - 1
         \subseteq DOMAIN file.bytes
  BY <1>1, FilesAssumption, Zenon DEF headers
<1>4. r.offset + 4 <= headers[r.source].filesz
  BY DEF InFile
<1> DEFINE o == headers[r.source].offset
<1> DEFINE s == headers[r.source].filesz
<1>5. FileOffset(r) = o + r.offset
  BY DEF FileOffset
<1> DEFINE n == r.offset
<1>6. /\ o \in Nat /\ s \in Nat /\ n \in Nat /\ n + 4 <= s
      /\ o .. o + s - 1 \subseteq DOMAIN file.bytes /\ FileOffset(r) = o + n
  BY <1>1, <1>2, <1>3, <1>4, <1>5
<1> HIDE DEF o, s, n
<1>7. QED
  BY <1>6

\* The base of the image is an address of it.
LEMMA ImageBaseTyped ==
    ASSUME CodeWidths, file \in Files, Loads # {}
    PROVE  ImageBase \in Nat
<1> DEFINE V == {headers[i].vaddr : i \in Loads}
<1>1. \A i \in Loads : headers[i].vaddr \in Nat
  BY HeaderTyped DEF Loads
<1>2. V # {} /\ V \subseteq Nat
  BY <1>1
<1>3. \A v : v \in V <=> \E i \in Loads : v = headers[i].vaddr
  BY Zenon
<1> HIDE DEF V
<1>4. PICK v \in V : \A w \in V : v <= w
  BY <1>2, LeastNumber
<1>5. v \in {headers[i].vaddr : i \in Loads} /\ \A i \in Loads : v <= headers[i].vaddr
  BY <1>3, <1>4
<1>6. ImageBase \in {headers[i].vaddr : i \in Loads}
  BY <1>5 DEF ImageBase
<1>7. QED
  BY <1>1, <1>6

\* A segment stays in the address space with its base moved.
LEMMA SegmentTyped ==
    ASSUME CodeWidths, file \in Files, Loads # {}, loadAddress \in LoadAddresses,
           LayoutFits(loadAddress), NEW i \in Loads
    PROVE  /\ Moved \in Int /\ SegmentBase(i) = headers[i].vaddr + Moved
           /\ SegmentBase(i) \in Int /\ 0 <= SegmentBase(i)
           /\ SegmentBase(i) + headers[i].memsz <= WordLimit
<1>1. ImageBase \in Nat
  BY ImageBaseTyped
<1>2. WordLimit \in Int
  BY LimitsOfCode, SMT
<1>3. loadAddress \in Int
  BY <1>2, LoadAssumption
<1>4. /\ i \in DOMAIN headers /\ headers[i].load /\ headers[i].memsz > 0
  BY DEF Loads
<1>5. headers[i].vaddr \in Nat /\ headers[i].memsz \in Nat
  BY <1>4, HeaderTyped
<1>6. [addr |-> headers[i].vaddr, size |-> headers[i].memsz] \in file.ranges
  BY <1>4, FilesAssumption, Zenon DEF headers
<1>7. /\ headers[i].vaddr + (loadAddress - ImageBase) >= 0
      /\ headers[i].vaddr + (loadAddress - ImageBase) + headers[i].memsz <= WordLimit
  <2>1. PICK r \in file.ranges : r = [addr |-> headers[i].vaddr, size |-> headers[i].memsz]
    BY <1>6
  <2>2. /\ r.addr + (loadAddress - ImageBase) >= 0
        /\ r.addr + (loadAddress - ImageBase) + r.size <= WordLimit
    BY DEF LayoutFits
  <2>3. r.addr = headers[i].vaddr /\ r.size = headers[i].memsz
    BY <2>1
  <2>4. QED
    BY <2>2, <2>3, Zenon
<1>8. Moved = loadAddress - ImageBase /\ SegmentBase(i) = headers[i].vaddr + Moved
  BY DEF Moved, SegmentBase
<1>9. QED
  BY <1>1, <1>2, <1>3, <1>5, <1>7, <1>8

-----------------------------------------------------------------------------
(* A relocated word *)

\* The halves of a word.
LEMMA HalvesTyped ==
    ASSUME CodeWidths, NEW w, IsWord(w)
    PROVE  /\ High(w) \in Nat /\ High(w) <= 65535 /\ Low(w) \in Nat /\ Low(w) <= 65535
           /\ w = High(w) * 65536 + Low(w)
<1>1. HalfLimit = 65536
  BY LimitsOfCode, SMT
<1>2. High(w) = w \div 65536 /\ Low(w) = w % 65536
  BY <1>1, SMT DEF High, Low
<1>3. /\ w \div 65536 \in Int /\ 0 <= w \div 65536 /\ w \div 65536 <= 65535
      /\ w % 65536 \in Int /\ 0 <= w % 65536 /\ w % 65536 <= 65535
      /\ w = (w \div 65536) * 65536 + (w % 65536)
  BY SMT DEF IsWord
<1>4. QED
  BY <1>2, <1>3, SMT

\* Two halves are a word.
LEMMA WordOfHalves ==
    ASSUME CodeWidths, NEW h \in Int, NEW l \in Int, 0 <= h, h <= 65535, 0 <= l, l <= 65535
    PROVE  /\ IsWord(h * HalfLimit + l)
           /\ Low(h * HalfLimit + l) = l
<1>1. HalfLimit = 65536
  BY LimitsOfCode, SMT
<1>2. h * HalfLimit + l = h * 65536 + l
  BY <1>1, SMT
<1>3. /\ h * 65536 + l \in Int /\ 0 <= h * 65536 + l /\ h * 65536 + l <= 4294967295
      /\ (h * 65536 + l) % 65536 = l
  BY SMT
<1>4. QED
  BY <1>1, <1>2, <1>3, SMT DEF IsWord, Low

\* The carried half of a word is a half.
LEMMA CarriedTyped ==
    ASSUME CodeWidths, NEW a, IsWord(a)
    PROVE  Carried(a) \in Int /\ 0 <= Carried(a) /\ Carried(a) <= 65535
<1>1. HalfLimit = 65536 /\ WordLimit = 4294967296
  BY LimitsOfCode, SMT
<1>2. IsWord((a + HalfLimit) % WordLimit)
  BY <1>1, SMT DEF IsWord
<1>3. /\ High(a) \in Nat /\ High(a) <= 65535
  BY HalvesTyped, SMT
<1>4. /\ High((a + HalfLimit) % WordLimit) \in Nat
      /\ High((a + HalfLimit) % WordLimit) <= 65535
  BY <1>2, HalvesTyped, SMT
<1>5. CASE Low(a) >= HalfLimit \div 2
  BY <1>4, <1>5, SMT DEF Carried
<1>6. CASE ~(Low(a) >= HalfLimit \div 2)
  BY <1>3, <1>6, SMT DEF Carried
<1>7. QED
  BY <1>5, <1>6

\* A jump whose target is moved.
LEMMA JumpTyped ==
    ASSUME CodeWidths, NEW word, IsWord(word), NEW to \in Int, NEW opcode \in Int,
           0 <= opcode, opcode <= 63
    PROVE  IsWord(Jump(opcode, word, to))
<1>1. JumpLimit = 67108864
  BY LimitsOfCode, SMT
<1>2. Jump(opcode, word, to) = opcode * 67108864 + (((word % 67108864) + (to \div 4)) % 67108864)
  BY <1>1, SMT DEF Jump
<1>3. word \in Int
  BY SMT DEF IsWord
<1>4. QED
  BY <1>2, <1>3, SMT DEF IsWord

\* A relocated word is a word.
LEMMA RelocatedIsWord ==
    ASSUME CodeWidths, NEW word, IsWord(word), NEW to \in Int, NEW type \in Supported, NEW low,
           type = R_HI16 => low \in Int
    PROVE  IsWord(Relocated(word, type, to, low))
<1> USE DEF R_NONE, R_16, R_32, R_26, R_HI16, R_LO16, R_GPREL16, R_J26, R_JAL26
<1>1. type \in {0, 1, 2, 4, 5, 6, 7, 14, 15}
  BY SMT DEF Supported
<1>2. HalfLimit = 65536 /\ WordLimit = 4294967296 /\ JumpLimit = 67108864
  BY LimitsOfCode, SMT
<1>3. /\ High(word) \in Nat /\ High(word) <= 65535 /\ Low(word) \in Nat /\ Low(word) <= 65535
      /\ word \in Int
  BY HalvesTyped, SMT DEF IsWord
<1>4. CASE type \in {0, 7}
  BY <1>4, SMT DEF Relocated
<1>5. CASE type = 2
  <2>1. Relocated(word, type, to, low) = (word + to) % WordLimit
    BY <1>5, SMT DEF Relocated
  <2>2. QED
    BY <1>2, <1>3, <2>1, SMT DEF IsWord
<1>6. CASE type \in {1, 6}
  <2>1. Relocated(word, type, to, low) = High(word) * HalfLimit + ((Low(word) + to) % HalfLimit)
    BY <1>6, SMT DEF Relocated
  <2>2. (Low(word) + to) % HalfLimit \in Int /\ 0 <= (Low(word) + to) % HalfLimit
        /\ (Low(word) + to) % HalfLimit <= 65535
    BY <1>2, <1>3, SMT
  <2>3. QED
    BY <1>3, <2>1, <2>2, WordOfHalves, SMT
<1>7. CASE type = 4
  <2>1. Relocated(word, type, to, low) = Jump(word \div JumpLimit, word, to)
    BY <1>7, SMT DEF Relocated
  <2>2. word \div JumpLimit \in Int /\ 0 <= word \div JumpLimit /\ word \div JumpLimit <= 63
    BY <1>2, SMT DEF IsWord
  <2>3. QED
    BY <2>1, <2>2, JumpTyped, SMT
<1>8. CASE type = 14
  <2>1. Relocated(word, type, to, low) = Jump(2, word, to)
    BY <1>8, SMT DEF Relocated
  <2>2. QED
    BY <2>1, JumpTyped, SMT
<1>9. CASE type = 15
  <2>1. Relocated(word, type, to, low) = Jump(3, word, to)
    BY <1>9, SMT DEF Relocated
  <2>2. QED
    BY <2>1, JumpTyped, SMT
<1>10. CASE type = 5
  <2> DEFINE a == (Low(word) * HalfLimit + low + to) % WordLimit
  <2>1. Relocated(word, type, to, low) = High(word) * HalfLimit + Carried(a)
    BY <1>10, SMT DEF Relocated
  <2>2. low \in Int
    BY <1>10, SMT
  <2>3. IsWord(a)
    BY <1>2, <1>3, <2>2, SMT DEF IsWord
  <2> HIDE DEF a
  <2>4. Carried(a) \in Int /\ 0 <= Carried(a) /\ Carried(a) <= 65535
    BY <2>3, CarriedTyped, SMT
  <2>5. QED
    BY <1>3, <2>1, <2>4, WordOfHalves, SMT
<1>11. QED
  BY <1>1, <1>4, <1>5, <1>6, <1>7, <1>8, <1>9, <1>10, SMT

-----------------------------------------------------------------------------
(* The relocations applied so far *)

\* A relocation that build_relocated_load_view neither refuses nor fails on.
WellPlaced(k) ==
    /\ ~Unplaced(k) /\ relocations[k].target \in Loads /\ ~Unresolved(k)

\* The word of a relocation in the file, and what it is to become.
Before(k) == WordAt(file.bytes, FileOffset(relocations[k]))
After(k) ==
    Relocated(Before(k), relocations[k].type, SegmentBase(relocations[k].target), LowHalf(k))

\* The types of a view, and what was checked before it was begun.
ViewTypes ==
    /\ loadAddress \in LoadAddresses \cup {None}
    /\ bytes \in [DOMAIN file.bytes -> 0 .. 255]
    /\ position \in 1 .. Len(relocations) + 1
    /\ stage \in {"decode", "extracted"} => bytes = file.bytes /\ position = 1
    /\ stage \in {"apply", "view"} =>
          loadAddress \in LoadAddresses /\ Loads # {} /\ LayoutFits(loadAddress)
    /\ stage = "view" => position = Len(relocations) + 1

\* A word no other relocation touches is relocated once: not before its turn,
\* and not again after it.
RelocatedOnce ==
    stage \in {"apply", "view"} =>
        \A k \in 1 .. Len(relocations) :
            /\ k < position =>
                  /\ WellPlaced(k)
                  /\ Alone(k) => WordAt(bytes, FileOffset(relocations[k])) = After(k)
            /\ k >= position /\ InFile(relocations[k]) /\ Alone(k) =>
                  WordAt(bytes, FileOffset(relocations[k])) = Before(k)

\* The inductive invariant.
ViewInvariant == DecodeTypes /\ ViewTypes /\ RelocatedOnce

\* A relocation of the module.
LEMMA ElementTyped ==
    ASSUME DecodeTypes, NEW k \in 1 .. Len(relocations)
    PROVE  relocations[k] \in Relocation
BY ElementOfSeq DEF DecodeTypes

\* The low half of a companion in the file.
LEMMA OriginalLowTyped ==
    ASSUME CodeWidths, DecodeTypes, NEW j \in 1 .. Len(relocations), InFile(relocations[j])
    PROVE  OriginalLow(j) \in Int
<1>1. relocations[j] \in Relocation /\ file \in Files
  BY ElementTyped DEF DecodeTypes
<1> DEFINE w == WordAt(file.bytes, FileOffset(relocations[j]))
<1>2. IsWord(w)
  <2>1. /\ FileOffset(relocations[j]) \in Int
        /\ FileOffset(relocations[j]) .. FileOffset(relocations[j]) + 3 \subseteq DOMAIN file.bytes
    BY <1>1, PlaceTyped
  <2>2. file.bytes \in [DOMAIN file.bytes -> 0 .. 255]
    BY <1>1, FileTyped, SMT
  <2>3. QED
    BY <2>1, <2>2, WordRead
<1>3. OriginalLow(j) = Signed(Low(w))
  BY DEF OriginalLow
<1> HIDE DEF w
<1>4. Low(w) \in Int
  BY <1>2, HalvesTyped, SMT
<1>5. QED
  BY <1>3, <1>4, SignedTyped

\* There is a first companion if there is one.
LEMMA CompanionIsFirst ==
    ASSUME DecodeTypes, NEW k \in 1 .. Len(relocations), Companions(k) # {}
    PROVE  Companion(k) \in Companions(k) /\ Companion(k) \in 1 .. Len(relocations)
<1>1. Len(relocations) \in Nat
  BY DEF DecodeTypes
<1>2. Companions(k) \subseteq 1 .. Len(relocations)
  BY <1>1 DEF Companions
<1>3. PICK j \in Companions(k) : \A i \in Companions(k) : j <= i
  <2> DEFINE C == Companions(k)
  <2>1. C \subseteq Nat /\ C # {}
    BY <1>1, <1>2
  <2> HIDE DEF C
  <2>2. \E j \in C : \A i \in C : j <= i
    BY <2>1, LeastNumber
  <2>3. QED
    BY <2>2 DEF C
<1>4. Companion(k) \in Companions(k)
  BY <1>3 DEF Companion
<1>5. QED
  BY <1>2, <1>4

\* The low half a high half is relocated with.
LEMMA LowHalfTyped ==
    ASSUME CodeWidths, DecodeTypes, NEW k \in 1 .. Len(relocations), WellPlaced(k),
           relocations[k].type = R_HI16
    PROVE  LowHalf(k) \in Int
<1>1. relocations[k] \in Relocation
  BY ElementTyped
<1>2. LowHalf(k) # None
  BY DEF WellPlaced, Unresolved
<1>3. CASE ~NeedsCompanion(k)
  <2>1. relocations[k].addend # None
    BY <1>3 DEF NeedsCompanion
  <2>2. relocations[k].addend \in Int
    BY <1>1, <2>1 DEF Relocation
  <2>3. LowHalf(k) = relocations[k].addend
    BY <1>3 DEF LowHalf
  <2>4. QED
    BY <2>2, <2>3
<1>4. CASE NeedsCompanion(k) /\ ~relocations[k].typeB /\ Companions(k) # {}
  <2>1. LowHalf(k) = OriginalLow(Companion(k))
    BY <1>4 DEF LowHalf
  <2>2. InFile(relocations[Companion(k)])
    BY <1>4 DEF WellPlaced, Unplaced
  <2>3. Companion(k) \in 1 .. Len(relocations)
    BY <1>4, CompanionIsFirst
  <2>4. QED
    BY <2>1, <2>2, <2>3, OriginalLowTyped
<1>5. CASE NeedsCompanion(k) /\ ~(~relocations[k].typeB /\ Companions(k) # {})
  <2>1. LowHalf(k) = None
    BY <1>5 DEF LowHalf
  <2>2. QED
    BY <1>2, <2>1
<1>6. QED
  BY <1>3, <1>4, <1>5

\* The address a relocation is relative to.
LEMMA TargetTyped ==
    ASSUME CodeWidths, ViewInvariant, stage \in {"apply", "view"},
           NEW k \in 1 .. Len(relocations), WellPlaced(k)
    PROVE  SegmentBase(relocations[k].target) \in Int
<1>1. /\ file \in Files /\ Loads # {} /\ loadAddress \in LoadAddresses
      /\ LayoutFits(loadAddress)
  BY DEF ViewInvariant, DecodeTypes, ViewTypes
<1>2. relocations[k].target \in Loads
  BY DEF WellPlaced
<1>3. QED
  BY <1>1, <1>2, SegmentTyped

\* What the definitions above say stays the same as long as the file, its
\* relocations and the load address do.
LEMMA ApplicationStays ==
    ASSUME UNCHANGED <<file, relocations, loadAddress>>, NEW k
    PROVE  /\ WellPlaced(k)' = WellPlaced(k) /\ Alone(k)' = Alone(k)
           /\ InFile(relocations[k])' = InFile(relocations[k])
           /\ FileOffset(relocations[k])' = FileOffset(relocations[k])
           /\ Before(k)' = Before(k) /\ After(k)' = After(k)
           /\ Loads' = Loads /\ LayoutFits(loadAddress)' = LayoutFits(loadAddress)
<1> USE DEF headers
<1>1. /\ Loads' = Loads /\ ImageBase' = ImageBase
      /\ LayoutFits(loadAddress)' = LayoutFits(loadAddress)
  BY DEF Loads, ImageBase, LayoutFits
<1>2. \A r : FileOffset(r)' = FileOffset(r) /\ InFile(r)' = InFile(r)
  BY DEF FileOffset, InFile, IsLoad
<1>3. Companions(k)' = Companions(k) /\ Companion(k)' = Companion(k)
  BY DEF Companions, Companion
<1>4. \A j : OriginalLow(j)' = OriginalLow(j)
  BY <1>2 DEF OriginalLow
<1>5. NeedsCompanion(k)' = NeedsCompanion(k) /\ LowHalf(k)' = LowHalf(k)
  BY <1>3, <1>4 DEF LowHalf, NeedsCompanion
<1>6. Unplaced(k)' = Unplaced(k) /\ Unresolved(k)' = Unresolved(k)
  BY <1>2, <1>3, <1>5 DEF Unplaced, Unresolved, NeedsCompanion, IsLoad
<1>7. Before(k)' = Before(k)
  BY <1>2 DEF Before
<1>8. \A i : SegmentBase(i)' = SegmentBase(i)
  BY <1>1 DEF SegmentBase, Moved
<1>9. After(k)' = After(k)
  BY <1>5, <1>7, <1>8 DEF After
<1>10. WellPlaced(k)' = WellPlaced(k)
  BY <1>1, <1>6 DEF WellPlaced
<1>11. Alone(k)' = Alone(k)
  BY <1>2 DEF Alone
<1>12. QED
  BY <1>1, <1>2, <1>7, <1>9, <1>10, <1>11

\* A relocation r is applied: d is the file with word w written at its offset.
Replaces(r, at, w, d) ==
    /\ stage = "apply" /\ position <= Len(relocations) /\ WellPlaced(position)
    /\ r = relocations[position] /\ at = FileOffset(r)
    /\ w = Relocated(WordAt(bytes, at), r.type, SegmentBase(r.target), LowHalf(position))
    /\ d = WithWord(bytes, at, w) /\ bytes' = d /\ position' = position + 1
    /\ UNCHANGED <<file, stage, decodeVars, relocations, loadAddress>>

\* What a relocation writes.
LEMMA AppliedWord ==
    ASSUME CodeWidths, ViewInvariant, NEW r, NEW at, NEW w, NEW d, Replaces(r, at, w, d)
    PROVE  ViewInvariant'
<1>0. /\ stage = "apply" /\ position <= Len(relocations) /\ WellPlaced(position)
      /\ r = relocations[position] /\ at = FileOffset(r)
      /\ w = Relocated(WordAt(bytes, at), r.type, SegmentBase(r.target), LowHalf(position))
      /\ d = WithWord(bytes, at, w) /\ bytes' = d /\ position' = position + 1
      /\ UNCHANGED <<file, stage, decodeVars, relocations, loadAddress>>
  BY DEF Replaces
<1> DEFINE p == position
<1> DEFINE D == DOMAIN file.bytes
<1>1. p \in 1 .. Len(relocations) /\ Len(relocations) \in Nat
  BY <1>0 DEF ViewInvariant, ViewTypes, DecodeTypes
<1>2. r \in Relocation /\ file \in Files /\ bytes \in [D -> 0 .. 255]
  BY <1>0, <1>1, ElementTyped DEF ViewInvariant, DecodeTypes, ViewTypes
<1>3. InFile(r)
  BY <1>0 DEF WellPlaced, Unplaced
<1>4. at \in Int /\ at .. at + 3 \subseteq D
  BY <1>0, <1>2, <1>3, PlaceTyped
<1>5. IsWord(WordAt(bytes, at))
  BY <1>0, <1>2, <1>4, WordRead
<1>6. IsWord(w)
  <2>1. SegmentBase(r.target) \in Int
    BY <1>0, <1>1, TargetTyped
  <2>2. r.type \in Supported
    BY <1>0 DEF WellPlaced, Unresolved
  <2>3. r.type = R_HI16 => LowHalf(p) \in Int
    BY <1>0, <1>1, LowHalfTyped DEF ViewInvariant
  <2>4. QED
    BY <1>0, <1>5, <2>1, <2>2, <2>3, RelocatedIsWord
<1>7. w \in Int
  BY <1>0, <1>6, SMT DEF IsWord
<1>8. d = WithWord(bytes, at, w) /\ UNCHANGED <<file, relocations, loadAddress>>
  BY <1>0
<1>9. Writes(D, bytes, at, w, d)
  BY <1>0, <1>2, <1>4, <1>6, <1>7, <1>8, Zenon DEF Writes
<1>10. /\ d \in [D -> 0 .. 255] /\ WordAt(d, at) = w
       /\ \A other \in Int : other .. other + 3 \subseteq D /\ at \notin other - 3 .. other + 3
             => WordAt(d, other) = WordAt(bytes, other)
  BY <1>9, WriteDone
<1>11. WordAt(d, at) = w
  BY <1>10
<1>12. DecodeTypes'
  BY <1>0 DEF ViewInvariant, DecodeTypes, decodeVars
<1>13. ViewTypes'
  <2>1. Loads' = Loads /\ LayoutFits(loadAddress)' = LayoutFits(loadAddress)
    BY <1>0, ApplicationStays
  <2>2. position' \in 1 .. Len(relocations') + 1
    BY <1>0, <1>1
  <2>3. QED
    BY <1>0, <1>10, <2>1, <2>2 DEF ViewInvariant, ViewTypes
<1>14. ASSUME NEW k \in 1 .. Len(relocations)
       PROVE  /\ k < position' =>
                  /\ WellPlaced(k)'
                  /\ Alone(k)' => WordAt(bytes', FileOffset(relocations[k])') = After(k)'
              /\ k >= position' /\ InFile(relocations[k])' /\ Alone(k)' =>
                  WordAt(bytes', FileOffset(relocations[k])') = Before(k)'
  <2>1. /\ WellPlaced(k)' = WellPlaced(k) /\ Alone(k)' = Alone(k)
        /\ InFile(relocations[k])' = InFile(relocations[k])
        /\ FileOffset(relocations[k])' = FileOffset(relocations[k])
        /\ Before(k)' = Before(k) /\ After(k)' = After(k)
    BY <1>0, ApplicationStays
  <2>2. /\ k < p => /\ WellPlaced(k)
                    /\ Alone(k) => WordAt(bytes, FileOffset(relocations[k])) = After(k)
        /\ k >= p /\ InFile(relocations[k]) /\ Alone(k) =>
              WordAt(bytes, FileOffset(relocations[k])) = Before(k)
    BY <1>0 DEF ViewInvariant, RelocatedOnce
  <2>3. CASE k = p
    <3>1. Alone(p) => WordAt(bytes, at) = Before(p)
      BY <1>0, <1>1, <1>3, <2>2, <2>3
    <3>2. WordAt(bytes, at) = Before(p) => w = After(p)
      BY <1>0 DEF After
    <3>3. FileOffset(relocations[k]) = at
      BY <1>0, <2>3
    <3>4. k < position' /\ ~(k >= position')
      BY <1>0, <1>1, <2>3
    <3>5. WellPlaced(k)
      BY <1>0, <2>3
    <3>6. QED
      BY <1>0, <1>11, <2>1, <2>3, <3>1, <3>2, <3>3, <3>4, <3>5
  <2>4. CASE k # p /\ InFile(relocations[k]) /\ Alone(k)
    <3> DEFINE other == FileOffset(relocations[k])
    <3>1. relocations[k] \in Relocation
      BY <1>0, ElementTyped DEF ViewInvariant
    <3>2. other \in Int /\ other .. other + 3 \subseteq D
      BY <1>0, <1>2, <2>4, <3>1, PlaceTyped
    <3>3. at \notin other - 3 .. other + 3
      BY <1>0, <1>1, <2>4 DEF Alone
    <3> HIDE DEF other
    <3>4. WordAt(d, other) = WordAt(bytes, other)
      BY <1>10, <3>2, <3>3, Zenon
    <3>5. (k < position' <=> k < p) /\ (k >= position' => k >= p)
      BY <1>0, <1>1, <2>4
    <3>6. QED
      BY <1>0, <2>1, <2>2, <3>4, <3>5 DEF other
  <2>5. CASE k # p /\ ~(InFile(relocations[k]) /\ Alone(k))
    <3>1. (k < position' <=> k < p) /\ (k >= position' => k >= p)
      BY <1>0, <1>1, <2>5
    <3>2. WellPlaced(k) => InFile(relocations[k])
      BY <1>0 DEF WellPlaced, Unplaced
    <3>3. QED
      BY <1>0, <2>1, <2>2, <2>5, <3>1, <3>2
  <2>6. QED
    BY <2>3, <2>4, <2>5
<1>15. RelocatedOnce'
  <2>1. relocations' = relocations
    BY <1>0
  <2>2. QED
    BY <1>14, <2>1 DEF RelocatedOnce
<1>16. QED
  BY <1>12, <1>13, <1>15 DEF ViewInvariant

\* A module that is refused keeps its types.
LEMMA RefusedTyped ==
    ASSUME ViewInvariant, NEW error \in {"refused", "KeyError"}, Refuse(error)
    PROVE  ViewInvariant'
BY DEF ViewInvariant, DecodeTypes, ViewTypes, RelocatedOnce, Refuse, decodeVars

\* The decoder has not touched the bytes.
LEMMA DecodeView ==
    ASSUME CodeWidths, ViewInvariant, Decode, UNCHANGED <<loadAddress, bytes, position>>
    PROVE  ViewInvariant'
<1>1. DecodeTypes'
  BY DecodeTyped DEF ViewInvariant
<1>2. stage = "decode" /\ stage' \in {"decode", "extracted"} /\ UNCHANGED file
  BY DEF Decode, Broken, Malformed, StateCommand, RelocationCommand, StreamEnds, Extracted
<1>3. Len(relocations') \in Nat
  BY <1>1 DEF DecodeTypes
<1>4. ViewTypes'
  BY <1>2, <1>3 DEF ViewInvariant, ViewTypes
<1>5. RelocatedOnce'
  BY <1>2 DEF RelocatedOnce
<1>6. QED
  BY <1>1, <1>4, <1>5 DEF ViewInvariant

\* A view begins with the bytes of the file.
LEMMA ViewBegins ==
    ASSUME CodeWidths, ViewInvariant, BeginView
    PROVE  ViewInvariant'
<1>1. /\ stage = "extracted" /\ loadAddress' \in LoadAddresses
      /\ UNCHANGED <<file, decodeVars, relocations, bytes, position>>
      /\ stage' \in {"apply", "refused"}
      /\ stage' = "apply" => Loads # {} /\ LayoutFits(loadAddress')
  BY DEF BeginView
<1>2. DecodeTypes'
  BY <1>1 DEF ViewInvariant, DecodeTypes, decodeVars
<1>3. Loads' = Loads /\ LayoutFits(loadAddress)' = LayoutFits(loadAddress')
  BY <1>1 DEF Loads, LayoutFits, ImageBase, headers
<1>4. ViewTypes'
  BY <1>1, <1>3 DEF ViewInvariant, ViewTypes
<1>5. bytes = file.bytes /\ position = 1
  BY <1>1 DEF ViewInvariant, ViewTypes
<1>6. Len(relocations) \in Nat
  BY DEF ViewInvariant, DecodeTypes
<1>7. RelocatedOnce'
  <2> SUFFICES ASSUME NEW k \in 1 .. Len(relocations)
               PROVE  /\ ~(k < position')
                      /\ WordAt(bytes, FileOffset(relocations[k]))' = Before(k)'
    BY <1>1 DEF RelocatedOnce
  <2>1. ~(k < position')
    BY <1>1, <1>5, <1>6
  <2>2. bytes' = file'.bytes
    BY <1>1, <1>5
  <2>3. QED
    BY <2>1, <2>2 DEF Before
<1>8. QED
  BY <1>2, <1>4, <1>7 DEF ViewInvariant

\* A step of the whole keeps the invariant.
LEMMA ViewKept ==
    ASSUME CodeWidths, ViewInvariant, [Next]_vars
    PROVE  ViewInvariant'
<1>1. CASE UNCHANGED vars
  <2>1. UNCHANGED <<file, stage, decodeVars, relocations, loadAddress, bytes, position>>
    BY <1>1 DEF vars
  <2>2. \A k : /\ WellPlaced(k)' = WellPlaced(k) /\ Alone(k)' = Alone(k)
               /\ InFile(relocations[k])' = InFile(relocations[k])
               /\ FileOffset(relocations[k])' = FileOffset(relocations[k])
               /\ Before(k)' = Before(k) /\ After(k)' = After(k)
               /\ Loads' = Loads /\ LayoutFits(loadAddress)' = LayoutFits(loadAddress)
    BY <2>1, ApplicationStays
  <2>3. DecodeTypes'
    BY <2>1 DEF ViewInvariant, DecodeTypes, decodeVars
  <2>4. ViewTypes'
    BY <2>1, <2>2 DEF ViewInvariant, ViewTypes
  <2>5. RelocatedOnce'
    <3>1. RelocatedOnce
      BY DEF ViewInvariant
    <3>2. ASSUME NEW k \in 1 .. Len(relocations)
          PROVE  WordAt(bytes, FileOffset(relocations[k]))'
                    = WordAt(bytes, FileOffset(relocations[k]))
      BY <2>1, <2>2 DEF WordAt
    <3>3. QED
      BY <2>1, <2>2, <3>1, <3>2 DEF RelocatedOnce
  <2>6. QED
    BY <2>3, <2>4, <2>5 DEF ViewInvariant
<1>2. CASE Decode /\ UNCHANGED <<loadAddress, bytes, position>>
  BY <1>2, DecodeView
<1>3. CASE BeginView
  BY <1>3, ViewBegins
<1>4. CASE Apply
  <2>1. CASE Refuse("refused") \/ Refuse("KeyError")
    BY <2>1, RefusedTyped
  <2>2. CASE /\ ~Unplaced(position) /\ relocations[position].target \in Loads
             /\ ~Unresolved(position)
             /\ bytes' = WithWord(bytes, FileOffset(relocations[position]),
                   Relocated(WordAt(bytes, FileOffset(relocations[position])),
                             relocations[position].type,
                             SegmentBase(relocations[position].target), LowHalf(position)))
             /\ position' = position + 1
             /\ UNCHANGED <<file, stage, decodeVars, relocations, loadAddress>>
    <3>1. stage = "apply" /\ position <= Len(relocations) /\ WellPlaced(position)
      BY <1>4, <2>2 DEF Apply, WellPlaced
    <3>2. QED
      <4> DEFINE r == relocations[position]
      <4> DEFINE at == FileOffset(r)
      <4> DEFINE w == Relocated(WordAt(bytes, at), r.type, SegmentBase(r.target),
                                LowHalf(position))
      <4>1. Replaces(r, at, w, WithWord(bytes, at, w))
        BY <2>2, <3>1 DEF Replaces
      <4>2. QED
        BY <4>1, AppliedWord
  <2>3. QED
    BY <1>4, <2>1, <2>2 DEF Apply
<1>5. CASE Complete
  <2>1. /\ stage = "apply" /\ position > Len(relocations) /\ stage' = "view"
        /\ UNCHANGED <<file, decodeVars, relocations, loadAddress, bytes, position>>
    BY <1>5 DEF Complete
  <2>2. DecodeTypes'
    BY <2>1 DEF ViewInvariant, DecodeTypes, decodeVars
  <2>3. Loads' = Loads /\ LayoutFits(loadAddress)' = LayoutFits(loadAddress)
    BY <2>1, ApplicationStays
  <2>4. position = Len(relocations) + 1
    BY <2>1 DEF ViewInvariant, ViewTypes, DecodeTypes
  <2>5. ViewTypes'
    BY <2>1, <2>3, <2>4 DEF ViewInvariant, ViewTypes
  <2>6. RelocatedOnce'
    <3>1. RelocatedOnce
      BY DEF ViewInvariant
    <3>2. ASSUME NEW k \in 1 .. Len(relocations)
          PROVE  /\ WellPlaced(k)' = WellPlaced(k) /\ Alone(k)' = Alone(k)
                 /\ InFile(relocations[k])' = InFile(relocations[k])
                 /\ Before(k)' = Before(k) /\ After(k)' = After(k)
                 /\ WordAt(bytes, FileOffset(relocations[k]))'
                       = WordAt(bytes, FileOffset(relocations[k]))
      <4>1. FileOffset(relocations[k])' = FileOffset(relocations[k])
        BY <2>1, ApplicationStays
      <4>2. WordAt(bytes, FileOffset(relocations[k]))'
               = WordAt(bytes, FileOffset(relocations[k]))
        BY <2>1, <4>1 DEF WordAt
      <4>3. QED
        BY <2>1, <4>2, ApplicationStays
    <3>3. QED
      BY <2>1, <3>1, <3>2 DEF RelocatedOnce
  <2>7. QED
    BY <2>2, <2>5, <2>6 DEF ViewInvariant
<1>6. QED
  BY <1>1, <1>2, <1>3, <1>4, <1>5 DEF Next

\* The invariant holds of a file that was just read.
LEMMA ViewInitially ==
    ASSUME CodeWidths, Init PROVE ViewInvariant
<1>1. file \in Files /\ bytes = file.bytes /\ position = 1 /\ loadAddress = None
      /\ stage = "decode" /\ left = file.coding.size /\ source = 0 /\ base = 0
      /\ decoded = <<>> /\ relocations = <<>>
  BY DEF Init, DecodeInit
<1>2. file.coding.size \in Nat
  BY <1>1, FileTyped, SMT DEF coding
<1>3. <<>> \in Seq(Relocation) /\ Len(<<>>) = 0
  OBVIOUS
<1>4. DecodeTypes
  BY <1>1, <1>2, <1>3 DEF DecodeTypes
<1>5. bytes \in [DOMAIN file.bytes -> 0 .. 255]
  BY <1>1, FileTyped, SMT
<1>6. ViewTypes
  BY <1>1, <1>3, <1>5 DEF ViewTypes
<1>7. RelocatedOnce
  BY <1>1 DEF RelocatedOnce
<1>8. QED
  BY <1>4, <1>6, <1>7 DEF ViewInvariant

-----------------------------------------------------------------------------
(* The theorems about views *)

\* Every step keeps what is known of the relocations applied so far.
LEMMA ViewAlways ==
    ASSUME CodeWidths PROVE Spec => []ViewInvariant
<1>1. Init => ViewInvariant
  BY ViewInitially
<1>2. ViewInvariant /\ [Next]_vars => ViewInvariant'
  BY ViewKept
<1>3. QED
  BY <1>1, <1>2, PTL DEF Spec

\* The decoder's cursors, the relocations of a module and the bytes of its view
\* keep their types: whatever is written is four bytes (load_view.py,
\* apply_psp_relocation_word).
THEOREM LoadTypeCorrect == ASSUME CodeWidths PROVE Spec => []TypeOK
<1>1. ViewInvariant => TypeOK
  <2> SUFFICES ASSUME ViewInvariant PROVE TypeOK
    OBVIOUS
  <2>1. \A k \in 1 .. Len(decoded) : decoded[k] \in Relocation
    BY ElementOfSeq DEF ViewInvariant, DecodeTypes
  <2>2. \A k \in 1 .. Len(relocations) : relocations[k] \in Relocation
    BY ElementOfSeq DEF ViewInvariant, DecodeTypes
  <2>3. 2 ^ ByteBits - 1 = 255
    BY LimitsOfCode, SMT
  <2>4. bytes \in [DOMAIN file.bytes -> 0 .. 2 ^ ByteBits - 1]
    BY <2>3, Zenon DEF ViewInvariant, ViewTypes
  <2>5. QED
    BY <2>1, <2>2, <2>4 DEF ViewInvariant, DecodeTypes, ViewTypes, TypeOK
<1>2. Spec => []ViewInvariant
  BY ViewAlways
<1>3. QED
  BY <1>1, <1>2, PTL

\* In a view every relocation was applied, and once.
LEMMA AppliedInView ==
    ASSUME ViewInvariant, stage = "view", NEW k \in 1 .. Len(relocations)
    PROVE  /\ WellPlaced(k)
           /\ Alone(k) => WordAt(bytes, FileOffset(relocations[k])) = After(k)
<1>1. k < position
  BY DEF ViewInvariant, ViewTypes, DecodeTypes
<1>2. QED
  BY <1>1 DEF ViewInvariant, RelocatedOnce

\* A word of a relocation as the file has it.
LEMMA BeforeIsWord ==
    ASSUME CodeWidths, DecodeTypes, NEW k \in 1 .. Len(relocations), InFile(relocations[k])
    PROVE  IsWord(Before(k))
<1>1. relocations[k] \in Relocation /\ file \in Files
  BY ElementTyped DEF DecodeTypes
<1>2. /\ FileOffset(relocations[k]) \in Int
      /\ FileOffset(relocations[k]) .. FileOffset(relocations[k]) + 3 \subseteq DOMAIN file.bytes
  BY <1>1, PlaceTyped
<1>3. file.bytes \in [DOMAIN file.bytes -> 0 .. 255]
  BY <1>1, FileTyped, SMT
<1>4. IsWord(WordAt(file.bytes, FileOffset(relocations[k])))
  BY <1>2, <1>3, WordRead
<1>5. QED
  BY <1>4, Zenon DEF Before

\* A pointer and the metadata of the module move by the same distance, for every
\* module and every load address (build_relocated_load_view).
THEOREM PointersAgree == ASSUME CodeWidths PROVE Spec => []PointersMeetMetadata
<1>1. ViewInvariant => PointersMeetMetadata
  <2> SUFFICES ASSUME ViewInvariant, stage = "view", NEW k \in 1 .. Len(relocations),
                      relocations[k].type = R_32, Alone(k),
                      Before(k) < headers[relocations[k].target].memsz,
                      headers[relocations[k].target].vaddr + Before(k) # 0
               PROVE  WordAt(bytes, FileOffset(relocations[k]))
                      = RebasedNonzero(headers[relocations[k].target].vaddr + Before(k))
    BY DEF PointersMeetMetadata, Before
  <2> DEFINE t == relocations[k].target
  <2> DEFINE vaddr == headers[t].vaddr
  <2> DEFINE memsz == headers[t].memsz
  <2> DEFINE pointed == Before(k)
  <2>1. WellPlaced(k) /\ WordAt(bytes, FileOffset(relocations[k])) = After(k)
    BY AppliedInView
  <2>2. t \in Loads /\ InFile(relocations[k])
    BY <2>1 DEF WellPlaced, Unplaced
  <2>3. IsWord(pointed)
    BY <2>2, BeforeIsWord DEF ViewInvariant
  <2>4. After(k) = (pointed + SegmentBase(t)) % WordLimit
    BY DEF After, Relocated, R_NONE, R_16, R_32, R_26, R_HI16, R_LO16, R_GPREL16, R_J26, R_JAL26
  <2>5. /\ Moved \in Int /\ SegmentBase(t) = vaddr + Moved
        /\ SegmentBase(t) \in Int /\ 0 <= SegmentBase(t)
        /\ SegmentBase(t) + memsz <= WordLimit
    <3>1. /\ file \in Files /\ Loads # {} /\ loadAddress \in LoadAddresses
          /\ LayoutFits(loadAddress)
      BY DEF ViewInvariant, DecodeTypes, ViewTypes
    <3>2. QED
      BY <2>2, <3>1, SegmentTyped
  <2>6. vaddr \in Nat /\ memsz \in Nat
    BY <2>2, HeaderTyped DEF ViewInvariant, DecodeTypes, Loads
  <2>7. WordLimit = 4294967296
    BY LimitsOfCode, SMT
  <2>8. RebasedNonzero(vaddr + pointed) = (vaddr + pointed) + Moved
    <3>1. vaddr <= vaddr + pointed /\ vaddr + pointed < vaddr + memsz
      BY <2>3, <2>6, SMT DEF IsWord
    <3>2. \E i \in Loads : headers[i].vaddr <= vaddr + pointed
                           /\ vaddr + pointed < headers[i].vaddr + headers[i].memsz
      BY <2>2, <3>1, Zenon
    <3>3. QED
      BY <3>2, Zenon DEF RebasedNonzero, Rebased
  <2>9. pointed < memsz
    OBVIOUS
  <2> HIDE DEF t, vaddr, memsz, pointed
  <2>10. (pointed + SegmentBase(t)) % WordLimit = (vaddr + pointed) + Moved
    <3>1. pointed + SegmentBase(t) = (vaddr + pointed) + Moved
      BY <2>3, <2>5, <2>6, SMT DEF IsWord
    <3>2. pointed + SegmentBase(t) \in Int /\ 0 <= pointed + SegmentBase(t)
          /\ pointed + SegmentBase(t) < 4294967296
      BY <2>3, <2>5, <2>6, <2>7, <2>9, SMT DEF IsWord
    <3>3. (pointed + SegmentBase(t)) % 4294967296 = pointed + SegmentBase(t)
      BY <3>2, SMT
    <3>4. QED
      BY <2>7, <3>1, <3>3, SMT
  <2>11. WordAt(bytes, FileOffset(relocations[k])) = RebasedNonzero(vaddr + pointed)
    BY <2>1, <2>4, <2>8, <2>10, Zenon
  <2>12. QED
    BY <2>11 DEF t, vaddr, pointed
<1>2. Spec => []ViewInvariant
  BY ViewAlways
<1>3. QED
  BY <1>1, <1>2, PTL

\* The low half of an address does not depend on the high half, nor on whether
\* the low half it is made from was taken as signed.
LEMMA LowHalfMoves ==
    ASSUME NEW x \in Int, NEW l \in Int, NEW s \in Int, NEW t \in Int,
           s = l \/ s = l - 65536
    PROVE  ((x * 65536 + s + t) % 4294967296) % 65536 = (l + t) % 65536
<1> DEFINE n == x * 65536 + s + t
<1> DEFINE q == n \div 4294967296
<1>1. n \in Int /\ q \in Int /\ n % 4294967296 = n - q * 4294967296
  BY SMT
<1>2. n - q * 4294967296 = (l + t) + (x - q * 65536) * 65536
      \/ n - q * 4294967296 = (l + t) + (x - q * 65536 - 1) * 65536
  <2>1. q \in Int
    BY <1>1
  <2> HIDE DEF q
  <2>2. QED
    BY <2>1, SMT
<1>3. ASSUME NEW y \in Int, NEW z \in Int PROVE (y + z * 65536) % 65536 = y % 65536
  BY SMT
<1> HIDE DEF n, q
<1>4. CASE n - q * 4294967296 = (l + t) + (x - q * 65536) * 65536
  BY <1>1, <1>3, <1>4, SMT
<1>5. CASE n - q * 4294967296 = (l + t) + (x - q * 65536 - 1) * 65536
  BY <1>1, <1>3, <1>5, SMT
<1>6. QED
  BY <1>2, <1>4, <1>5

\* A sum is the same if a part of it wrapped before.
LEMMA WrapsOnce ==
    ASSUME NEW n \in Int, NEW t \in Int
    PROVE  ((n % 4294967296) + t) % 4294967296 = (n + t) % 4294967296
BY SMT

\* The low half a high half is relocated with is that of its companion.
LEMMA LowHalfOfPair ==
    ASSUME DecodeTypes, NEW k \in 1 .. Len(relocations), NEW j \in Companions(k),
           WellPlaced(k), relocations[k].type = R_HI16, j = Companion(k),
           ~NeedsCompanion(k) => relocations[k].addend = OriginalLow(j)
    PROVE  LowHalf(k) = OriginalLow(j)
<1>1. LowHalf(k) # None
  BY DEF WellPlaced, Unresolved
<1>2. CASE ~NeedsCompanion(k)
  BY <1>2 DEF LowHalf
<1>3. CASE NeedsCompanion(k) /\ ~relocations[k].typeB
  BY <1>3 DEF LowHalf
<1>4. CASE NeedsCompanion(k) /\ relocations[k].typeB
  <2>1. LowHalf(k) = None
    BY <1>4 DEF LowHalf
  <2>2. QED
    BY <1>1, <2>1
<1>5. QED
  BY <1>2, <1>3, <1>4

\* Two relocated halves, put together by the machine, are the address of the two
\* halves before, moved.
LEMMA PairMoves ==
    ASSUME CodeWidths, NEW wk, IsWord(wk), NEW wj, IsWord(wj), NEW to \in Int
    PROVE  (Low(Relocated(wk, R_HI16, to, Signed(Low(wj)))) * HalfLimit
            + Signed(Low(Relocated(wj, R_LO16, to, None)))) % WordLimit
           = (((Low(wk) * HalfLimit + Signed(Low(wj))) % WordLimit) + to) % WordLimit
<1>1. HalfLimit = 65536 /\ WordLimit = 4294967296
  BY LimitsOfCode, SMT
<1>2. /\ High(wk) \in Int /\ 0 <= High(wk) /\ High(wk) <= 65535 /\ Low(wk) \in Int
      /\ High(wj) \in Int /\ 0 <= High(wj) /\ High(wj) <= 65535
      /\ Low(wj) \in Int /\ 0 <= Low(wj) /\ Low(wj) <= 65535
  BY HalvesTyped, SMT
<1> DEFINE low == Signed(Low(wj))
<1>3. low \in Int /\ (low = Low(wj) \/ low = Low(wj) - 65536)
  BY <1>1, <1>2, SMT DEF Signed
<1> DEFINE A == (Low(wk) * HalfLimit + low + to) % WordLimit
<1>4. Relocated(wk, R_HI16, to, low) = High(wk) * HalfLimit + Carried(A)
  BY DEF Relocated, R_NONE, R_16, R_32, R_26, R_HI16, R_LO16, R_GPREL16, R_J26, R_JAL26
<1>5. Relocated(wj, R_LO16, to, None) = High(wj) * HalfLimit + ((Low(wj) + to) % HalfLimit)
  BY DEF Relocated, R_NONE, R_16, R_32, R_26, R_HI16, R_LO16, R_GPREL16, R_J26, R_JAL26
<1> HIDE DEF low
<1>6. A \in Int /\ 0 <= A /\ A < WordLimit
  BY <1>1, <1>2, <1>3, SMT
<1>7. Low(A) = (Low(wj) + to) % HalfLimit
  <2>1. ((Low(wk) * 65536 + low + to) % 4294967296) % 65536 = (Low(wj) + to) % 65536
    BY <1>2, <1>3, LowHalfMoves, SMT
  <2>2. QED
    BY <1>1, <2>1, SMT DEF Low
<1>8. (((Low(wk) * HalfLimit + low) % WordLimit) + to) % WordLimit = A
  <2>1. Low(wk) * 65536 + low \in Int
    BY <1>2, <1>3, SMT
  <2>2. (((Low(wk) * 65536 + low) % 4294967296) + to) % 4294967296
           = ((Low(wk) * 65536 + low) + to) % 4294967296
    BY <2>1, WrapsOnce, SMT
  <2>3. QED
    BY <1>1, <1>2, <1>3, <2>2, SMT
<1> HIDE DEF A
<1>9. Carried(A) \in Int /\ 0 <= Carried(A) /\ Carried(A) <= 65535
  <2>1. IsWord(A)
    BY <1>1, <1>6, SMT DEF IsWord
  <2>2. QED
    BY <2>1, CarriedTyped
<1>10. Low(High(wk) * HalfLimit + Carried(A)) = Carried(A)
  BY <1>2, <1>9, WordOfHalves
<1>11. Low(High(wj) * HalfLimit + Low(A)) = Low(A)
  <2>1. Low(A) \in Int /\ 0 <= Low(A) /\ Low(A) <= 65535
    BY <1>1, <1>6, SMT DEF Low
  <2>2. QED
    BY <1>2, <2>1, WordOfHalves
<1>12. (Carried(A) * HalfLimit + Signed(Low(A))) % WordLimit = A
  BY <1>1, <1>6, HalvesMakeTheAddress
<1>13. /\ Low(Relocated(wk, R_HI16, to, low)) = Carried(A)
       /\ Low(Relocated(wj, R_LO16, to, None)) = Low(A)
  BY <1>4, <1>5, <1>7, <1>10, <1>11
<1>14. (Low(Relocated(wk, R_HI16, to, low)) * HalfLimit
        + Signed(Low(Relocated(wj, R_LO16, to, None)))) % WordLimit
       = (((Low(wk) * HalfLimit + low) % WordLimit) + to) % WordLimit
  BY <1>8, <1>12, <1>13
<1>15. QED
  BY <1>14 DEF low

\* A pair of a high and a low half makes the address it made before, moved by
\* the base of its segment, for every module and every load address, whatever
\* else is relocated (apply_psp_relocation_word, _type_a_hi16_low_half).
THEOREM PairsAreMoved == ASSUME CodeWidths PROVE Spec => []PairsMoveTogether
<1>1. ViewInvariant => PairsMoveTogether
  <2> SUFFICES ASSUME ViewInvariant, stage = "view", NEW k \in 1 .. Len(relocations),
                      NEW j \in Companions(k),
                      relocations[k].type = R_HI16, relocations[j].type = R_LO16,
                      j = Companion(k), Alone(k), Alone(j),
                      ~NeedsCompanion(k) => relocations[k].addend = OriginalLow(j)
               PROVE  Address(bytes, k, j)
                      = (Address(file.bytes, k, j) + SegmentBase(relocations[k].target)) % WordLimit
    BY DEF PairsMoveTogether
  <2> DEFINE to == SegmentBase(relocations[k].target)
  <2>1. j \in 1 .. Len(relocations) /\ relocations[j].target = relocations[k].target
    BY DEF Companions, ViewInvariant, DecodeTypes
  <2>2. WellPlaced(k) /\ WordAt(bytes, FileOffset(relocations[k])) = After(k)
    BY AppliedInView
  <2>3. WellPlaced(j) /\ WordAt(bytes, FileOffset(relocations[j])) = After(j)
    BY <2>1, AppliedInView
  <2>4. IsWord(Before(k)) /\ IsWord(Before(j))
    BY <2>1, <2>2, <2>3, BeforeIsWord DEF ViewInvariant, WellPlaced, Unplaced
  <2>5. to \in Int
    BY <2>2, TargetTyped
  <2>6. OriginalLow(j) = Signed(Low(Before(j)))
    BY DEF OriginalLow, Before
  <2>7. After(k) = Relocated(Before(k), R_HI16, to, Signed(Low(Before(j))))
    <3>1. LowHalf(k) = OriginalLow(j)
      BY <2>2, LowHalfOfPair DEF ViewInvariant
    <3>2. QED
      BY <2>6, <3>1 DEF After
  <2>8. After(j) = Relocated(Before(j), R_LO16, to, None)
    BY <2>1 DEF After, Relocated, R_NONE, R_16, R_32, R_26, R_HI16, R_LO16, R_GPREL16,
                R_J26, R_JAL26
  <2> HIDE DEF to
  <2>9. (Low(After(k)) * HalfLimit + Signed(Low(After(j)))) % WordLimit
        = (((Low(Before(k)) * HalfLimit + Signed(Low(Before(j)))) % WordLimit) + to) % WordLimit
    BY <2>4, <2>5, <2>7, <2>8, PairMoves
  <2>10. Address(bytes, k, j)
         = (Low(After(k)) * HalfLimit + Signed(Low(After(j)))) % WordLimit
    BY <2>2, <2>3, Zenon DEF Address
  <2>11. Address(file.bytes, k, j)
         = (Low(Before(k)) * HalfLimit + Signed(Low(Before(j)))) % WordLimit
    BY Zenon DEF Address, Before
  <2>12. Address(bytes, k, j) = (Address(file.bytes, k, j) + to) % WordLimit
    BY <2>9, <2>10, <2>11, Zenon
  <2>13. QED
    BY <2>12 DEF to
<1>2. Spec => []ViewInvariant
  BY ViewAlways
<1>3. QED
  BY <1>1, <1>2, PTL
=============================================================================
