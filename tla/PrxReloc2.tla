------------------------------ MODULE PrxReloc2 ------------------------------
(***************************************************************************)
(* prxreloc2.py: the compressed relocations of a module (Type B), a stream *)
(* of commands that carry a segment and an offset from one to the next.    *)
(* A byte has ByteBits bits here; a command is two bytes, a word four.     *)
(* A file has one such stream, and its relocations come after those of     *)
(* Type A; _parse_relocations takes the program headers in their order, of *)
(* which several may be streams and later ones of Type A.                  *)
(***************************************************************************)
EXTENDS Integers, Sequences

CONSTANTS
    None,
    ByteBits,     \* 8
    Commands,     \* the commands a stream may hold,
    Halves,       \* and the 16-bit
    Words,        \* and 32-bit values after them
    Files,        \* the modules: see File
    Ceiling       \* MAX_DECODED_RELOCATIONS

HalfLimit == 2 ^ (2 * ByteBits)
WordLimit == HalfLimit * HalfLimit

\* load: a PT_LOAD header; otherwise PT_PRXRELOC2 or of no interest.
Header == [load: BOOLEAN, vaddr: Nat, offset: Nat, filesz: Nat, memsz: Nat]

\* An entry of the flag table: bit 0, bits 1 to 2 and bits 3 to 5 of it.
Flag == [relocates: BOOLEAN, mode: {0, 2, 4, 6}, low: {8 * k : k \in 0 .. 7}]
Coding == [flagBits: 0 .. 2 * ByteBits, typeBits: 0 .. 2 * ByteBits,
           flags: Seq(Flag), types: Seq(Nat), size: Nat]

\* type: of the ELF psABI.  addend: the low half of a HI16, or None.
Relocation == [type: Nat, offset: Nat, source: Nat, target: Nat, typeB: BOOLEAN,
               addend: Int \cup {None}]

ASSUME StreamAssumption ==
    /\ ByteBits \in Nat \ {0} /\ Ceiling \in Nat
    /\ Commands \subseteq 0 .. HalfLimit - 1 /\ Halves \subseteq 0 .. HalfLimit - 1
    /\ Words \subseteq 0 .. WordLimit - 1

\* headers: by index, of which stream is that of the compressed relocations; a
\* file has at most 2^16 - 1 of them, and what they load from it lies in it.
\* typeA: the relocations of sections and of PT_PRXRELOC headers.
\* ranges: what must stay in the address space, which is loaded segments, their
\* physical addresses and allocated sections.  bytes: the contents of the file.
ASSUME FilesAssumption ==
    \A f \in Files :
        /\ f.headers \in [DOMAIN f.headers -> Header] /\ f.stream \in DOMAIN f.headers
        /\ DOMAIN f.headers \subseteq 0 .. HalfLimit - 2
        /\ f.coding \in Coding
        /\ f.typeA \in Seq(Relocation)
        /\ \A r \in f.ranges : r \in [addr: Nat, size: Nat]
        /\ f.bytes \in [DOMAIN f.bytes -> 0 .. 2 ^ ByteBits - 1]
        /\ \A i \in DOMAIN f.headers : f.headers[i].load =>
              /\ f.headers[i].offset .. f.headers[i].offset + f.headers[i].filesz - 1
                    \subseteq DOMAIN f.bytes
              /\ f.headers[i].memsz > 0 =>
                    [addr |-> f.headers[i].vaddr, size |-> f.headers[i].memsz] \in f.ranges

VARIABLES
    file,
    stage,       \* "decode", "extracted", "apply", "view", "refused", "KeyError"
    left,        \* bytes of the stream not read yet
    source,      \* source_segment_index
    base,        \* relocation_base
    decoded,     \* relocations
    relocations  \* of the model, once extracted

decodeVars == <<left, source, base, decoded>>

-----------------------------------------------------------------------------
(* The header of a stream, and the fields of a command *)

headers == file.headers
coding == file.coding

IsLoad(i) == i \in DOMAIN headers /\ headers[i].load

\* The loop over seg_bits, for the program-header index of the stream.
SegBits(index) ==
    CHOOSE b \in 1 .. index + 1 :
        2 ^ b >= index /\ \A c \in 1 .. index + 1 : 2 ^ c >= index => b <= c

Bits(value, from, count) == (value \div 2 ^ from) % 2 ^ count

FlagIndex(c) == Bits(c, 0, coding.flagBits)
SegmentIndex(c) == Bits(c, coding.flagBits, SegBits(file.stream))
TypeShift == coding.flagBits + SegBits(file.stream)
TypeIndex(c) == Bits(c, TypeShift, coding.typeBits)
FlagOf(c) == coding.flags[FlagIndex(c) + 1]

CompactTypes ==
    [t \in 0 .. 7 |-> CASE t <= 2 -> t [] t \in 3 .. 5 -> t + 1 [] t >= 6 -> t + 8]
TypeOf(c) == CompactTypes[coding.types[TypeIndex(c) + 1]]

\* _signed_u16, _signed_compact_delta.
Signed(half) == IF half >= HalfLimit \div 2 THEN half - HalfLimit ELSE half
Delta(c) == Signed(c) \div 2 ^ (TypeShift + coding.typeBits)

-----------------------------------------------------------------------------
(* What a command may stand for *)

\* The tables have what it names, and its flag and type are known ones.
Accepted(c) ==
    /\ FlagIndex(c) < Len(coding.flags) /\ TypeIndex(c) < Len(coding.types)
    /\ ~FlagOf(c).relocates => FlagOf(c).mode \in {0, 4}
    /\ FlagOf(c).relocates =>
          /\ coding.types[TypeIndex(c) + 1] \in DOMAIN CompactTypes
          /\ IsLoad(source) /\ IsLoad(SegmentIndex(c))
          /\ FlagOf(c).mode # 6 /\ FlagOf(c).low \in {0, 8, 16}

\* The offset of a relocation, by its mode, with the bytes read for it.
Offsets(c) ==
    CASE FlagOf(c).mode = 0 -> {[at |-> base + Delta(c), cost |-> 0]}
      [] FlagOf(c).mode = 2 ->
            {[at |-> base + Delta(c) * HalfLimit + h, cost |-> 2] : h \in Halves}
      [] FlagOf(c).mode = 4 -> {[at |-> w, cost |-> 4] : w \in Words}

Addends(c) ==
    CASE FlagOf(c).low = 0 -> {[low |-> 0, cost |-> 0]}
      [] FlagOf(c).low = 8 -> {[low |-> None, cost |-> 0]}
      [] FlagOf(c).low = 16 -> {[low |-> Signed(h), cost |-> 2] : h \in Halves}

\* Mutant of Inside: an offset below the segment is not looked for.
InsideAbove(at) == at + 4 <= headers[source].memsz

\* A 32-bit word inside the source segment.
Inside(at) == at >= 0 /\ at + 4 <= headers[source].memsz

-----------------------------------------------------------------------------
(* decode_prxreloc2, and the exception _parse_relocations catches *)

DecodeInit ==
    /\ file \in Files
    /\ stage = "decode" /\ left = file.coding.size
    /\ source = 0 /\ base = 0 /\ decoded = <<>> /\ relocations = <<>>

Extracted(typeB) ==
    /\ stage' = "extracted" /\ relocations' = file.typeA \o typeB
    /\ UNCHANGED file

\* Mutant of Malformed: what was decoded before the error is kept.
MalformedPartial == Extracted(decoded) /\ UNCHANGED decodeVars

\* ParseError: a warning, and no relocation of this stream.
Malformed == Extracted(<<>>) /\ UNCHANGED decodeVars

WidthsFit == TypeShift + coding.typeBits <= 2 * ByteBits

Fits(c, o, a) ==
    2 + o.cost + a.cost <= left /\ Inside(o.at) /\ Len(decoded) < Ceiling

\* The widths of the header, a byte too many at the end, a command that is not
\* accepted, or one that does not fit.
Broken ==
    /\ stage = "decode"
    /\ \/ ~WidthsFit \/ left = 1
       \/ /\ left >= 2
          /\ {c \in Commands :
                IF ~Accepted(c) THEN TRUE
                ELSE IF FlagOf(c).relocates
                THEN \E o \in Offsets(c), a \in Addends(c) : ~Fits(c, o, a)
                ELSE FlagOf(c).mode = 4 /\ left < 6} # {}
    /\ Malformed

StateCommand ==
    /\ stage = "decode" /\ WidthsFit /\ left >= 2
    /\ \E c \in Commands :
          /\ Accepted(c) /\ ~FlagOf(c).relocates
          /\ \/ /\ FlagOf(c).mode = 0
                /\ base' = c \div 2 ^ TypeShift /\ left' = left - 2
             \/ /\ FlagOf(c).mode = 4 /\ left >= 6
                /\ base' \in Words /\ left' = left - 6
          /\ source' = SegmentIndex(c)
    /\ UNCHANGED <<file, stage, decoded, relocations>>

RelocationCommand ==
    /\ stage = "decode" /\ WidthsFit /\ left >= 2
    /\ \E c \in Commands :
          /\ Accepted(c) /\ FlagOf(c).relocates
          /\ \E o \in Offsets(c), a \in Addends(c) :
                /\ Fits(c, o, a)
                /\ base' = o.at /\ left' = left - (2 + o.cost + a.cost)
                /\ decoded' = Append(decoded,
                     [type |-> TypeOf(c), offset |-> o.at, source |-> source,
                      target |-> SegmentIndex(c), typeB |-> TRUE, addend |-> a.low])
    /\ UNCHANGED <<file, stage, source, relocations>>

StreamEnds ==
    /\ stage = "decode" /\ WidthsFit /\ left = 0
    /\ Extracted(decoded) /\ UNCHANGED decodeVars

Decode == Broken \/ StateCommand \/ RelocationCommand \/ StreamEnds

-----------------------------------------------------------------------------
(* Properties *)

\* A stream that is not read to its end adds no relocation, and one that is adds
\* all of its own to those of sections (docs/phase7e: "does not discard otherwise
\* usable PRX metadata or Type-A relocations").
AllOrNothing ==
    stage # "decode" =>
        relocations = file.typeA \o (IF left = 0 THEN decoded ELSE <<>>)
=============================================================================
