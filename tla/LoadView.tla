------------------------------- MODULE LoadView -------------------------------
(***************************************************************************)
(* load_view.py: a copy of a module with its relocations applied for a     *)
(* load address, and the addresses of its metadata moved with it.          *)
(***************************************************************************)
EXTENDS PrxReloc2

CONSTANTS
    LoadAddresses,
    JumpBits      \* 26, of a word of 32

\* No other is taken: build_relocated_load_view.
ASSUME LoadAssumption == LoadAddresses \subseteq 0 .. WordLimit - 1

VARIABLES
    loadAddress,
    bytes,        \* patched
    position      \* of the relocation to apply next

vars == <<file, stage, decodeVars, relocations, loadAddress, bytes, position>>

TypeOK ==
    /\ file \in Files
    /\ stage \in {"decode", "extracted", "apply", "view", "refused", "KeyError"}
    /\ left \in Nat /\ source \in Nat /\ base \in Int
    /\ \A k \in 1 .. Len(decoded) : decoded[k] \in Relocation
    /\ \A k \in 1 .. Len(relocations) : relocations[k] \in Relocation
    /\ loadAddress \in LoadAddresses \cup {None}
    /\ bytes \in [DOMAIN file.bytes -> 0 .. 2 ^ ByteBits - 1]
    /\ position \in 1 .. Len(relocations) + 1

Init ==
    /\ DecodeInit
    /\ loadAddress = None /\ bytes = file.bytes /\ position = 1

-----------------------------------------------------------------------------
(* Words *)

WordAt(contents, at) ==
    contents[at] + contents[at + 1] * 2 ^ ByteBits
    + contents[at + 2] * HalfLimit + contents[at + 3] * HalfLimit * 2 ^ ByteBits

WithWord(contents, at, word) ==
    [i \in DOMAIN contents |->
        IF i \in at .. at + 3 THEN Bits(word, (i - at) * ByteBits, ByteBits)
        ELSE contents[i]]

Low(word) == word % HalfLimit
High(word) == word \div HalfLimit

\* apply_psp_relocation_word, by type.
R_NONE == 0
R_16 == 1
R_32 == 2
R_26 == 4
R_HI16 == 5
R_LO16 == 6
R_GPREL16 == 7
R_J26 == 14
R_JAL26 == 15

JumpLimit == 2 ^ JumpBits
Jump(opcode, word, to) == opcode * JumpLimit + (((word % JumpLimit) + (to \div 4)) % JumpLimit)

\* Mutant of Carried: the sign of the low half is not made up for.
NotCarried(address) == High(address)

\* The high half of an address whose low half the machine adds as signed.
Carried(address) ==
    High(IF Low(address) >= HalfLimit \div 2 THEN (address + HalfLimit) % WordLimit ELSE address)

Supported == {R_NONE, R_16, R_32, R_26, R_HI16, R_LO16, R_GPREL16, R_J26, R_JAL26}

Relocated(word, type, to, low) ==
    CASE type \in {R_NONE, R_GPREL16} -> word
      [] type = R_32 -> (word + to) % WordLimit
      [] type \in {R_16, R_LO16} -> High(word) * HalfLimit + ((Low(word) + to) % HalfLimit)
      [] type = R_26 -> Jump(word \div JumpLimit, word, to)
      [] type = R_J26 -> Jump(2, word, to)
      [] type = R_JAL26 -> Jump(3, word, to)
      [] type = R_HI16 ->
            High(word) * HalfLimit + Carried((Low(word) * HalfLimit + low + to) % WordLimit)

-----------------------------------------------------------------------------
(* Addresses *)

Loads == {i \in DOMAIN headers : headers[i].load /\ headers[i].memsz > 0}
ImageBase == CHOOSE v \in {headers[i].vaddr : i \in Loads} :
                 \A i \in Loads : v <= headers[i].vaddr
Moved == loadAddress - ImageBase
SegmentBase(i) == headers[i].vaddr + Moved

\* _rebase_loaded_address: an address in no segment stays.
Rebased(address) ==
    IF \E i \in Loads : headers[i].vaddr <= address
                        /\ address < headers[i].vaddr + headers[i].memsz
    THEN address + Moved ELSE address

\* Mutant of RebasedNonzero: the file's first segment alone is looked at.
RebasedInFirst(address) ==
    IF address = 0 \/ 0 \notin Loads \/ address >= headers[0].vaddr + headers[0].memsz
    THEN address ELSE address + Moved

\* _rebase_nonzero_loaded_address: zero stands for no address.
RebasedNonzero(address) == IF address = 0 THEN 0 ELSE Rebased(address)

\* _validate_rebased_layout.
LayoutFits(at) ==
    \A r \in file.ranges :
        /\ r.addr + (at - ImageBase) >= 0
        /\ r.addr + (at - ImageBase) + r.size <= WordLimit

-----------------------------------------------------------------------------
(* build_relocated_load_view *)

BeginView ==
    /\ stage = "extracted"
    /\ loadAddress' \in LoadAddresses
    /\ stage' = IF Loads # {} /\ LayoutFits(loadAddress') THEN "apply" ELSE "refused"
    /\ UNCHANGED <<file, decodeVars, relocations, bytes, position>>

\* _source_file_offset.
InFile(r) == IsLoad(r.source) /\ r.offset + 4 <= headers[r.source].filesz
FileOffset(r) == headers[r.source].offset + r.offset

\* _type_a_hi16_low_half: the first later low half of the same two segments,
\* from the file as it was.
Companions(k) ==
    {j \in k + 1 .. Len(relocations) :
        /\ relocations[j].type \in {R_16, R_LO16}
        /\ relocations[j].source = relocations[k].source
        /\ relocations[j].target = relocations[k].target}
Companion(k) == CHOOSE j \in Companions(k) : \A i \in Companions(k) : j <= i
OriginalLow(j) == Signed(Low(WordAt(file.bytes, FileOffset(relocations[j]))))

NeedsCompanion(k) == relocations[k].type = R_HI16 /\ relocations[k].addend = None
LowHalf(k) ==
    CASE ~NeedsCompanion(k) -> relocations[k].addend
      [] NeedsCompanion(k) /\ ~relocations[k].typeB /\ Companions(k) # {} ->
            OriginalLow(Companion(k))
      [] OTHER -> None

\* What is found before the bases of the segments are looked up.
Unplaced(k) ==
    \/ ~IsLoad(relocations[k].target) \/ ~InFile(relocations[k])
    \/ /\ NeedsCompanion(k) /\ ~relocations[k].typeB /\ Companions(k) # {}
       /\ ~InFile(relocations[Companion(k)])

Unresolved(k) ==
    \/ relocations[k].type \notin Supported
    \/ relocations[k].type = R_HI16 /\ LowHalf(k) = None

Refuse(error) ==
    /\ stage' = error
    /\ UNCHANGED <<file, decodeVars, relocations, loadAddress, bytes, position>>

Apply ==
    /\ stage = "apply" /\ position <= Len(relocations)
    /\ LET r == relocations[position] IN
       \/ Unplaced(position) /\ Refuse("refused")
       \* segment_bases has only segments with a size.
       \/ ~Unplaced(position) /\ r.target \notin Loads /\ Refuse("KeyError")
       \/ /\ ~Unplaced(position) /\ r.target \in Loads /\ Unresolved(position)
          /\ Refuse("refused")
       \/ /\ ~Unplaced(position) /\ r.target \in Loads /\ ~Unresolved(position)
          /\ bytes' = WithWord(bytes, FileOffset(r),
                Relocated(WordAt(bytes, FileOffset(r)), r.type, SegmentBase(r.target),
                          LowHalf(position)))
          /\ position' = position + 1
          /\ UNCHANGED <<file, stage, decodeVars, relocations, loadAddress>>

Complete ==
    /\ stage = "apply" /\ position > Len(relocations)
    /\ stage' = "view"
    /\ UNCHANGED <<file, decodeVars, relocations, loadAddress, bytes, position>>

Next ==
    \/ Decode /\ UNCHANGED <<loadAddress, bytes, position>>
    \/ BeginView \/ Apply \/ Complete

Spec == Init /\ [][Next]_vars

-----------------------------------------------------------------------------
(* Properties *)

\* No other relocation touches a byte of this one's word.
Alone(k) ==
    \A j \in (1 .. Len(relocations)) \ {k} :
        FileOffset(relocations[j]) \notin FileOffset(relocations[k]) - 3 .. FileOffset(relocations[k]) + 3

\* The address two instructions put together from a high and a low half.
Address(contents, hi, lo) ==
    (Low(WordAt(contents, FileOffset(relocations[hi]))) * HalfLimit
     + Signed(Low(WordAt(contents, FileOffset(relocations[lo]))))) % WordLimit

\* A pair of high and low half makes the address it made before, moved by the
\* base of its segment, carries between the halves included (docs/phase7f:
\* "paired high-half relocation").
PairsMoveTogether ==
    stage = "view" =>
        \A k \in 1 .. Len(relocations) : \A j \in Companions(k) :
            /\ relocations[k].type = R_HI16 /\ relocations[j].type = R_LO16
            /\ j = Companion(k) /\ Alone(k) /\ Alone(j)
            /\ ~NeedsCompanion(k) => relocations[k].addend = OriginalLow(j)
            => Address(bytes, k, j)
               = (Address(file.bytes, k, j) + SegmentBase(relocations[k].target)) % WordLimit

\* A pointer to an address of its segment, and that address in the metadata of
\* the module, stay the same address; zero stands for none.  The metadata is no
\* state here: its address is taken to be that of the segment and what the word
\* in the file points to in it, as an address of prx.py is before it is moved.
PointersMeetMetadata ==
    stage = "view" =>
        \A k \in 1 .. Len(relocations) :
            LET r == relocations[k]
                pointed == WordAt(file.bytes, FileOffset(r))
                address == headers[r.target].vaddr + pointed
            IN  r.type = R_32 /\ Alone(k) /\ pointed < headers[r.target].memsz /\ address # 0
                => WordAt(bytes, FileOffset(r)) = RebasedNonzero(address)

\* A view that cannot be built is refused as a ParseError, the one exception a
\* game's analysis isolates to its module (docs/phase7f: "rejects").
RefusedAsParseError == stage # "KeyError"
=============================================================================
