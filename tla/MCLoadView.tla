------------------------------ MODULE MCLoadView ------------------------------
EXTENDS LoadView, TLC

MCByteBits == 4
MCJumpBits == 14
MCCeiling == 2
MCLoadAddresses == {0, 120, 384, 65520}

\* Two segments, the first with four bytes that are not in the file, and a
\* third header that is loaded but empty, before the stream.
Seg(v, o, f, m) == [load |-> TRUE, vaddr |-> v, offset |-> o, filesz |-> f, memsz |-> m]
NotLoaded == [load |-> FALSE, vaddr |-> 0, offset |-> 0, filesz |-> 0, memsz |-> 0]
TwoSegments == 0 :> Seg(0, 0, 8, 12) @@ 1 :> Seg(16, 8, 4, 4) @@ 2 :> NotLoaded
WithEmpty == 0 :> Seg(16, 0, 8, 8) @@ 1 :> Seg(32, 8, 0, 0) @@ 2 :> NotLoaded @@ 3 :> NotLoaded

F(r, m, l) == [relocates |-> r, mode |-> m, low |-> l]
\* HI16 and LO16 by deltas; words and a type that is not known by offsets.
Pairs == [flagBits |-> 2, typeBits |-> 1, types |-> <<4, 5>>, size |-> 8,
          flags |-> <<F(FALSE, 0, 0), F(TRUE, 0, 0), F(TRUE, 2, 16), F(TRUE, 4, 8)>>]
Mixed == [flagBits |-> 2, typeBits |-> 1, types |-> <<2, 9>>, size |-> 9,
          flags |-> <<F(FALSE, 4, 0), F(FALSE, 2, 0), F(TRUE, 0, 0)>>]
TooWide == [flagBits |-> 6, typeBits |-> 2, types |-> <<2>>, size |-> 2,
            flags |-> <<F(FALSE, 0, 0)>>]
Empty == [Pairs EXCEPT !.size = 0]

\* A command: an entry of each table, a segment, and a delta of four bits.
MCCommands ==
    {f + 4 * s + 8 * t + 16 * p : f \in 0 .. 3, s \in 0 .. 1, t \in 0 .. 1,
                              p \in {0, 4, 14}}
MCHalves == {0, 4, 5, 126, 128}
MCWords == {0, 4, 9, 300}

A(type, offset, from, to) ==
    [type |-> type, offset |-> offset, source |-> from, target |-> to, typeB |-> FALSE,
     addend |-> None]
TypeAs ==
    {<<A(R_HI16, 0, 0, 0), A(R_LO16, 4, 0, 0)>>,
     <<A(R_HI16, 0, 0, 1), A(R_LO16, 4, 0, 0), A(R_16, 4, 0, 1)>>,
     <<A(R_HI16, 0, 0, 0), A(R_HI16, 0, 1, 0), A(R_LO16, 4, 0, 0)>>,
     <<A(R_32, 0, 0, 0), A(R_32, 0, 1, 0)>>,
     <<A(R_32, 0, 1, 1), A(R_32, 0, 0, 1), A(R_26, 2, 0, 0)>>,
     <<A(R_J26, 0, 0, 0), A(R_JAL26, 4, 0, 0), A(R_GPREL16, 0, 1, 0)>>,
     <<A(R_LO16, 4, 0, 1), A(R_32, 8, 0, 0)>>,
     <<A(R_32, 0, 3, 0)>>,
     <<A(13, 0, 0, 0)>>}

\* Words in little-endian bytes: a small number, one that carries into the
\* high half, and one whose low half is negative.
Contents == {<<7, 0, 1, 6>> \o <<5, 0, 4, 10>> \o <<2, 0, 0, 0>>,
             <<15, 3, 9, 2>> \o <<0, 8, 8, 1>> \o <<1, 1, 0, 0>>,
             <<1, 0, 2, 3>> \o <<14, 7, 15, 15>> \o <<0, 0, 0, 0>>}
Bytes(c) == [i \in 0 .. 11 |-> c[i + 1]]
Ranges(h) == {[addr |-> h[i].vaddr, size |-> h[i].memsz] : i \in {j \in 0 .. 1 : h[j].memsz > 0}}
             \cup {[addr |-> h[0].vaddr, size |-> 1]}
FileOf(h, c, a, b) ==
    [headers |-> h, stream |-> IF 3 \in DOMAIN h THEN 3 ELSE 2, coding |-> c, typeA |-> a, ranges |-> Ranges(h),
     bytes |-> Bytes(b)]

MCFiles ==
    {FileOf(h, Empty, a, b) : h \in {TwoSegments, WithEmpty}, a \in TypeAs, b \in Contents}
    \cup {FileOf(TwoSegments, c, <<>>, b) : c \in {Pairs}, b \in Contents}
    \cup {FileOf(h, c, <<A(R_LO16, 4, 0, 0)>>, b) :
            h \in {TwoSegments, WithEmpty}, c \in {Mixed, TooWide},
            b \in {<<15, 3, 9, 2>> \o <<0, 8, 8, 1>> \o <<1, 1, 0, 0>>}}
=============================================================================
