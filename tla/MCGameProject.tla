---------------------------- MODULE MCGameProject ----------------------------
EXTENDS GameProject, TLC

CONSTANTS eboot, eboot2, boot, prx, s1, s2, s3

MCModules == {eboot, eboot2, boot, prx}
MCRank == boot :> 1 @@ eboot :> 2 @@ eboot2 :> 3 @@ prx :> 4
MCName == boot :> "boot" @@ eboot :> "eboot" @@ eboot2 :> "eboot" @@ prx :> "prx"

\* A boot file may be encrypted, plain, or no executable at all.
MCMagics ==
    {boot :> b @@ eboot :> e @@ eboot2 :> f @@ prx :> p :
        b \in {"elf", "none"}, e \in {"psp_container", "none"},
        f \in {"elf", "none"}, p \in {"elf", "psp_container"}}

\* An executable in the middle of the addresses, two relocatable images of which
\* one asks for more than the grain, and one without a segment.
Segments(v, n, a) == {[vaddr |-> v, memsz |-> n, align |-> a]}
MCImages == {[exec |-> TRUE, segments |-> Segments(10, 4, 1)],
             [exec |-> FALSE, segments |-> Segments(0, 3, 4)],
             [exec |-> FALSE, segments |-> Segments(0, 2, 3) \cup Segments(4, 1, 0)],
             [exec |-> FALSE, segments |-> {}]}
MCLimit == 21
MCGrain == 2
MCFirst == 3

MCBackends == <<"external", "prebuilt">>
MCKinds == <<"external", "prebuilt">>
MCContents ==
    {[original |-> o, size |-> n, kind |-> k, parses |-> TRUE] :
        o \in {FALSE}, n \in {1, 3}, k \in {"elf", "psp_container"}}
    \cup {[original |-> TRUE, size |-> 2, kind |-> "psp_container", parses |-> TRUE],
          [original |-> FALSE, size |-> 2, kind |-> "none", parses |-> FALSE],
          [original |-> FALSE, size |-> 2, kind |-> "elf", parses |-> FALSE]}
MCMaxBytes == 2

\* s1 has one provider, s2 two, and s3 the importer itself for one.
MCSymbols == {s1, s2, s3}
MCImports == boot :> {s1, s2} @@ eboot :> {s1, s2} @@ eboot2 :> {s1, s3} @@ prx :> {s3}
MCExports == boot :> {} @@ eboot :> {s3} @@ eboot2 :> {s2, s3} @@ prx :> {s1, s2}
MCKnown == {s1}
MCNamed == boot :> {} @@ eboot :> {} @@ eboot2 :> {s2} @@ prx :> {s1}
=============================================================================
