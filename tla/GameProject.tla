----------------------------- MODULE GameProject -----------------------------
(***************************************************************************)
(* disc.py and game_project.py: the executables of a source are found and  *)
(* extracted, taken one by one through analysis and recovery, placed       *)
(* together, taken one by one through disassembly and project generation,  *)
(* and linked.  Any step of any module may fail.                           *)
(***************************************************************************)
EXTENDS Placement, Recovery, Linker

CONSTANTS
    None,
    Name,         \* path -> "eboot", "boot", "metadata", "prx" or "other"
    Magics        \* what the first bytes of the files may be

\* Modules, of Placement, are all files of the source; Units are the same.
ASSUME FilesAssumption ==
    /\ Units = Modules
    /\ Name \in [Modules -> {"eboot", "boot", "metadata", "prx", "other"}]
    /\ Magics \subseteq [Modules -> {"elf", "psp_container", "none"}]

VARIABLES
    magic,        \* of each file
    phase,        \* "scan", "first", "plan", "second", "done", "aborted"
    todo,         \* modules the pass in progress has still to take
    records,      \* records_by_path
    prepared,     \* path -> its image: what went through the first pass
    recovered,    \* path -> contents, the files under recovered/
    sidecars,     \* paths with a .recovery.json
    units,        \* link_units
    links,        \* module_links.json
    trouble       \* history: the modules some step of which has failed

gameVars == <<magic, phase, todo, records, prepared, recovered, sidecars, units, links,
              trouble>>
vars == <<gameVars, planVars>>

Analyzed == {"analyzed", "analyzed_recovered"}
Record_ == [status: Analyzed \cup {"needs_decryption", "failed"},
            from: {"modules", "recovered"}, outcome: Outcomes \cup {None}, placed: BOOLEAN]

TypeOK ==
    /\ PlanTypeOK
    /\ magic \in Magics
    /\ phase \in {"scan", "first", "plan", "second", "done", "aborted"}
    /\ todo \subseteq Modules /\ units \subseteq Modules /\ trouble \subseteq Modules
    /\ DOMAIN records \subseteq Modules /\ \A m \in DOMAIN records : records[m] \in Record_
    /\ DOMAIN prepared \subseteq Modules /\ \A m \in DOMAIN prepared : prepared[m] \in Images
    /\ DOMAIN recovered \subseteq Modules
    /\ \A m \in DOMAIN recovered : recovered[m] \in Contents
    /\ sidecars \subseteq DOMAIN recovered
    /\ links \subseteq [importer: Modules, exporter: Modules, symbol: Symbols,
                        source: {"database", "module", "unresolved"}]

Init ==
    /\ PlanInit
    /\ magic \in Magics
    /\ phase = "scan" /\ todo = {} /\ records = <<>> /\ prepared = <<>>
    /\ recovered = <<>> /\ sidecars = {} /\ units = {} /\ links = {} /\ trouble = {}

-----------------------------------------------------------------------------
(* Scan (disc.py) *)

\* _choose_boot: of two files of its name, apart from case, the last decides.
Usable(name) ==
    \E f \in Modules : /\ Name[f] = name /\ magic[f] # "none"
                       /\ \A g \in Modules : Name[g] = name => Rank[g] <= Rank[f]
BootName == CASE Usable("eboot") -> "eboot"
              [] ~Usable("eboot") /\ Usable("boot") -> "boot"
              [] OTHER -> None

\* _classification: every file of the chosen name is a boot module.
Classification(f) ==
    CASE Name[f] = BootName -> "boot"
      [] Name[f] = "metadata" -> "metadata"
      [] Name[f] \notin {BootName, "metadata"} /\ (Name[f] = "prx" \/ magic[f] # "none") ->
            "module"
      [] OTHER -> "resource"

Candidates == {f \in Modules : Classification(f) \in {"boot", "module"}}

\* scan_game_disc or scan_game_directory, extraction, analyze_game_resources.
Scan ==
    /\ phase = "scan" /\ BootName # None
    /\ phase' = "first" /\ todo' = Candidates
    /\ UNCHANGED <<magic, records, prepared, recovered, sidecars, units, links, trouble,
                   planVars>>

Abort ==
    /\ phase' = "aborted"
    /\ UNCHANGED <<magic, todo, records, prepared, recovered, sidecars, units, links,
                   trouble, planVars>>

ScanFails == phase = "scan" /\ Abort

-----------------------------------------------------------------------------
(* First pass *)

IsFirst(m) == m \in todo /\ \A n \in todo : Rank[m] <= Rank[n]

With(f, m, value) == [n \in DOMAIN f \cup {m} |-> IF n = m THEN value ELSE f[n]]

Note(m, status, from, outcome, placed_) ==
    records' = With(records, m, [status |-> status, from |-> from, outcome |-> outcome,
                                 placed |-> placed_])

Fails(m, from, outcome, placed_) ==
    /\ Note(m, "failed", from, outcome, placed_)
    /\ todo' = todo \ {m} /\ trouble' = trouble \cup {m}
    /\ UNCHANGED <<magic, phase, prepared, units, links, planVars>>

\* The check of this module alone, then on to the next.
Prepare(m, image, from, outcome) ==
    \/ /\ FitsAlone(image)
       /\ prepared' = With(prepared, m, image) /\ todo' = todo \ {m}
       /\ UNCHANGED <<magic, phase, records, units, links, trouble, planVars>>
    \/ ~FitsAlone(image) /\ Fails(m, from, outcome, FALSE)

\* analyze_file raises: of a .prx without a known header it always does.
Unreadable(m) ==
    /\ phase = "first" /\ IsFirst(m)
    /\ Fails(m, "modules", None, FALSE)
    /\ UNCHANGED <<recovered, sidecars>>

Readable(m) ==
    /\ phase = "first" /\ IsFirst(m) /\ magic[m] = "elf"
    /\ \E image \in Images : Prepare(m, image, "modules", None)
    /\ UNCHANGED <<recovered, sidecars>>

StaysEncrypted(m, outcome) ==
    /\ Note(m, "needs_decryption", "modules", outcome, FALSE)
    /\ todo' = todo \ {m} /\ trouble' = trouble \cup {m}
    /\ UNCHANGED <<magic, phase, prepared, recovered, sidecars, units, links, planVars>>

NotRecovered(m) ==
    /\ phase = "first" /\ IsFirst(m) /\ magic[m] = "psp_container"
    /\ \/ Len(Backends) = 0 /\ StaysEncrypted(m, None)
       \/ \E probes \in [1 .. Len(Backends) -> UNION {Probes(i) : i \in 1 .. Len(Backends)}] :
             /\ \A i \in 1 .. Len(Backends) : probes[i] \in Probes(i)
             /\ \/ /\ Len(Backends) > 0 /\ Accepted(probes) = {}
                   /\ StaysEncrypted(m, "no_backend_accepted")
                \/ \E i \in Accepted(probes) : \E a \in Answers(i) :
                      /\ IsSelected(i, probes) /\ OutcomeOf(a) # "verified"
                      /\ StaysEncrypted(m, OutcomeOf(a))

\* Mutant of Keep: the provenance is written before the image.
KeepAfter(m, content) ==
    \/ Fails(m, "recovered", "verified", FALSE) /\ UNCHANGED <<recovered, sidecars>>
    \/ /\ sidecars' = sidecars \cup {m}
       /\ \/ Fails(m, "recovered", "verified", FALSE) /\ UNCHANGED recovered
          \/ /\ recovered' = With(recovered, m, content)
             /\ \E image \in Images : Prepare(m, image, "recovered", "verified")

\* The image is written, then its provenance; either write may fail.
Keep(m, content) ==
    \/ Fails(m, "recovered", "verified", FALSE) /\ UNCHANGED <<recovered, sidecars>>
    \/ /\ recovered' = With(recovered, m, content)
       /\ \/ Fails(m, "recovered", "verified", FALSE) /\ UNCHANGED sidecars
          \/ /\ sidecars' = sidecars \cup {m}
             /\ \E image \in Images : Prepare(m, image, "recovered", "verified")

Recovered(m) ==
    /\ phase = "first" /\ IsFirst(m) /\ magic[m] = "psp_container"
    /\ \E probes \in [1 .. Len(Backends) -> UNION {Probes(i) : i \in 1 .. Len(Backends)}] :
       \E i \in Accepted(probes) : \E a \in Answers(i) :
          /\ \A j \in 1 .. Len(Backends) : probes[j] \in Probes(j)
          /\ IsSelected(i, probes) /\ OutcomeOf(a) = "verified"
          /\ Keep(m, a.content)

-----------------------------------------------------------------------------
(* The plan of all prepared modules *)

PlanBegins ==
    /\ phase = "first" /\ todo = {}
    /\ phase' = "plan"
    /\ \/ /\ DOMAIN prepared # {}
          /\ Begin([m \in DOMAIN prepared |->
                      [image |-> prepared[m], boot |-> Classification(m) = "boot"]])
       \/ DOMAIN prepared = {} /\ UNCHANGED planVars
    /\ UNCHANGED <<magic, todo, records, prepared, recovered, sidecars, units, links, trouble>>

PlanGoesOn == phase = "plan" /\ Plan /\ UNCHANGED gameVars

PlanEnds ==
    /\ phase = "plan" /\ (stage = "done" \/ DOMAIN prepared = {})
    /\ phase' = "second" /\ todo' = DOMAIN prepared
    /\ UNCHANGED <<magic, records, prepared, recovered, sidecars, units, links, trouble,
                   planVars>>

\* Its ParseError is outside the boundary of any module.
PlanRaises == phase = "plan" /\ stage = "raised" /\ Abort

-----------------------------------------------------------------------------
(* Second pass, and the links *)

From(m) == IF m \in sidecars THEN "recovered" ELSE "modules"
OutcomeFor(m) == IF m \in sidecars THEN "verified" ELSE None

\* Mutant of Disassemble: a module is linked before its load view is built.
DisassembleEarly(m) ==
    /\ phase = "second" /\ IsFirst(m)
    /\ \/ Note(m, IF m \in sidecars THEN "analyzed_recovered" ELSE "analyzed",
               From(m), OutcomeFor(m), TRUE) /\ trouble' = trouble
       \/ Note(m, "failed", From(m), OutcomeFor(m), TRUE) /\ trouble' = trouble \cup {m}
    /\ todo' = todo \ {m} /\ units' = units \cup {m}
    /\ UNCHANGED <<magic, phase, prepared, recovered, sidecars, links, planVars>>

\* disassemble_file, generate_project and the load view for the linker.
Disassemble(m) ==
    /\ phase = "second" /\ IsFirst(m)
    /\ Note(m, IF m \in sidecars THEN "analyzed_recovered" ELSE "analyzed",
            From(m), OutcomeFor(m), TRUE)
    /\ todo' = todo \ {m} /\ units' = units \cup {m}
    /\ UNCHANGED <<magic, phase, prepared, recovered, sidecars, links, trouble, planVars>>

\* Any of the three raises.
NotDisassembled(m) ==
    /\ phase = "second" /\ IsFirst(m)
    /\ Fails(m, From(m), OutcomeFor(m), TRUE)
    /\ UNCHANGED <<recovered, sidecars>>

\* The KeyError of the load view (LoadView, Apply) is none of the errors the
\* boundary of a module holds back.
Escapes(m) == phase = "second" /\ IsFirst(m) /\ ~prepared[m].exec /\ Abort

\* EngineUnavailableError: the engine is found missing by the first module
\* that gets as far as it.
EngineMissing == phase = "second" /\ todo # {} /\ units = {} /\ Abort

\* A database that cannot be read, or a write that fails, ends the game.
LinkAll ==
    /\ phase = "second" /\ todo = {}
    /\ \/ /\ phase' = "done" /\ links' = Links(units)
          /\ UNCHANGED <<magic, todo, records, prepared, recovered, sidecars, units, trouble,
                         planVars>>
       \/ Abort

Next ==
    \/ Scan \/ ScanFails
    \/ \E m \in Modules : Unreadable(m) \/ Readable(m) \/ NotRecovered(m) \/ Recovered(m)
    \/ PlanBegins \/ PlanGoesOn \/ PlanEnds \/ PlanRaises
    \/ \E m \in Modules : Disassemble(m) \/ NotDisassembled(m) \/ Escapes(m)
    \/ EngineMissing \/ LinkAll

Spec == Init /\ [][Next]_vars

\* One thread runs from the scan to the last write.
FairSpec == Spec /\ WF_vars(Next)

-----------------------------------------------------------------------------
(* Properties *)

\* Every executable of the game ends with one record, linked exactly if it
\* says analyzed; no failure of one drops or damages another's
\* (generate_game_project: records_by_path[...] for every candidate).
EveryModuleAccounted ==
    phase = "done" =>
        /\ DOMAIN records = Candidates
        /\ units = {m \in Candidates : records[m].status \in Analyzed}
        /\ \A m \in Candidates \ trouble : m \in units

\* docs/phase7b-game-analysis.md: a malformed or unsupported secondary module
\* does not prevent analysis of valid modules elsewhere on the disc; here, none
\* prevents it by the place it would take.
NoModuleStopsTheGame == phase = "aborted" => stage # "raised"

\* The analysis of a game ends, the search for a free range included
\* (_find_free: while True).
AnalysisEnds == <>(phase \in {"done", "aborted"})
=============================================================================
