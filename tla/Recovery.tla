------------------------------- MODULE Recovery -------------------------------
(***************************************************************************)
(* recovery.py: which backend takes an encrypted module, what its answer   *)
(* amounts to, and the gates a recovered image passes.  Definitions only.  *)
(***************************************************************************)
EXTENDS Integers, Sequences

CONSTANTS
    Backends,     \* in order of their names, which breaks ties
    Kinds,        \* of each: "external", "prebuilt" or, from the API, "custom"
    Contents,     \* what a backend may hand over: see Content
    MaxBytes      \* recovery_max_output_bytes

\* original: the encrypted bytes themselves.  kind: what detect_input says.
\* parses: analyze_bytes succeeds.
Content == [original: BOOLEAN, size: Nat, kind: {"elf", "psp_container", "none"},
            parses: BOOLEAN]

ASSUME BackendsAssumption ==
    /\ Kinds \in [1 .. Len(Backends) -> {"external", "prebuilt", "custom"}]
    /\ Contents \subseteq Content
    /\ MaxBytes \in Nat

Outcomes == {"no_backend_accepted", "backend_unavailable", "backend_failed",
             "output_too_large", "output_unchanged", "output_invalid",
             "output_still_encrypted", "verified"}

-----------------------------------------------------------------------------
(* Selection *)

\* A confidence in percent; -1 where the probe raises or answers with none.
Threshold == 50
Accepted(probes) == {i \in 1 .. Len(Backends) : probes[i] >= Threshold}

\* A tool takes everything, a manifest what it has a digest of.
Probes(i) == CASE Kinds[i] = "external" -> {100}
               [] Kinds[i] = "prebuilt" -> {0, 100}
               [] Kinds[i] = "custom" -> {-1, 50, 100}

\* select_recovery_backend.
IsSelected(i, probes) ==
    /\ i \in Accepted(probes)
    /\ \A j \in Accepted(probes) :
          probes[j] < probes[i] \/ (probes[j] = probes[i] /\ i <= j)

-----------------------------------------------------------------------------
(* What a backend answers: an error, or contents *)

Raised(outcome) == [raised |-> outcome]
Handed(content) == [content |-> content]

\* ExternalDecryptorBackend.recover, by how the tool ends: it cannot be run,
\* runs out of time or exits with a code, leaves no output or a readable one.
FromTool(end, content) ==
    CASE end = "cannot_run" -> Raised("backend_unavailable")
      [] end \in {"timeout", "exit_code", "no_output"} -> Raised("backend_failed")
      [] end = "output" /\ content.size > MaxBytes -> Raised("output_too_large")
      [] end = "output" /\ content.size <= MaxBytes -> Handed(content)

ToolEnds == {"cannot_run", "timeout", "exit_code", "no_output", "output"}

\* PrebuiltDumpBackend.recover, by what lies at the path of the manifest.
\* matches: the file has the digest the manifest gives.
FromDump(present, matches, content) ==
    CASE ~present -> Raised("backend_failed")
      [] present /\ content.size > MaxBytes -> Raised("output_too_large")
      [] present /\ content.size <= MaxBytes /\ ~matches -> Raised("output_invalid")
      [] OTHER -> Handed(content)

\* An exception of a custom backend counts as one of the four errors.
Answers(i) ==
    CASE Kinds[i] = "external" -> {FromTool(end, c) : end \in ToolEnds, c \in Contents}
      [] Kinds[i] = "prebuilt" ->
            {FromDump(p, m, c) : p \in BOOLEAN, m \in BOOLEAN, c \in Contents}
      [] Kinds[i] = "custom" ->
            {Handed(c) : c \in Contents} \cup
            {Raised(o) : o \in {"backend_unavailable", "backend_failed",
                                "output_too_large", "output_invalid"}}

-----------------------------------------------------------------------------
(* The gates of recover_bytes, in their order *)

Gate(c) ==
    CASE c.size > MaxBytes -> "output_too_large"
      [] c.size <= MaxBytes /\ c.original -> "output_unchanged"
      [] c.size <= MaxBytes /\ ~c.original /\ c.kind = "none" -> "output_invalid"
      [] c.size <= MaxBytes /\ ~c.original /\ c.kind = "psp_container" ->
            "output_still_encrypted"
      [] c.size <= MaxBytes /\ ~c.original /\ c.kind = "elf" /\ ~c.parses ->
            "output_invalid"
      [] OTHER -> "verified"

\* recover_bytes: the outcome its provenance carries.
OutcomeOf(answer) ==
    IF "raised" \in DOMAIN answer THEN answer.raised ELSE Gate(answer.content)
=============================================================================
