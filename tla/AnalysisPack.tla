----------------------------- MODULE AnalysisPack -----------------------------
(***************************************************************************)
(* analysis_pack.py: create_analysis_pack gathers evidence on one module,  *)
(* function or resource of an analyzed workspace, within a budget, and     *)
(* puts it into one file.  The source is edited, prepared and analyzed     *)
(* again at any time, while a call goes on as well.                        *)
(***************************************************************************)
EXTENDS Integers, Sequences, SequencesExt

CONSTANTS
    None, Left,   \* no value; what a call that was killed left in its temporary file
    Contents,     \* what the selected file may hold
    SizeOf,       \* content -> its size
    Budgets,      \* max_bytes of a call
    Windows,      \* context_bytes of a call
    Records,      \* sizes a piece of JSON evidence may have
    Entry         \* bytes of the manifest for each artifact, and for its rest

ASSUME PackAssumption ==
    /\ SizeOf \in [Contents -> Nat \ {0}]
    /\ Budgets \subseteq Nat \ {0} /\ Windows \subseteq Nat
    /\ Records \subseteq Nat \ {0} /\ Entry \in Nat

VARIABLES
    world,       \* the content of the file in the source
    manifest,    \* files.json: the content whose size and digest it has
    analysis,    \* analysis/game_project: what it has of the file, or None
    call,        \* the pack that is being made, or Idle
    temp,        \* the temporary file beside the output, None or Left
    output       \* the file at the output path, or None

files == <<world, manifest, analysis>>
vars == <<world, manifest, analysis, call, temp, output>>

-----------------------------------------------------------------------------
(* What goes into a pack *)

Kinds == {"module", "function", "resource"}

\* The status of the record; a recovered module's bytes are none of the source's.
Analyzed == [content: Contents, status: {"analyzed", "analyzed_recovered"}]

\* In order: evidence of the record, which is JSON; the check of the digest;
\* a window of the bytes; all of them, if they fit; and more evidence.
Steps(kind) ==
    CASE kind = "module" -> <<"json", "json", "verify", "full">>
      [] kind = "function" -> <<"json", "json", "verify", "window", "json">>
      [] kind = "resource" -> <<"json", "verify", "window", "full", "json">>

Artifact == [kind: {"json", "window", "full"}, size: Nat]

\* of: the contents its bytes were read from; names: that of its manifest; late,
\* history: an analysis came between the check of the digest and the reading.
Pack == [kind: Kinds, artifacts: Seq(Artifact), manifest: Nat, of: SUBSET Contents,
         names: Contents, budget: Budgets, late: BOOLEAN]

Bytes(artifacts) == FoldSeq(LAMBDA a, sum : a.size + sum, 0, artifacts)

\* _canonical_json of _pack_manifest.
ManifestSize(artifacts) == Entry * (Len(artifacts) + 1)

\* Mutant of Total: the manifest has no part in the budget.
TotalWithoutManifest(artifacts) == Bytes(artifacts)

Total(artifacts) == Bytes(artifacts) + ManifestSize(artifacts)

-----------------------------------------------------------------------------
\* record: the content the manifest named when the call loaded it; status: that
\* of the record it looked up, which has the path of the bytes.
Call == [at: {"gather", "fit", "write", "replace"}, kind: Kinds, budget: Budgets,
         window: Windows, record: Contents, status: {"analyzed", "analyzed_recovered"},
         todo: Seq({"json", "verify", "window", "full"}), artifacts: Seq(Artifact),
         of: SUBSET Contents, late: BOOLEAN]
Over == [at: {"over"}, artifacts: Seq(Artifact), budget: Budgets]
Idle == [at |-> "idle"]

\* Between calls there is no temporary file but one a killed call left.
TypeOK ==
    /\ world \in Contents /\ manifest \in Contents
    /\ analysis \in Analyzed \cup {None}
    /\ call \in Call \cup Over \cup {Idle}
    /\ output \in Pack \cup {None}
    /\ temp \in (IF call.at = "replace" THEN Pack ELSE {None, Left})

Init ==
    /\ world \in Contents /\ manifest = world
    /\ analysis = None /\ call = Idle
    /\ temp = None /\ output = None

-----------------------------------------------------------------------------
(* Beside the calls *)

Edit ==
    /\ world' \in Contents
    /\ UNCHANGED <<manifest, analysis, call, temp, output>>

Prepare ==
    /\ manifest' = world
    /\ UNCHANGED <<world, analysis, call, temp, output>>

\* The digest has been checked, and bytes may still be read.
Checked ==
    /\ call.at = "gather"
    /\ \A i \in DOMAIN call.todo : call.todo[i] # "verify"

\* analyze_game_workspace: of a source that is as it was prepared.  Its record
\* names bytes under modules/ or resources/, or under recovered/, and replaces
\* those of the last analysis, under a call that is reading them as well.
Analyze ==
    /\ world = manifest
    /\ \E status \in {"analyzed", "analyzed_recovered"} :
          analysis' = [content |-> world, status |-> status]
    /\ call' = IF Checked THEN [call EXCEPT !.late = TRUE] ELSE call
    /\ UNCHANGED <<world, manifest, temp, output>>

-----------------------------------------------------------------------------
(* create_analysis_pack *)

\* The arguments are checked, the manifest is loaded, the record is looked up.
Select ==
    /\ call = Idle /\ analysis # None
    /\ \E kind \in Kinds, budget \in Budgets, window \in Windows :
          /\ window <= budget
          /\ call' = [at |-> "gather", kind |-> kind, budget |-> budget, window |-> window,
                      record |-> manifest, status |-> analysis.status,
                      todo |-> Steps(kind), artifacts |-> <<>>, of |-> {}, late |-> FALSE]
    /\ UNCHANGED <<files, temp, output>>

Doing(step) == call.at = "gather" /\ call.todo # <<>> /\ Head(call.todo) = step

\* A record or a file that is missing, unreadable or of an unexpected shape.
Refuse ==
    /\ call.at = "gather" /\ call' = Idle
    /\ UNCHANGED <<files, temp, output>>

OverBudget(artifacts) ==
    /\ call' = [at |-> "over", artifacts |-> artifacts, budget |-> call.budget]
    /\ UNCHANGED <<files, temp, output>>

\* AnalysisPackError, of a budget that is exceeded.
Raise ==
    /\ call.at = "over" /\ call' = Idle
    /\ UNCHANGED <<files, temp, output>>

Go(artifacts, of) ==
    /\ call' = [call EXCEPT !.todo = Tail(call.todo), !.artifacts = artifacts, !.of = of]
    /\ UNCHANGED <<files, temp, output>>

\* _append: over the budget it raises.
Add(kind, size, of) ==
    LET more == Append(call.artifacts, [kind |-> kind, size |-> size]) IN
    \/ Bytes(more) <= call.budget /\ Go(more, of)
    \/ Bytes(more) > call.budget /\ OverBudget(more)

AddRecord == Doing("json") /\ \E size \in Records : Add("json", size, call.of)

\* Where the record of the call says the bytes are: an analysis that has put
\* them elsewhere has removed them.
Present == analysis.status = call.status

\* Mutant of Matches: the size alone is compared.
MatchesInSize ==
    Present /\ call.status = "analyzed" /\ SizeOf[analysis.content] = SizeOf[call.record]

Matches == Present /\ call.status = "analyzed" /\ analysis.content = call.record

\* _verify_source_file, of the bytes the analysis has.
Verify ==
    /\ Doing("verify") /\ Matches
    /\ Go(call.artifacts, call.of)

VerifyFails ==
    /\ Doing("verify") /\ ~Matches
    /\ call' = Idle /\ UNCHANGED <<files, temp, output>>

\* The bytes there are now.
Reading == call.of \cup {analysis.content}

\* The context of a function, which metadata places anywhere, or the first
\* bytes of a resource: of the size on record, and all of them must be there.
AddWindow ==
    /\ Doing("window") /\ Present
    /\ \E size \in 0 .. SizeOf[call.record] :
          /\ size <= SizeOf[analysis.content]
          /\ call.kind = "resource" =>
                size = IF call.window < SizeOf[call.record] THEN call.window
                       ELSE SizeOf[call.record]
          /\ Add("window", size, Reading)

\* _append_optional_full_file: what does not fit is left out.
AddFull ==
    /\ Doing("full") /\ Present
    /\ LET more == Append(call.artifacts,
                          [kind |-> "full", size |-> SizeOf[analysis.content]]) IN
       IF Bytes(more) <= call.budget THEN Go(more, Reading) ELSE Go(call.artifacts, call.of)

Gathered ==
    /\ call.at = "gather" /\ call.todo = <<>>
    /\ call' = [call EXCEPT !.at = "fit"]
    /\ UNCHANGED <<files, temp, output>>

Optional == {i \in 1 .. Len(call.artifacts) : call.artifacts[i].kind = "full"}

\* _fit_manifest_budget: a turn of its loop.
Fits ==
    /\ call.at = "fit" /\ Total(call.artifacts) <= call.budget
    /\ call' = [call EXCEPT !.at = "write"]
    /\ UNCHANGED <<files, temp, output>>

LeaveOut ==
    /\ call.at = "fit" /\ Total(call.artifacts) > call.budget
    /\ \E i \in Optional : call' = [call EXCEPT !.artifacts = RemoveAt(@, i)]
    /\ UNCHANGED <<files, temp, output>>

DoesNotFit ==
    /\ call.at = "fit" /\ Total(call.artifacts) > call.budget
    /\ Optional = {} /\ OverBudget(call.artifacts)

Made ==
    [kind |-> call.kind, artifacts |-> call.artifacts, manifest |-> ManifestSize(call.artifacts),
     of |-> call.of, names |-> call.record, budget |-> call.budget, late |-> call.late]

\* Mutant of Write: the archive is written at its place, one member after the
\* other and the manifest last, and an error ends it in between.
WriteInPlace ==
    /\ call.at = "write" /\ call' = Idle
    /\ output' \in {Made} \cup {[Made EXCEPT !.manifest = 0, !.artifacts = SubSeq(@, 1, n)] :
                                n \in 0 .. Len(call.artifacts)}
    /\ UNCHANGED <<files, temp>>

\* _write_pack up to its replace; an error removes the temporary file.
Write ==
    /\ call.at = "write"
    /\ \/ temp' = Made /\ call' = [call EXCEPT !.at = "replace"]
       \/ temp' = None /\ call' = Idle
    /\ UNCHANGED <<files, output>>

\* Mutant of Replace: an error leaves the temporary file.
ReplaceWithoutFinally ==
    /\ call.at = "replace" /\ call' = Idle
    /\ \/ output' = temp /\ temp' = None
       \/ UNCHANGED <<output, temp>>
    /\ UNCHANGED files

Replace ==
    /\ call.at = "replace" /\ call' = Idle /\ temp' = None
    /\ \/ output' = temp
       \/ output' = output
    /\ UNCHANGED files

\* The process ends, at any point of the archive.
Kill ==
    /\ call # Idle /\ call' = Idle
    /\ temp' = IF call.at \in {"write", "replace"} THEN Left ELSE temp
    /\ UNCHANGED <<files, output>>

Next ==
    \/ Edit \/ Prepare \/ Analyze
    \/ Select \/ Refuse \/ AddRecord \/ Verify \/ VerifyFails \/ AddWindow \/ AddFull
    \/ Gathered \/ Fits \/ LeaveOut \/ DoesNotFit \/ Raise \/ Write \/ Replace \/ Kill

Spec == Init /\ [][Next]_vars

-----------------------------------------------------------------------------
(* Properties *)

\* The bytes in a pack are those its manifest names, whatever was edited,
\* prepared or analyzed before the call and while it went on, unless an analysis
\* replaced them after their digest was checked (_verify_source_file, then
\* _read_slice and _append_optional_full_file; docs/phase8a:
\* "provenance-verified").
ProvenanceLocked == output # None => output.of \subseteq {output.names} \/ output.late

\* A pack and its manifest together keep to the budget (docs/phase8a: "required
\* evidence plus the manifest").
WithinBudget ==
    output # None => Bytes(output.artifacts) + output.manifest <= output.budget

\* The pieces come from these steps, in their order, and every step but the
\* check of the digest and the optional payload has given one.
Carries(artifacts, steps) ==
    \E from \in [1 .. Len(artifacts) -> 1 .. Len(steps)] :
        /\ \A i, j \in 1 .. Len(artifacts) : i < j => from[i] < from[j]
        /\ \A i \in 1 .. Len(artifacts) : artifacts[i].kind = steps[from[i]]
        /\ \A n \in 1 .. Len(steps) :
              steps[n] \in {"json", "window"} => \E i \in 1 .. Len(artifacts) : from[i] = n

\* What lies at the output path is a whole pack: all required evidence of its
\* kind, and a manifest of exactly its members, whenever a call was ended
\* (_write_pack: the archive is replaced as a whole).
OutputIsWhole ==
    output # None =>
        /\ output.manifest = ManifestSize(output.artifacts)
        /\ Carries(output.artifacts, Steps(output.kind))

\* docs/phase8a: optional full payloads are omitted when necessary to preserve
\* the bound, so that a budget is exceeded by required evidence alone.
OptionalNeverInTheWay ==
    call.at = "over" =>
        Total(SelectSeq(call.artifacts, LAMBDA a : a.kind # "full")) > call.budget

\* The same without the exception: not so, since nothing keeps an analysis from
\* replacing the bytes between the check and the reading.
CheckedIsRead == output # None => output.of \subseteq {output.names}
=============================================================================
