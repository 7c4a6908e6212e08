---------------------------- MODULE GameWorkspace ----------------------------
(***************************************************************************)
(* The large-game workspace (workspace.py): prepare-game writes a manifest *)
(* of a source in three files, analyze-workspace analyses the source and   *)
(* keeps the result with the key it was computed for.  Each call may stop  *)
(* between any two of its writes (an exception, Ctrl-C, a crash), and the  *)
(* user may edit sources and change the configuration between calls.       *)
(***************************************************************************)
EXTENDS Naturals

CONSTANTS
    Sources,         \* paths of directories and disc images
    Kind,            \* what each source is: "directory" or "disc"
    Contents,        \* what a source may hold
    Configs,         \* what else enters the key: toolkit, NIDs, recovery
    None,            \* a file that is absent, a call that gave no result
    MaxEdits,        \* bound: how often the user writes to each source
    EditsDuringRuns, \* the user may write while a call runs
    Stops            \* the calls that may stop midway: "prepare", "analyze"

Identities == [content: Contents, kind: {"directory", "disc"}]

\* An analysis key is a digest: it stands for what enters it.
Keys == [identity: Identities, config: Configs]

Stamps == 0 .. MaxEdits

\* Of a generated file: the key of what it was in fact made from, and whether
\* it was written to its end.
Made == [key: Keys, whole: BOOLEAN]

FileRecords == [identity: Identities, marked: BOOLEAN]
LocalRecords == [source: Sources, kind: {"directory", "disc"}, stamp: Stamps]

Results == [reused: BOOLEAN, key: Keys, analysis: Made \cup {None}, rest: Keys \cup {None},
            marked: BOOLEAN]

ASSUME SourcesAssumption == Kind \in [Sources -> {"directory", "disc"}]
ASSUME NoneAssumption ==
    /\ None \notin Sources /\ None \notin Identities /\ None \notin Keys
    /\ None \notin FileRecords /\ None \notin LocalRecords
    /\ None \notin Made /\ None \notin Results
ASSUME BoundsAssumption ==
    /\ MaxEdits \in Nat
    /\ EditsDuringRuns \in BOOLEAN
    /\ Stops \subseteq {"prepare", "analyze"}

VARIABLES
    source,     \* the user's files: contents, and a stamp (mtime) per write
    manifest,   \* workspace.json: the source identity
    files,      \* manifests/files.json: the records, and their analysis state
    local,      \* .pspdisasm-local.json: path, kind and snapshot
    state,      \* analysis/state.json: the key of the finished analysis
    analysis,   \* game_project/metadata/game_analysis.json
    rest,       \* the files written after it: links, symbols, placements
    pc,         \* the step the running call is at, or "idle"
    work,       \* its local variables
    result,     \* what the last analyze call returned
    prepared,   \* history: the source of the last call, a finished prepare
    cutShort,   \* history: an analysis has stopped since state was written
    mixed,      \* history: a prepare has stopped before its last file
    raced       \* history: the user has written while a call ran

disk == <<manifest, files, local, state, analysis, rest>>
history == <<prepared, cutShort, mixed, raced>>
vars == <<source, disk, pc, work, result, history>>

PrepareSteps == {"survey", "finish_survey", "write_manifest", "write_files", "write_local"}
AnalyzeSteps == {"remove", "write_analysis", "finish_analysis", "write_rest",
                 "mark_files", "write_state"}

\* accepted: what the source held when the snapshot was found unchanged.
Work == [source: Sources \cup {None}, content: Contents \cup {None}, stamp: Stamps,
         key: Keys \cup {None}, accepted: Contents \cup {None},
         read: Contents \cup {None}]

NoWork == [source |-> None, content |-> None, stamp |-> 0, key |-> None,
           accepted |-> None, read |-> None]

TypeOK ==
    /\ source \in [Sources -> [content: Contents, stamp: Stamps]]
    /\ manifest \in Identities \cup {None}
    /\ files \in FileRecords \cup {None}
    /\ local \in LocalRecords \cup {None}
    /\ state \in Keys \cup {None}
    /\ analysis \in Made \cup {None}
    /\ rest \in Keys \cup {None}
    /\ pc \in {"idle"} \cup PrepareSteps \cup AnalyzeSteps
    /\ work \in Work
    /\ result \in Results \cup {None}
    /\ prepared \in Sources \cup {None}
    /\ cutShort \in BOOLEAN
    /\ mixed \in BOOLEAN
    /\ raced \in BOOLEAN

Init ==
    /\ source \in [Sources -> [content: Contents, stamp: {0}]]
    /\ manifest = None /\ files = None /\ local = None
    /\ state = None /\ analysis = None /\ rest = None
    /\ pc = "idle" /\ work = NoWork /\ result = None
    /\ prepared = None /\ cutShort = FALSE /\ mixed = FALSE /\ raced = FALSE

-----------------------------------------------------------------------------
(* The user *)

Edit(s, c) ==
    /\ EditsDuringRuns \/ pc = "idle"
    /\ source[s].stamp < MaxEdits
    /\ source' = [source EXCEPT ![s] = [content |-> c, stamp |-> @.stamp + 1]]
    /\ prepared' = IF prepared = s THEN None ELSE prepared
    /\ raced' = (raced \/ pc # "idle")
    /\ UNCHANGED <<disk, pc, work, result, cutShort, mixed>>

-----------------------------------------------------------------------------
(* prepare_game_workspace *)

Prepare(s) ==
    /\ pc = "idle"
    /\ pc' = "survey"
    /\ work' = [NoWork EXCEPT !.source = s]
    /\ prepared' = None
    /\ UNCHANGED <<source, disk, result, cutShort, mixed, raced>>

Stat == work' = [work EXCEPT !.stamp = source[work.source].stamp]
Hash == work' = [work EXCEPT !.content = source[work.source].content]

\* A file of a directory is stat'ed, then hashed; an image is hashed member by
\* member, then stat'ed.
Survey ==
    /\ pc = "survey"
    /\ IF Kind[work.source] = "directory" THEN Stat ELSE Hash
    /\ pc' = "finish_survey"
    /\ UNCHANGED <<source, disk, result, history>>

\* Mutant of FinishSurvey: the contents of a directory are not hashed.
FinishSurveyUnhashed ==
    /\ pc = "finish_survey"
    /\ IF Kind[work.source] = "directory" THEN UNCHANGED work ELSE Stat
    /\ pc' = "write_manifest"
    /\ UNCHANGED <<source, disk, result, history>>

FinishSurvey ==
    /\ pc = "finish_survey"
    /\ IF Kind[work.source] = "directory" THEN Hash ELSE Stat
    /\ pc' = "write_manifest"
    /\ UNCHANGED <<source, disk, result, history>>

Surveyed == [content |-> work.content, kind |-> Kind[work.source]]

\* _write_workspace: three files, each replaced atomically, one by one.
WriteManifest ==
    /\ pc = "write_manifest"
    /\ manifest' = Surveyed
    /\ pc' = "write_files"
    /\ UNCHANGED <<source, files, local, state, analysis, rest, work, result, history>>

\* Mutant of WriteFiles: records that exist are kept.
WriteFilesOnce ==
    /\ pc = "write_files"
    /\ files' = IF files = None THEN [identity |-> Surveyed, marked |-> FALSE] ELSE files
    /\ pc' = "write_local"
    /\ UNCHANGED <<source, manifest, local, state, analysis, rest, work, result, history>>

WriteFiles ==
    /\ pc = "write_files"
    /\ files' = [identity |-> Surveyed, marked |-> FALSE]
    /\ pc' = "write_local"
    /\ UNCHANGED <<source, manifest, local, state, analysis, rest, work, result, history>>

WriteLocal ==
    /\ pc = "write_local"
    /\ local' = [source |-> work.source, kind |-> Kind[work.source], stamp |-> work.stamp]
    /\ pc' = "idle" /\ work' = NoWork
    /\ prepared' = IF source[work.source].stamp = work.stamp THEN work.source ELSE None
    /\ UNCHANGED <<source, manifest, files, state, analysis, rest, result, cutShort, mixed,
                   raced>>

-----------------------------------------------------------------------------
(* analyze_game_workspace *)

\* Mutant of Accepted: the snapshot is not compared with the source.
AcceptedUnchecked ==
    /\ manifest # None /\ files # None /\ files.identity = manifest
    /\ local # None /\ local.kind = manifest.kind

\* load_game_workspace, _load_local_source and _validate_snapshot all pass.
Accepted ==
    /\ manifest # None /\ files # None /\ files.identity = manifest
    /\ local # None /\ local.kind = manifest.kind
    /\ source[local.source].stamp = local.stamp

Key(config) == [identity |-> manifest, config |-> config]

\* Mutant of Reusable: the source is left out of the comparison.
ReusableByConfig(config) == state # None /\ state.config = config /\ analysis # None

\* The output counts as present when game_analysis.json is there.
Reusable(config) == state = Key(config) /\ analysis # None

Refuse ==
    /\ pc = "idle" /\ ~Accepted
    /\ result' = None
    /\ UNCHANGED <<source, disk, pc, work, history>>

Reuse(config) ==
    /\ pc = "idle" /\ Accepted /\ Reusable(config)
    /\ result' = [reused |-> TRUE, key |-> Key(config), analysis |-> analysis,
                  rest |-> rest, marked |-> files.marked]
    /\ UNCHANGED <<source, disk, pc, work, history>>

Analyze(config) ==
    /\ pc = "idle" /\ Accepted /\ ~Reusable(config)
    /\ pc' = "remove"
    /\ work' = [source |-> local.source, content |-> None, stamp |-> 0, read |-> None,
                 key |-> Key(config), accepted |-> source[local.source].content]
    /\ result' = None
    /\ prepared' = None
    /\ UNCHANGED <<source, disk, cutShort, mixed, raced>>

\* rmtree takes the files in any order.
RemoveOutput ==
    /\ pc = "remove"
    /\ \/ analysis # None /\ analysis' = None /\ UNCHANGED rest
       \/ rest # None /\ rest' = None /\ UNCHANGED analysis
    /\ UNCHANGED <<source, manifest, files, local, state, pc, work, result, history>>

Generate ==
    /\ pc = "remove" /\ analysis = None /\ rest = None
    /\ work' = [work EXCEPT !.read = source[work.source].content]
    /\ pc' = "write_analysis"
    /\ UNCHANGED <<source, disk, result, history>>

MadeOf == [identity |-> [content |-> work.read, kind |-> Kind[work.source]],
           config |-> work.key.config]

\* game_project's _write_json is not atomic.
WriteAnalysis ==
    /\ pc = "write_analysis"
    /\ analysis' = [key |-> MadeOf, whole |-> FALSE]
    /\ pc' = "finish_analysis"
    /\ UNCHANGED <<source, manifest, files, local, state, rest, work, result, history>>

FinishAnalysis ==
    /\ pc = "finish_analysis"
    /\ analysis' = [analysis EXCEPT !.whole = TRUE]
    /\ pc' = "write_rest"
    /\ UNCHANGED <<source, manifest, files, local, state, rest, work, result, history>>

WriteRest ==
    /\ pc = "write_rest"
    /\ rest' = MadeOf
    /\ pc' = "mark_files"
    /\ UNCHANGED <<source, manifest, files, local, state, analysis, work, result, history>>

\* _update_analysis_states, from the manifest loaded at the start.
MarkFiles ==
    /\ pc = "mark_files"
    /\ files' = [identity |-> work.key.identity, marked |-> TRUE]
    /\ pc' = "write_state"
    /\ UNCHANGED <<source, manifest, local, state, analysis, rest, work, result, history>>

WriteState ==
    /\ pc = "write_state"
    /\ state' = work.key
    /\ result' = [reused |-> FALSE, key |-> work.key, analysis |-> analysis,
                  rest |-> rest, marked |-> files.marked]
    /\ pc' = "idle" /\ work' = NoWork
    /\ cutShort' = FALSE
    /\ UNCHANGED <<source, manifest, files, local, analysis, rest, prepared, mixed,
                   raced>>

-----------------------------------------------------------------------------

\* The running call raises or dies: the disk stays as it is.
Stop ==
    /\ \/ "prepare" \in Stops /\ pc \in PrepareSteps
       \/ "analyze" \in Stops /\ pc \in AnalyzeSteps
    /\ pc' = "idle" /\ work' = NoWork
    /\ cutShort' = (cutShort \/ pc \in AnalyzeSteps)
    /\ mixed' = (mixed \/ pc \in {"write_files", "write_local"})
    /\ UNCHANGED <<source, disk, result, prepared, raced>>

Call == \/ \E s \in Sources : Prepare(s)
        \/ Refuse
        \/ \E config \in Configs : Reuse(config) \/ Analyze(config)

Step == \/ Survey \/ FinishSurvey \/ WriteManifest \/ WriteFiles \/ WriteLocal
        \/ RemoveOutput \/ Generate \/ WriteAnalysis \/ FinishAnalysis \/ WriteRest
        \/ MarkFiles \/ WriteState

Next == \/ \E s \in Sources, c \in Contents : Edit(s, c)
        \/ Call \/ Step \/ Stop

Spec == Init /\ [][Next]_vars

-----------------------------------------------------------------------------
(* Properties *)

\* What an analyze call returns, new or reused, was made whole and from the
\* very contents and configuration its key stands for.
RightResult ==
    result # None => /\ result.analysis = [key |-> result.key, whole |-> TRUE]
                     /\ result.rest = result.key

\* The cache never serves a wrong result by itself: it takes an analysis that
\* was stopped since state.json was last written, a prepare stopped before its
\* last file, or a source written to while a call ran (workspace.py,
\* analyze_game_workspace: the key and the order of the writes).
RightUnlessStopped == ~cutShort /\ ~mixed /\ ~raced => RightResult

\* After a finished prepare the next analyze is not refused, whatever stopped
\* calls before it left on the disk, as long as nobody writes to the source
\* (workspace.py, _write_workspace against load_game_workspace).
PreparedIsAccepted == prepared # None => Accepted /\ local.source = prepared

\* An analysis starts only on the contents that prepare hashed: what was
\* written in between is noticed, also what was written to a directory while
\* prepare or another analysis ran (workspace.py, _validate_snapshot).
StartsOnPreparedContents ==
    /\ ~mixed /\ pc \in AnalyzeSteps
    /\ raced => Kind[work.source] = "directory"
    => work.accepted = work.key.identity.content

\* docs/phase8a: interrupted or failed analysis does not create a false
\* completed-state marker, so a reused result is a completed one.
ReusedIsComplete == result # None /\ result.reused => RightResult
=============================================================================
