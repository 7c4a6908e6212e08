# A verification project for pspdisasm

TLA+ specifications of the PSP disassembly toolkit under `src/pspdisasm`, the TLC
configurations that model-check them, and proofs checked by TLAPS. Paths below are
relative to `src/src/pspdisasm` unless they start with `docs/` or `tests/`.

## 1. The system

The toolkit is a command-line program (`cli.py`): each call reads files, computes and
writes files. It has no server and no threads. What makes parts of it hard is what
surrounds a call: it may be stopped between two writes and run again, it works on
sources a user edits, it drives external tools that fail or are missing, and one part
of it holds a conversation with an emulator that runs by itself.

| component | state it keeps | operations | hard because | status |
|---|---|---|---|---|
| debugger transport, `runtime/transport.py` | socket, next ticket, deque of events | request, try_request, wait_for_event, close | late and lost replies, timeouts inside a frame, events in between | `DebuggerSession`, proofs |
| runtime session, `runtime/session.py` | transport, installed breakpoints, launched process | observe_breakpoint, read_*, launch and connect, close | breakpoints and processes that must not outlive it, through any failure | `DebuggerSession`, `SessionLaunch`, proofs |
| game workspace, `workspace.py` | workspace.json, files.json, local snapshot, analysis/state.json, game_project/ | prepare-game, analyze-workspace | several writes per call, a cache, sources that change | `GameWorkspace`, proofs |
| decompilation pipeline, `decompile/` | one state.json per function, drafts in the projects | decompile-workspace, match-status | retries across runs, ranking, missing tools | `Attempts`, `AttemptLog`, `DecompilePipeline`, proofs |
| m2c and asm-differ adapters, `decompiler.py`, `matcher.py` | drafts, metadata/matching | decompile-function, match-function | external tools, rounding of scores | as steps of the pipeline |
| runtime evidence, `runtime/workspace.py`, `modules.py`, `reconciliation.py` | sessions, observations, module map, reconciliation | runtime observe, modules, reconcile | pairs of files written one after the other; overlapping and unsized ranges | `Reconciliation`, `RuntimeEvidence`, proofs |
| game project, `game_project.py` | game_analysis.json and its companions | two passes over all modules, the plan, the links | partial failure of one module | `GameProject`, proofs |
| recovery, `recovery.py` | recovered images, a manifest | recover_bytes over external decryptors or dumps | an untrusted tool's result must be validated | `Recovery`, with `GameProject` |
| placement, `placement.py` | none (a function over modules) | fixed and boot claims, next free range | collisions, the end of 32 bits | `Placement`, proofs |
| relocations, `prxreloc2.py`, `prx.py`, `load_view.py` | none | decode a compressed stream, apply HI16/LO16, rebase metadata | state carried between commands, carries, wraparound | `PrxReloc2`, `LoadView`, proofs |
| linker, `linker.py` | none | imports against exports | ambiguity | `Linker`, with `GameProject` |
| disc images, `disc.py`, `disc_image.py` | one cached block | scan, choice of the boot file, read of CSO | several candidates for a boot file | classification, in `GameProject` |
| analysis packs, `analysis_pack.py` | the archive | make-pack under a byte budget | limits, atomic replacement, stale provenance | `AnalysisPack`, proofs |
| resources, `game_resources.py`, `resource_*.py`, `asset_discovery.py` | none | nested containers | depth and size limits | not modelled |
| data typing, `data_typing.py` | none | merge evidence per address | MIPS idioms | not modelled |
| parsers, `analyzer.py`, `detect.py`, `elf32.py`, `psp_container.py`, `sfo.py`, `nids.py` | none | read fields at fixed offsets | little beyond range checks | not modelled |
| disassembler, `engines/spim.py`, `disassembler.py`, `advanced.py`, `project.py` | none | adapters to spimdisasm and Splat | third-party logic, layout of text | not modelled |

How they interact: `analyze_game_workspace` calls `generate_game_project`, which calls
recovery, placement, linker, resources and the project generator for every module.
`decompile-workspace` reads what that wrote, calls m2c, a compiler and asm-differ, and
writes its records beside it. `runtime observe` opens a session, and saves what it
captured into the same workspace; `runtime reconcile` maps those observations to
placements. The pipeline attaches the result to its functions, to be saved and printed:
`_priority_key` orders the queue by size, module, name and address alone. `make-pack`
reads what prepare and analyze wrote. The shared state between components is files
only, and so is that between the models: `GameProject` is what `GameWorkspace` takes
for the steps from removing the old output to writing the last file, and
`RuntimeEvidence`, `DecompilePipeline` and `AnalysisPack` each have an analysis made
again between two of their calls, `AnalysisPack` during a call as well.

## 2. The modules

### DebuggerSession (`MCDebuggerSession`, `DebuggerSessionProofs`)

State: the emulator's breakpoints and the stop it is at, both directions of the
connection as queues, whether the byte stream is at a frame boundary, the transport's
`_next_ticket` and event deque, the session's `_installed_breakpoints`, and the local
variables of the call in progress. `pc` says where the client waits.

- Emulator (external): `Serve`, `Refuse`, `Hit`, `SendPing`, and `LoseLink`. It may
  refuse any request, which then has no effect. `request` raises on every error reply
  (transport.py:258); that of a removal is suppressed and the address forgotten
  (session.py:190, 307), so nothing asks again.
- Receive loops of `request`, `try_request` and `wait_for_event`: `PassOver` (a frame
  the loop skips or queues), `Misread` (bytes off the boundary), `Answered`,
  `Refused`, `Unanswered` (a timeout at or inside a frame, a closed peer).
- `observe_breakpoint`: `Observe` (validation has passed, add is sent), `Installed`,
  `InstallFails`, `Stopped`, `Captured`, `ObserveFails`, `Removed` (the `finally`
  clause). `Captures` requests stand for registers, memory reads and backtrace, which
  are sent one after the other.
- `Probe`, `Probed`: `try_request`. `LeaveBlock`, `CloseBreakpoint`,
  `BreakpointClosed`, `CloseTransport`: `close()`. `Interrupt`: a KeyboardInterrupt
  at any wait; in `close()` it is not suppressed, so the rest is skipped.

Requests and replies carry the `serial` of the call they belong to, and calls record
the answers they took, as history; the client never reads it. So are `lostAdds`, the
addresses whose add was given up unanswered, and `denied`, what the emulator was asked
to undo and refused: removals of breakpoints it has, and the resume of a stopped CPU. A
resume is sent with `send` and awaited by nobody, so its reply is left out, an error as
well. What the emulator does once the link is down is left out: it reaches nobody, and the
properties about what is left in the emulator are of links that held. An address that is
hit again is the same breakpoint. WebSocket masking, JSON text and register names are left
out.

### SessionLaunch (`SessionLaunchProofs`)

The process side of the same session: `Launch`, then `Poll`, `Connect`, `Decide`,
`Sleep` for the retry loop of `_connect_with_retry`, `Cleanup`, `Terminate`, `Wait`,
`Kill` for `_cleanup_process` and `_terminate_process`. `Listen`, `Exit` and
`Deadline` are the emulator and the clock; `other` is what else may have the port.
The two modules meet where the session is open: `DebuggerSession` starts in the state
`open` of this one, and its end is this one's `close`.

### GameWorkspace (`MCGameWorkspace`, `GameWorkspaceProofs`)

One variable per file that `prepare-game` and `analyze-workspace` write, with what
distinguishes one content of it from another: the source identity (content and kind),
the snapshot's stamp, the analysis key, and, of generated files, the key of what they
were in fact made from and whether they were written to the end. Each write is an
action, in the order of the code, so `Stop` can come between any two; `rmtree` takes
the files in any order. `Edit` is the user: every write changes the stamp (size and
`mtime_ns`), which is what `_validate_snapshot` compares. Digests are injective.
`analysis` is game_analysis.json, the file whose presence counts as the output being
there; `rest` is the files `game_project.py` writes after it. A directory is stat'ed
and then hashed, an image hashed and then stat'ed: `Survey` and `FinishSurvey`.

Not in the model: two calls at once in one workspace, and recovery caches.

### Attempts, AttemptLog, DecompilePipeline (`MCDecompilePipeline`, `DecompilePipelineProofs`)

`Attempts` has the data: the inputs an attempt id digests, outcomes, `_rank`,
`select_best_attempt`, `_status_from_best`. `AttemptLog` is the abstract promise: per
function a log that only grows, and a best attempt that stays or becomes the best of
the whole log. `DecompilePipeline` is the program: `saved` (state.json per directory
name), `drafts`, `listing` (metadata/functions.json) and, per process, where its run
is. `Start` is `select_functions` over all loaded records, `Begin` to `Finish` is
`run_and_persist` of one function, `Raises` is the `MatchingError` that ends a whole
run, `Blocked` and `WithoutM2c` the missing tools, `Kill` the end of a process
anywhere, `Reanalyze` an analyze-workspace that regenerates the projects. `InM2c` is
where a run waits for m2c, the one tool without a timeout. The refinement maps the saved
records to the log.

Abstractions: an assembly text, a draft and a toolset are model values; similarity is
its rounded percentage with the exact flag beside it, so a raw score that only rounds
to 100 is a case of its own. The order of the queue is any injective numbering. The
fields of `enrich_with_*` are left out, as no decision reads them. What m2c, the
compiler and asm-differ answer is arbitrary.

### Reconciliation, RuntimeEvidence (`MCRuntimeEvidence`, `RuntimeEvidenceProofs`)

`Reconciliation` has the functions of `runtime/modules.py` and
`runtime/reconciliation.py`: `ModuleMap` (the first source with an answer, never a
merger), `FindModule`, `Reconciled` for one observation and `ReconcileAll` for all of a
workspace. `RuntimeEvidence` has the commands of cli.py:504-606 on the files under
`runtime/`: `Captured`, `SaveSession`, `LoadEvidence`, `SaveEvidence` are `runtime
observe`, whose two files are written one after the other and whose second is read
before; `Discover`, `SaveMap` are `runtime modules`; `Reconcile`, `ReconcileRaises`,
`SaveResults` are `runtime reconcile`. Around them `Stop` ends a call between any two of
its steps, `Damage` makes a file unreadable, `Restart` starts the emulator again with
its modules elsewhere, and `Reanalyze` replaces module_placements.json.

`place` and `start` of an observation are history: the code that ran, and in which
emulator. They are what a reconciliation is compared with. Registers, memory,
backtraces and times are left out; addresses are small numbers, and `Extent` says how
far a module goes in memory, which may be beyond its static image.

### Placement, Recovery, Linker, GameProject (`MCGameProject`, `GameProjectProofs`)

`Placement` is `plan_module_placements`, over images given by their loaded segments:
`PlaceFixed` (ET_EXEC images, where they ask to be), `PlaceBoot` (the first boot module
claims its range), then `Search` and `Turn` for every other module, one turn of the
loop of `_find_free` at a time, since whether that loop ends is a question of its own.
`Recovery` and `Linker` are definitions: the choice of a backend, what an external tool
or a dump can answer, the gates of `recover_bytes` in their order, and which links and
names come of imports and exports. `GameProject` runs them: `Scan` (with the choice of
boot file of disc.py), a first pass in which every candidate is `Readable`,
`Unreadable`, `StaysEncrypted`, `NotRecovered` or `Recovered`, the plan, a second pass
of `Disassemble`, `NotDisassembled`, and `LinkAll`. Which exceptions stay with one
module and which end the game follows the two `except` clauses: `Escapes`,
`EngineMissing`, `PlanRaises` and `ScanFails` end it.

`trouble` is history. A file's first bytes, and at which step a module fails, are
chosen freely. The manifest of dumps is read before a game is analyzed; command
templates are left out. Resource analysis is part of `Scan`, which succeeds or ends the
game. That the files are written one by one is the subject of `GameWorkspace`.

### PrxReloc2, LoadView (`MCLoadView`, `LoadViewProofs`)

`PrxReloc2` is `decode_prxreloc2` with what `_parse_relocations` makes of its failure:
`StateCommand` sets segment and offset, `RelocationCommand` decodes one relocation,
`Broken` is every `ParseError`, `StreamEnds` the check of what is left over. The
commands of a stream are not written down beforehand: at each step any value of a
half-word that `Commands` has may come next, so all streams of a length are covered.
`LoadView` is `build_relocated_load_view`: `BeginView` with the checks before the loop,
`Apply` one relocation at a time, in the order in which the code refuses, `Complete`;
`Carried`, `Relocated`, `RebasedNonzero` are the arithmetic.

A module has one compressed stream, whose relocations come after all those of Type A.
`_parse_relocations` (prx.py:257-281) takes the program headers in their order, of which
several may be streams and later ones of Type A, so a list that mixes them otherwise is
not covered. Metadata is not held as state: `PointersMeetMetadata` compares a relocated
word with `RebasedNonzero` of the address it pointed to, that of its segment included.
Which pointers prx.py reads from the file to make metadata of, and how, is not modelled,
so a file whose raw words and whose metadata disagree about that address would not show.

A byte has `ByteBits` bits, so that TLC can use words of 16 bits with all their
carries; the theorems about views are of bytes of 8 bits and words of 32. Names, symbols
and the layout of a header are left out.

### AnalysisPack (`MCAnalysisPack`, `AnalysisPackProofs`)

`create_analysis_pack` for one file of a source: `Select`, then the artifacts of its
kind in order (`AddRecord`, `Verify`, `AddWindow`, `AddFull`), then `Fits`, `LeaveOut`,
`DoesNotFit` for `_fit_manifest_budget`, `Write` and `Replace` for `_write_pack`. `Kill`
ends the process anywhere. The source is edited, prepared and analyzed (`Edit`,
`Prepare`, `Analyze`) at any time, between two steps of a call as well. A call keeps what
the code keeps in local variables, the manifest's record (`record`) and where the record
of the analysis says the bytes are (`status`); the bytes are those that are there when it
reads them (`Present`, `Reading`). `OverBudget` is a budget found exceeded, `Raise` the
error that then ends the call. JSON evidence counts by its size alone, and the manifest
has a fixed size per artifact it lists. The contents a pack was cut from (`of`) and the
content its manifest names (`names`) are kept apart, which is what the check of the
digest is for. `late` is history: an analysis came between the check and the last reading.

## 3. What the runs check

| run | question | bounds |
|---|---|---|
| `session_faults` | safety and termination of the session's calls under timeouts, refusals of any request, torn frames, pings, a lost connection and an interrupt | 2 addresses, 2 calls, 2 stops, 1 interrupt, 1 ping, event queue of 1 |
| `launch_ends` | no process is left by a session that ends by itself; constructor and close end | 1 interrupt |
| `workspace_stops` | results are right, a finished prepare is accepted, an analysis starts on what prepare hashed | 2 sources (directory and disc), 2 contents, 2 configurations, 1 edit each, any number of stops |
| `pipeline_queue` | an exact attempt on record is the best on record, an exact status is the function's own; the pipeline implements `AttemptLog` | 2 functions, histories up to 2 before a run, 3 scores, 8 commands, 1 re-analysis |
| `pipeline_resume` | no attempt is recorded twice, recorded drafts are not overwritten | 1 function, 2 listings, 2 drafts, histories up to 3, 1 re-analysis |
| `pipeline_progress` | every function is tried | 2 functions, 3 commands: the default one, one with `--limit 1`, one whose context cannot be read; histories up to 4 |
| `evidence_files` | an observation is mapped to the code that ran, verified by a repetition only, never lost; reconcile fails only after harm | 2 modules in 2 layouts, 2 sessions, 1 call at a time, 2 observations, 1 new emulator or analysis, 1 damaged file |
| `game_analysis` | every executable has its record; secondary modules are placed clear of others and as low as the search allows, which gives up only where no place is left; the analysis ends | 4 files, two of them of one name, 4 images, 21 addresses, 2 backends, 3 symbols |
| `relocation` | halves move together, pointers agree with the metadata, a broken stream leaves nothing | bytes of 4 bits, 2 segments, 2 commands of 4-bit deltas, up to 3 Type-A relocations, 4 load addresses |
| `pack_calls` | a pack is whole, within its budget and of the contents its manifest names | 2 contents of one size, 1 budget, 2 windows, 2 sizes of evidence, any number of calls, and of edits, prepares and analyses at any time |
| `workspace_falsemarker`, `game_noroom` | see section 4 | as the run of the same module |

Why these bounds are enough to be of interest: two calls let a reply, an event and a
breakpoint of the first meet the second; a queue of one overflows with the second
stop; two sources let one's manifest meet the other's path, and two configurations let
a key come back; a history of two lets the best be neither the last nor the first; two
functions are needed for an order, a limit and a shared directory. Two observations are
what it takes to verify, and of two modules one is longer in memory than its image, so
that it lies before and, in the other layout, behind the one whose size may be unknown.
In 21 addresses an executable in the middle splits what is free, an image that asks for
more than the grain skips a place, one may end exactly at the limit, and four images do
not always fit. Two segments give
a relocation a source and a target, the load addresses carry into the high half and
wrap around, and a third header is loaded but empty. Two contents of one size are told
apart by the digest alone; the budget is exceeded by the evidence, by a whole file
or by the manifest, according to the sizes of the evidence before it. The
two contents are symmetric, as only invariants are checked there. Every property has a mutant, a plausible mistake in the modelled code,
that breaks it under these bounds.

Deadlock is checked for the workspace, the evidence and the packs, where some call is
always possible. A session that is closed, a game that is analyzed, a view that is built, and
a pipeline at its bounds, really stop.

### Fairness

- `DebuggerSession`: weak fairness of the client. Each of its steps is local or the
  end of a receive, and every receive runs under a socket timeout. Nothing is assumed
  of the emulator. A ping restarts that timer, so pings are bounded by `MaxPings`.
- `SessionLaunch`: weak fairness of the session's own steps (connect, sleep and wait
  have timeouts) and of the clock passing the deadline. Nothing of the process.
- `DecompilePipeline`: weak fairness of a run's steps but for the return of m2c.
  Compilers and asm-differ run under a timeout (toolchain.py:99, 185, matcher.py:314,
  400); m2c does not (decompiler.py:211), so a run may hang in it, and
  `EveryFunctionIsTried` has the hypothesis `M2cReturns`: no run stays in m2c for ever.
  Strong fairness of each command's start is not the code's doing: the property is about
  a user who keeps giving every one of the commands, and `Kills` is off. The limit and the
  unreadable context may come in between any number of times; what is shown is that
  they cannot keep a function out of the runs without a limit. A function whose metadata
  is refused ends its run (`Raises`), and all functions after it stay untried: the run
  has none (section 4).
- `GameProject`: weak fairness of the next-state relation, as one thread runs from the
  scan to the last write and the external tools it calls, the decryptors, have a timeout
  (recovery.py:406).

## 4. Where the code departs from what the repository says

Two listed runs show a counterexample:

- `workspace_falsemarker`: state.json survives the removal of the output it vouches
  for (workspace.py:533), so analysis of A, a stopped analysis of B and a return to A
  reuses what B left.
- `game_noroom`: the layout of a module is checked alone, the plan of all modules is
  made outside the boundary of any, and a search past 32 bits raises there
  (game_project.py:303); docs/phase7b-game-analysis.md:121 has no module prevent the
  analysis of the others.

These configurations show more when they are run by hand (`tlc -config X.cfg M`, with
the MC module whose name the configuration starts with; each ends in a violation):

- `DebuggerSession_lostadd`: the address is noted as installed only after
  `add_exec_breakpoint` returns (session.py:260), so an add that takes effect after
  its timeout leaves a breakpoint that `close()` does not know of. A removal that the
  emulator refuses leaves one as well, as the address is forgotten with the error
  suppressed (session.py:307, 190); `OnlyLostAddsLeak` accounts for both, and says that
  nothing else does.
- `DebuggerSession_capture`: `observe_breakpoint` takes a stop event left in the deque
  by an earlier call for its own hit (session.py:265, transport.py:303) and then
  captures state wherever the CPU is; no warning if the addresses are the same.
- `DecompilePipeline_limit`: with `--limit` a function that stays partly matched keeps
  its place at the head of the queue (queue.py:263).
- `DecompilePipeline_status`: a missing tool makes a function with an exact match
  blocked (orchestrator.py:192, 265).
- `DecompilePipeline_stems`: `_start` and `start` share a state.json
  (decompile/workspace.py:61).
- `RuntimeEvidence_restart`: after the emulator was started again, observations of the
  earlier one are mapped with the new module map. `reconcile_observation` means never
  to guess a load address (reconciliation.py:82), and nothing on disk says which map
  an observation belongs to.
- `RuntimeEvidence_race`: of two observe calls for one session, each reads the file
  before the other writes it, and one observation is lost (cli.py:529).
- `AnalysisPack_optional`: an optional file that fits when it is appended may leave no
  room for evidence that is required and comes later, which then ends the call;
  docs/phase8a-large-game-workspaces.md:201 has such a file left out.
- `AnalysisPack_overtaken`: the digest of the bytes is checked, and then they are read in
  a second opening of the file (analysis_pack.py:313-314); an analysis that replaces them
  in between gives a pack of another content than its manifest names.
- `LoadView_zerosize`: a relocation whose target is a loaded segment of size 0 passes
  the checks and ends in a KeyError (load_view.py:278), which is none of the errors a
  module's boundary holds back.

Reading the code for the models showed more, which no configuration covers.

Session and workspace: a peer that pings for ever keeps a receive past its deadline
(transport.py:220); a KeyboardInterrupt inside `close()` skips the termination of the
process (session.py:187); a launched session connects to whatever answers on the port
(session.py:155); an image written to between its hashing and its stat is analysed as
if unchanged (workspace.py:235), which is why `StartsOnPreparedContents` restricts
writes during calls to directories; a prepare that is stopped between its files pairs
one source's manifest with another's path (workspace.py:268), which is what the
history variable `mixed` excludes; a reused result leaves per-file states pending
(workspace.py:521).

Pipeline: a function whose attempts all fail in m2c is blocked for good
(orchestrator.py:152), with the same status as one whose tools are missing; a function
whose metadata is refused ends every run that selects it (cli.py:636), and the ones after
it are not reached by those; a run whose tools go missing midway saves its attempts
beside the best it loaded, so that a first history may have none (orchestrator.py:265);
 two processes overwrite each other's attempts
(decompile/workspace.py:131), and the runs have one process; re-analysis removes the
drafts the records name (workspace.py:534).

Evidence: an observe that is stopped between its two files leaves a session without
observations (cli.py:529), which makes every later reconcile fail, where
docs/phase8c-runtime-intelligence.md:109 has one malformed observation of a batch never
prevent the rest; observations that cannot be read are taken for none and overwritten
(cli.py:531); `FailsOnlyAfterHarm` and `ObservationsAreKept` exempt exactly these two
steps, and say that nothing else has their effect; the key of a call site is the address itself, so one site with two
targets never arises from the command line; a result that conflicts has no static
address, so a function never shows it (queue.py:145), and an earlier runtime status
stays; an empty module map replaces one that was there; a reconciliation survives a
re-analysis of what it maps to.

Game: an external tool always wins over a prebuilt dump, and when it fails the dump is
not tried; files whose names are equal but for case are all boot modules; the later
ones of these avoid only the claims of boot modules; the search for a free range never
goes back below its cursor; a provider that fails can make an ambiguous import unique;
a module whose link view fails keeps its project directory beside a record that says
failed; an address 0 is never moved with its module; a broken compressed stream leaves
a view without its relocations and a warning; game_project.py writes some files with
`_write_json`, which is not atomic, where docs/phase8c-runtime-intelligence.md:125 has
it all atomic.

Packs: a recovered module never passes the digest check, as the manifest has the
encrypted file; two calls for one output share a temporary name (analysis_pack.py:600).

## 5. What is proved

Every safety property of a passing run is a theorem: the invariants, the action
properties and the refinement. A theorem holds for every value of the constants that
the assumptions of its modules admit, where TLC has one small instance. Some have a
hypothesis more, named below: one without which the property is false (`OwnRecords`,
`OneRun`, `OwnSessions`, `OneCall`), or the widths that the code has (`CodeWidths`).

`GameWorkspaceProofs`, for any sources, contents, configurations and bounds, from the
assumptions named in `GameWorkspace` (`SourcesAssumption`: every source is a directory
or an image; `NoneAssumption`: `None` is none of the values; `BoundsAssumption`):

- `TypeCorrect`: `Spec => []TypeOK`. TypeOK alone is not inductive, as it allows
  `None` where a later step needs a value; `StepsAreSupplied` says at which steps the
  local variables and the files already written are there.
- `PreparedAccepted`: `Spec => []PreparedIsAccepted`. `PrepareInv` follows the three
  writes of `_write_workspace`: after each one the files so far agree with what was
  surveyed, whatever was there before.
- `StartsAreOnPrepared`: `Spec => []StartsOnPreparedContents`. `SnapshotInv` relates
  stamps to contents: stamps on disk never exceed the source's, and an equal stamp
  means equal contents, for a source that was stat'ed before it was hashed or not
  written to meanwhile. A write between the two makes the stamps differ.
- `ResultsAreRight`: `Spec => []RightUnlessStopped`. `AnalysisInv` adds that the key
  of a running analysis is that of the source as it is, and that a state.json that was
  not followed by a stopped analysis vouches for a finished output.

`DebuggerSessionProofs`, for any addresses, number of captures, queue limit and bounds,
from `AddrsAssumption` and `BoundsAssumption` of `DebuggerSession`. Queues are taken as
the sets of what is in them (`In`), and a step of the client as one of three: it sends
nothing, it leaves its wait, or it sends one request with a new ticket (`Moves`):

- `SessionTypeCorrect`: `Spec => []TypeOK`. What an answer is made of comes off the
  wire, so the invariant `TypeInv` adds `Tickets`: whatever is on its way bears an older
  ticket than the next one, and under the awaited ticket it is of the awaited request.
- `AnswersAreTheCalls`: `Spec => []AnswersBelongToTheCall`, from `Tickets`.
- `NothingTrackedWhenIdle`: `Spec => []NothingTrackedBetweenCalls`. `Tracking`: while
  an observation runs, the one address that may be tracked is its own.
- `CapturesAreOfOneStop`: `Spec => []CapturesSeeOneStop`. `OneStop` says that while
  an observation captures, its stop event having been taken in time, the CPU is at that
  stop, no resume is on its way to it, and a reply under the awaited ticket was made
  there.
- `OnlyLostAddsRemain`: `Spec => []OnlyLostAddsLeak`. What counts is what the emulator
  will hold once it has served what is on its way (`Held`), and `Leaks` accounts for
  that at every step: it is tracked, or was given up, or its removal was refused
  (`denied`), or is the add being waited for.
  Before a removal is answered nothing after it adds the address again. The step to
  look at is an add that is refused: nothing earlier on the way, and nothing in the
  emulator, has its address (`Queued`, `Met`).
- `CpuRunsAtTheEnd`: `Spec => []CpuLeftRunning`. The emulator acts on requests some time
  after they are sent, so the invariant `Rests` is about what is on its way as well: once
  that is served the CPU runs (`AtRest`), because there is nothing left to stop at, or
  because a resume comes when every breakpoint is gone and no add comes after it. An
  observation whose add is refused sends no resume; there the CPU never stopped
  (`AddWaits`, `AddServed`). It rests on `Leaks`: with no add lost and no removal or
  resume refused (`Lost`), what close() and the `finally` clause remove is all there is.
- `CallsCountDown`: the stages that a call has left (`Stage`, from the add through each
  capture to the removal and to close()) are a number; a step of the client lowers it or
  takes a message off the connection, an interrupt or the end of the block lowers it, and
  the emulator and a lost link leave it. `Counted`: a capture is asked for only while one
  is missing, and close() has at most one breakpoint to take back.

`SessionLaunchProofs`, for any modes, other programs on the port and number of
interrupts, from `ModesAssumption` and `BoundsAssumption` of `SessionLaunch`:

- `NothingLeftBehind`: `Spec => []NoProcessLeft`. The property says nothing of the
  steps before the end, so it is strengthened by who answers for a running process:
  the session holds it, or `_terminate_process` has taken it over, or the session was
  interrupted (`Held`); and a session that is terminating it, or is over, holds none
  (`Released`). The step to look at is `Cleanup`, which lets go of the process first.
- `LaunchTypeCorrect`: `Spec => []TypeOK`, inductive as it stands.
- `SessionCountsDown`: of a session's steps only the constructor's retry before its
  deadline leads back; every other one, an interrupt included, lowers `StepsLeft`, and a
  deadline that has passed stays passed.

`DecompilePipelineProofs`, for any functions, listings, tools, answers of the tools and
number of runs, from the assumptions named in `Attempts` and `DecompilePipeline`
(`DigestAssumption`: attempt ids are injective numbers; `UnsetAssumption` and the like:
`None` is no value; `FunctionsAssumption`: a catalog has finitely many functions):

- `PipelineTypeCorrect`: `Spec => []TypeOK`. What is saved is a history that a run
  loaded and appended to, so the invariant `TypeInv` adds what a run at each of its
  steps has in hand (`Supplied`).
- `ExactIsAlwaysBest`: `Spec => []ExactIsBest`, for any number of runs and of shared
  records, with or without `--force`. A run that finds a tool missing saves the attempts
  it has made beside the best it loaded, so the property holds only because the code
  tries nothing after an exact attempt: `RecordsExact` says that, until a run leaves its
  function, the exact attempts it has are those it loaded (`ExactEnds`), and that every
  record on disk or loaded has an exact best if it has an exact attempt. Where attempts
  are ranked, an exact one precedes all others (`ExactPrecedes`), and there is a best:
  the four numbers of `_rank` are minimised one after the other (`LexLeast`,
  `BestExists`), and the digest leaves one. Of records without an exact attempt it says
  nothing; a blocked one may have attempts and no best.
- `ExactIsAlwaysOwn`: `OwnRecords` gives `Spec => []ExactIsOwn`. `OwnRecords` says that
  no two functions share a record, without which it is false
  (`DecompilePipeline_stems`). `RecordsOwned`: what is in a function's record, or in the
  hands of a run for it, is that function's. `Agrees`: a status that was not set by a
  missing tool is that of the best attempt in the record.
- `RecordsImplementTheLog`: `OwnRecords` and `OneRun` give `Spec => AttemptsAreKept`,
  the refinement of `AttemptLog`, step by step. `RecordsKept` says that what a run
  loaded is a beginning of what is on disk; `OneRun`, that one process runs
  the pipeline, is needed because the write of a second is lost under the first's.
- `NoAttemptIsMadeTwice`: `Spec => []NoAttemptTwice`, for any number of runs. What a run
  is about to make is not among what it loaded or has made (`RecordsDistinct`).
- `DraftsAreThoseOnRecord`: `OwnRecords` and `OneRun` give `Spec => []DraftsMatchRecords`
  (`DraftsFit`, over `RecordsDistinct`: a draft's file is named by the attempt's
  inputs, which no other attempt has).
- `RunsCountDown`: every step of a run lowers, in lexicographic order, the functions it
  has still to take, whether it is at one, the contexts left to try and the tools left in
  the attempt (`RunLeft`), and leaves the other runs where they are. `AllAtOne`: the
  function a run works on is still among those to take, so leaving it counts.

`RuntimeEvidenceProofs`, for any paths, layouts, analyses, sessions, calls and bounds,
from the assumptions named in `Reconciliation` and `RuntimeEvidence`
(`PlacesAssumption`: modules do not overlap in memory; `AnalysesAssumption`: a static
image is no longer than the module in memory; `UnsetAssumption`: an unreadable file is
no value):

- `EvidenceTypeCorrect`: `Spec => []TypeOK`; `TypeInv` adds what each step of a call has
  in hand. The results of a reconciliation come from a function over a sequence and a
  count, of which it is proved element by element what they are (`AllReconciled`,
  `CountedTwice`, `FlattenTyped`).
- `MappedIsRight`: `Spec => []ResolvedToItsPlace`, and `VerifiedTwice`:
  `Spec => []VerifiedIsRepeated`. An observation says nothing of the layout it was made
  under, so the invariant says that there is an assignment of layouts to emulators that
  explains all that is on disk and under way (`Remembered`); a restart extends it by
  one. A result with a target lies in the image of a module of the map (`Stands`), and
  as modules do not overlap, that is the module whose code ran.
- `FailureIsAfterHarm`: `OneCall` gives `Spec => []FailsOnlyAfterHarm`. `Unharmed`: a
  session without observations is that of the call about to save them. `OneCall`, that
  there is one process, is needed as a reconcile between the two writes of another's
  observe finds such a session and fails.
- `ObservationsStay`: `OwnSessions` gives `Spec => ObservationsAreKept`, for any number
  of calls at once. `OwnSessions` says that no two of them are for one session, without
  which it is false (`RuntimeEvidence_race`). `UpToDate`: what a call has read is what
  is still on file.

`AnalysisPackProofs`, for any contents, sizes, budgets, windows, records and entries,
from `PackAssumption` of `AnalysisPack`:

- `PackTypeCorrect`: `Spec => []TypeOK`, with `Supplied`: there is a call only about
  what was analyzed.
- `PackIsLocked`, `PackIsWithinBudget`, `PackIsWhole`: `Spec => []ProvenanceLocked`,
  `[]WithinBudget`, `[]OutputIsWhole`. `PackInv` follows a call step by step (`UnderWay`):
  what the first n steps of its kind require has been gathered in order, with or without
  what is optional (`CarriesFirst`), and past the check of the digest the bytes that
  may still be read are those the call's record names, or an analysis has come since
  (`Taken`). Every kind has that check once among its steps, before any bytes are read
  (`VerifyOnce`). The temporary
  file and the output are `Good` whenever they are there, so it does not matter where
  `Kill` comes.

`GameProjectProofs`, for any modules, images, address space, grain and backends, from
the assumptions named in `Placement`, `Recovery`, `Linker` and `GameProject` (of which
`ModulesAssumption`: a disc has finitely many files):

- `SecondariesClear`: `Spec => []SecondariesKeepClear`. `PlanInvariant` adds that
  no secondary module is placed before its stage, and nothing before the fixed ones; a
  secondary one is placed by the turn of a search that found no collision
  (`TurnKeepsClear`).
- `ModulesAccounted`: `Spec => []EveryModuleAccounted`. `Accounted`: within each
  pass, the modules still to be taken, those prepared and those with a record are
  disjoint and together all candidates, and what is linked or in trouble goes by the
  record.
- `AnalysisTypeCorrect`: `Spec => []TypeOK`. The fields of a segment are words, so an
  image has a lowest and a highest address and its layout is defined; `PlanTypes` says
  that what is planned has one.
- `PlacesAreFirstFits`: `Spec => FirstFit`, an action property. The search jumps from
  the end of a collision to the next aligned address, and `Passed` says that nothing was
  missed: every aligned address below the candidate collides. One module is placed at a
  time as the order of paths is total (`NextIsOne`), so a candidate belongs to the
  module it was found for (`Searched`). Where the end of a candidate lies past the limit,
  every place below it has been passed, so what `game_noroom` shows is of plans that are
  full from the cursor on, and of no others.
- `AnalysisCountsDown`: every step lowers, in lexicographic order, the phases, the
  modules to take, the stages of placement, the modules to place and the addresses to try
  (`Left`). The search is a loop without a bound in the code (placement.py, `_find_free`);
  what bounds it is that a collision ends above the address tried, so the next one is
  higher, and that a candidate beyond the limit raises.

`LoadViewProofs`, for any modules, streams, load addresses and ceiling. The first is for
any width of a byte; the others for the code's own, `CodeWidths` (bytes of 8 bits, jumps
of 26), which TLC cannot enumerate. From `StreamAssumption`, `FilesAssumption` (what a
header loads lies in the file, which elf32.py requires) and `LoadAssumption` (a load
address is a word, which load_view.py:243 requires):

- `StreamsAreWhole`: `Spec => []AllOrNothing`, by `DecodeInvariant`: a stream whose
  widths do not fit has nothing decoded, and what comes after extraction leaves the
  relocations of the module alone.
- `HalvesMakeTheAddress`: for words of 32 bits, the high half with its carry and the
  signed low half make the address, at any address.
- `LoadTypeCorrect`: `Spec => []TypeOK`. Fields of a command are as wide as its header
  says, so the powers of two they are cut out by are numbers (`FieldsTyped`), and a
  relocation of any type makes a word of a word (`RelocatedIsWord`).
- `PointersAgree`: `Spec => []PointersMeetMetadata`, and `PairsAreMoved`:
  `Spec => []PairsMoveTogether`. `RelocatedOnce` is what makes them inductive: a word
  that no other relocation touches is that of the file before its turn, and after it
  that word relocated, once. A write is four bytes and reads back as the word written
  (`WriteDone`). A pointer does not wrap as its segment was found to fit
  (`SegmentTyped`); a pair may, and `PairMoves` has the carries out of the low half and
  out of the word cancel, by `HalvesMakeTheAddress`.

Of liveness the provers reach one half. That nothing goes on for ever is proved by the
four theorems that end in `CountDown` or `CountsDown`: each gives a well-founded measure
that the steps of its component lower. The other half is that a step is possible until
the end is reached (ENABLED) and is then taken (fairness); that is TLC's alone, in
`CallsEnd`, `SetupEnds`, `ClosingEnds`, `EveryFunctionIsTried` and `AnalysisEnds`. A
debugger's call is bounded only as far as the messages that come are: a wait may pass
over any number of them (hence `MaxPings`, section 3).

Induction over data is out of reach as well, in the form the library has it; where a
proof needs a least element it takes it from `WFMin`, which is about a set. The two runs
of section 4 that end in a violation, and the configurations after them, are TLC's
alone. No module declares a recursive operator.

Leaves are kept small enough that each is proved in a small part of the time the provers
allow it, so that the proofs do not depend on the speed of the machine.

## 6. What is left

Done, in this order, each with its proofs: `DebuggerSession` and `SessionLaunch`;
`GameWorkspace`; `Attempts`, `AttemptLog`, `DecompilePipeline` with the refinement;
`Reconciliation`, `RuntimeEvidence`; `Placement`, `Recovery`, `Linker`, `GameProject`;
`PrxReloc2`, `LoadView`; `AnalysisPack`.

Left are the hazards that PROJECT.json lists without a property; each says why. That
`GameProject` implements the steps `Generate` to `WriteRest` of `GameWorkspace` is not
stated: the workspace takes the analysis as one that succeeds or stops between its
files, and `GameProject` models what the results say, not when each file of them is
written, so the refinement would relate nothing but the end of the one to the end of the
other.

### Not modelled

- `data_typing.py`: one pass over instructions that keeps a record per address. Its
  difficulty is in MIPS idioms, not in states, and its input is a third-party
  disassembler's.
- `game_resources.py` and its parsers: a recursion over containers under limits,
  within one call, without state between calls. What the game's analysis needs of it is
  whether it succeeds.
- `disc_image.py`: an adapter to pycdlib. Its one cached block holds what was last read
  at a multiple of the block size, and nothing writes to it.
- Parsers (`analyzer.py`, `detect.py`, `elf32.py`, `psp_container.py`, `sfo.py`,
  `nids.py`, most of `prx.py`): they read fields at fixed offsets and refuse what is out
  of range. The models take their results as constants.
- `engines/spim.py`, `disassembler.py`, `advanced.py`, `project.py`: adapters to
  spimdisasm and Splat, and the layout of text.
- `decompile/reporting.py`, `runtime/bundle.py`: a table written from the saved
  records, and a check of hashes; no state is kept.
- In `matcher.py` and `decompiler.py`, the comparison of the tools' text.
- Two calls at once in one workspace, except where a module has several processes
  (`DecompilePipeline`, `RuntimeEvidence`): no document promises anything of them.
