-------------------------- MODULE DecompilePipeline --------------------------
(***************************************************************************)
(* decompile-workspace (cli.py, decompile/): a run selects the functions   *)
(* that need work and takes each through m2c, a build and asm-differ, with *)
(* or without context files, saving its record before the next.  Any tool  *)
(* may fail or be missing, a run may end anywhere, several may go on at    *)
(* once, and the modules may be analysed again between runs.               *)
(***************************************************************************)
EXTENDS Attempts, FiniteSets

CONSTANTS
    Processes,    \* decompile-workspace processes
    Stems,        \* directory names of records
    Stem,         \* _safe_function_stem: the directory of a function's record
    Order,        \* _priority_key: the place of a function in the queue
    Analyses,     \* what an analysis may give a function: see Listed
    Commands,     \* the command lines the user gives
    MaxHistory,   \* bound: no run starts once a history is this long
    MaxEdits,     \* bound: analyses after the first
    Kills         \* a run may be ended at any point

\* A function's assembly, or "empty" without instructions, or "invalid" when
\* the metadata the matcher reads is refused (a name that occurs twice).
Listed == Listings \cup {"empty", "invalid"}

\* only: --function.  contexts: "unreadable" when a file given cannot be read.
Command == [only: Functions \cup {None}, below: (0 .. 100) \cup {None},
            unmatched: BOOLEAN, limit: Nat \cup {None},
            contexts: {"none", "given", "unreadable"}, maxAttempts: Nat \ {0},
            force: BOOLEAN, m2c: BOOLEAN, tools: Toolsets]

ASSUME FunctionsAssumption == IsFiniteSet(Functions)
ASSUME StemAssumption == Stem \in [Functions -> Stems]
ASSUME OrderAssumption ==
    /\ Order \in [Functions -> Nat]
    /\ \A f, g \in Functions : Order[f] = Order[g] => f = g
ASSUME CommandsAssumption == Commands \subseteq Command
ASSUME BoundsAssumption == MaxHistory \in Nat /\ MaxEdits \in Nat
ASSUME ListedAssumption == Analyses \subseteq Listed /\ None \notin Listed

VARIABLES
    saved,     \* functions/<module>/<stem>/state.json, or None
    drafts,    \* src/nonmatching/<function>.<attempt id>.c, or None
    listing,   \* metadata/functions.json, per function
    edits,     \* how often the modules were analysed again
    run        \* per process: where it is, and its local variables

vars == <<saved, drafts, listing, edits, run>>

Statuses == {"pending", "unsupported", "blocked", "build_failed", "matched_partial",
             "matched_exact"}
DoneStatuses == {"matched_exact", "blocked", "unsupported"}

\* failure: what last_failure is about.
State == [function: Functions, status: Statuses, best: Inputs \cup {None},
          percent: (0 .. 100) \cup {None},
          failure: {None, "unsupported", "unavailable", "attempt"},
          history: Seq(Attempt)]

ASSUME StateAssumption == None \notin State

Fresh(f) == [function |-> f, status |-> "pending", best |-> None, percent |-> None,
             failure |-> None, history |-> <<>>]

\* todo: what is left of the selection; loaded: the records read at the start;
\* variants: the contexts still to try; inputs and draft: of the attempt made.
Run == [at: {"idle", "next", "variant", "decompile", "build", "match"},
        command: Commands \cup {None}, todo: SUBSET Functions,
        loaded: [Functions -> State] \cup {None}, function: Functions \cup {None},
        variants: Seq({"none", "given", "unreadable"}), attempts: Seq(Attempt),
        inputs: Inputs \cup {None}, draft: Drafts \cup {None}]

Idle == [at |-> "idle", command |-> None, todo |-> {}, loaded |-> None,
         function |-> None, variants |-> <<>>, attempts |-> <<>>, inputs |-> None,
         draft |-> None]

TypeOK ==
    /\ saved \in [Stems -> State \cup {None}]
    /\ drafts \in [Inputs -> Drafts \cup {None}]
    /\ listing \in [Functions -> Analyses]
    /\ edits \in 0 .. MaxEdits
    /\ run \in [Processes -> Run]

Init ==
    /\ saved = [s \in Stems |-> None]
    /\ drafts = [i \in Inputs |-> None]
    /\ listing \in [Functions -> Analyses]
    /\ edits = 0
    /\ run = [p \in Processes |-> Idle]

-----------------------------------------------------------------------------
(* The queue *)

Load(f) == IF saved[Stem[f]] = None THEN Fresh(f) ELSE saved[Stem[f]]

NeedsWork(state, c) ==
    CASE c.below # None -> (IF state.percent = None THEN 0 ELSE state.percent) < c.below
      [] c.below = None /\ c.unmatched -> state.status # "matched_exact"
      [] OTHER -> state.status \notin DoneStatuses

Selected(c, loaded) ==
    IF c.only # None THEN {c.only}
    ELSE LET work == {f \in Functions : NeedsWork(loaded[f], c)}
             place(f) == Cardinality({g \in work : Order[g] < Order[f]})
         IN {f \in work : c.limit # None => place(f) < c.limit}

-----------------------------------------------------------------------------
(* A run *)

Start(p, c) ==
    /\ run[p].at = "idle"
    /\ \A s \in Stems : saved[s] # None => Len(saved[s].history) < MaxHistory
    /\ LET loaded == [f \in Functions |-> Load(f)] IN
       run' = [run EXCEPT ![p] = [Idle EXCEPT !.at = "next", !.command = c,
                                  !.loaded = loaded, !.todo = Selected(c, loaded)]]
    /\ UNCHANGED <<saved, drafts, listing, edits>>

\* The uncaught exceptions of run_and_persist end the whole run.
EndRun(p) ==
    /\ run' = [run EXCEPT ![p] = Idle]
    /\ UNCHANGED <<saved, drafts, listing, edits>>

IsNext(p, f) ==
    /\ run[p].at = "next" /\ f \in run[p].todo
    /\ \A g \in run[p].todo : Order[f] <= Order[g]

Done(p) == run[p].at = "next" /\ run[p].todo = {} /\ EndRun(p)

Raises(p) == (\E f \in Functions : IsNext(p, f) /\ listing[f] = "invalid") /\ EndRun(p)

\* Mutant of SaveAndGoOn: a run ends after its first function.
SaveAndStop(p, f, state) ==
    /\ saved' = [saved EXCEPT ![Stem[state.function]] = state]
    /\ run' = [run EXCEPT ![p] = Idle]
    /\ UNCHANGED <<drafts, listing, edits>>

\* save_function_state, then on to the next function.
SaveAndGoOn(p, f, state) ==
    /\ saved' = [saved EXCEPT ![Stem[state.function]] = state]
    /\ run' = [run EXCEPT ![p] = [Idle EXCEPT !.at = "next", !.command = run[p].command,
                                  !.loaded = run[p].loaded, !.todo = run[p].todo \ {f}]]
    /\ UNCHANGED <<drafts, listing, edits>>

Unsupported(p) ==
    \E f \in Functions :
        /\ IsNext(p, f) /\ listing[f] = "empty"
        /\ SaveAndGoOn(p, f, [run[p].loaded[f] EXCEPT !.status = "unsupported",
                                                      !.failure = "unsupported"])

WithoutM2c(p) ==
    \E f \in Functions :
        /\ IsNext(p, f) /\ listing[f] \in Listings /\ ~run[p].command.m2c
        /\ SaveAndGoOn(p, f, [run[p].loaded[f] EXCEPT !.status = "blocked",
                                                      !.failure = "unavailable"])

\* default_variants, of which max_attempts are tried.
Variants(c) ==
    IF c.contexts = "none" \/ c.maxAttempts = 1 THEN <<"none">> ELSE <<"none", c.contexts>>

\* Mutant of Begin: the attempts of earlier runs are not carried over.
BeginAfresh(p) ==
    \E f \in Functions :
        /\ IsNext(p, f) /\ listing[f] \in Listings /\ run[p].command.m2c
        /\ run' = [run EXCEPT ![p].at = "variant", ![p].function = f,
                              ![p].variants = Variants(run[p].command)]
        /\ UNCHANGED <<saved, drafts, listing, edits>>

Begin(p) ==
    \E f \in Functions :
        /\ IsNext(p, f) /\ listing[f] \in Listings /\ run[p].command.m2c
        /\ run' = [run EXCEPT ![p].at = "variant", ![p].function = f,
                              ![p].variants = Variants(run[p].command),
                              ![p].attempts = run[p].loaded[f].history]
        /\ UNCHANGED <<saved, drafts, listing, edits>>

InputsOf(p, contexts) ==
    [function |-> run[p].function, listing |-> listing[run[p].function],
     contexts |-> contexts, tools |-> run[p].command.tools]

Unread(p) == [InputsOf(p, "none") EXCEPT !.listing = "unavailable"]

\* Mutant of Seen: only the last attempt is looked at.
SeenLast(p, inputs) ==
    LET a == run[p].attempts
    IN a # <<>> /\ Digest[a[Len(a)].inputs] = Digest[inputs]

Seen(p, inputs) ==
    \E i \in DOMAIN run[p].attempts : Digest[run[p].attempts[i].inputs] = Digest[inputs]

Variant(p) == Head(run[p].variants)

AtVariant(p) == run[p].at = "variant" /\ run[p].variants # <<>>

ContextUnreadable(p) ==
    /\ AtVariant(p) /\ Variant(p) = "unreadable"
    /\ run' = [run EXCEPT
         ![p].variants = Tail(run[p].variants),
         ![p].attempts =
             IF Seen(p, Unread(p)) THEN run[p].attempts
             ELSE Append(run[p].attempts,
                         Failed(Unread(p), "decompilation_failed", None))]
    /\ UNCHANGED <<saved, drafts, listing, edits>>

\* An attempt on record is not made again unless --force is given.
Repeats(p) == Seen(p, InputsOf(p, Variant(p))) /\ ~run[p].command.force

SkipVariant(p) ==
    /\ AtVariant(p) /\ Variant(p) # "unreadable" /\ Repeats(p)
    /\ run' = [run EXCEPT ![p].variants = Tail(run[p].variants)]
    /\ UNCHANGED <<saved, drafts, listing, edits>>

TryVariant(p) ==
    /\ AtVariant(p) /\ Variant(p) # "unreadable" /\ ~Repeats(p)
    /\ run' = [run EXCEPT ![p].at = "decompile", ![p].variants = Tail(run[p].variants),
                          ![p].inputs = InputsOf(p, Variant(p))]
    /\ UNCHANGED <<saved, drafts, listing, edits>>

\* Mutant of Finished: the variants that are left are tried after an exact match.
FinishedGoingOn(p, attempt) ==
    run' = [run EXCEPT ![p].at = "variant",
                       ![p].attempts = Append(run[p].attempts, attempt),
                       ![p].inputs = None, ![p].draft = None]

\* The attempt ends here; an exact match leaves no variant to try.
Finished(p, attempt) ==
    run' = [run EXCEPT ![p].at = "variant",
                       ![p].attempts = Append(run[p].attempts, attempt),
                       ![p].variants = IF attempt.exact THEN <<>> ELSE run[p].variants,
                       ![p].inputs = None, ![p].draft = None]

\* Mutant of Decompile: the file of a draft is named for its function alone.
DecompileUnkeyed(p) ==
    /\ run[p].at = "decompile"
    /\ \/ \E d \in Drafts :
            /\ drafts' = [i \in Inputs |-> IF i.function = run[p].function THEN d
                                           ELSE drafts[i]]
            /\ run' = [run EXCEPT ![p].at = "build", ![p].draft = d]
       \/ /\ Finished(p, Failed(run[p].inputs, "decompilation_failed", None))
          /\ UNCHANGED drafts
    /\ UNCHANGED <<saved, listing, edits>>

Decompile(p) ==
    /\ run[p].at = "decompile"
    /\ \/ \E d \in Drafts :
            /\ drafts' = [drafts EXCEPT ![run[p].inputs] = d]
            /\ run' = [run EXCEPT ![p].at = "build", ![p].draft = d]
       \/ /\ Finished(p, Failed(run[p].inputs, "decompilation_failed", None))
          /\ UNCHANGED drafts
    /\ UNCHANGED <<saved, listing, edits>>

Build(p) ==
    /\ run[p].at = "build"
    /\ \/ run' = [run EXCEPT ![p].at = "match"]
       \/ Finished(p, Failed(run[p].inputs, "build_failed", run[p].draft))
    /\ UNCHANGED <<saved, drafts, listing, edits>>

Match(p) ==
    /\ run[p].at = "match"
    /\ \/ \E s \in Scores : Finished(p, Matched(run[p].inputs, run[p].draft, s))
       \/ Finished(p, Failed(run[p].inputs, "match_failed", run[p].draft))
    /\ UNCHANGED <<saved, drafts, listing, edits>>

\* m2c, the compiler or asm-differ turns out to be missing: the attempt is
\* dropped, those before it are kept, and the best on record is left alone.
Blocked(p) ==
    /\ run[p].at \in {"decompile", "build", "match"}
    /\ SaveAndGoOn(p, run[p].function,
                   [run[p].loaded[run[p].function] EXCEPT
                        !.status = "blocked", !.failure = "unavailable",
                        !.history = run[p].attempts])

\* Mutant of Recorded: the best attempt is stored in place of its identity.
RecordedWhole(f, attempts) ==
    LET best == Best(attempts) IN
    [function |-> f, status |-> StatusOf(best), history |-> attempts, best |-> best,
     percent |-> IF best = None THEN None ELSE best.percent,
     failure |-> IF best = None \/ best.exact THEN None ELSE "attempt"]

Recorded(f, attempts) ==
    LET best == Best(attempts) IN
    [function |-> f, status |-> StatusOf(best), history |-> attempts,
     best |-> IF best = None THEN None ELSE best.inputs,
     percent |-> IF best = None THEN None ELSE best.percent,
     failure |-> IF best = None \/ best.exact THEN None ELSE "attempt"]

Finish(p) ==
    /\ run[p].at = "variant" /\ run[p].variants = <<>>
    /\ SaveAndGoOn(p, run[p].function, Recorded(run[p].function, run[p].attempts))

\* Ctrl-C, or an exception nobody expects: what is saved stays.
Kill(p) == Kills /\ run[p].at # "idle" /\ EndRun(p)

-----------------------------------------------------------------------------

\* analyze-workspace, run again with another configuration: it removes the
\* projects, and the drafts in them, before it generates them anew.
Reanalyze ==
    /\ \A p \in Processes : run[p].at = "idle"
    /\ edits < MaxEdits
    /\ edits' = edits + 1
    /\ listing' \in [Functions -> Analyses]
    /\ drafts' = [i \in Inputs |-> None]
    /\ UNCHANGED <<saved, run>>

Step(p) ==
    \/ Done(p) \/ Raises(p) \/ Unsupported(p) \/ WithoutM2c(p) \/ Begin(p)
    \/ ContextUnreadable(p) \/ SkipVariant(p) \/ TryVariant(p)
    \/ Decompile(p) \/ Build(p) \/ Match(p) \/ Blocked(p) \/ Finish(p)

StartSome(p) == \E c \in Commands : Start(p, c)

Next ==
    \/ \E p \in Processes : StartSome(p) \/ Step(p) \/ Kill(p)
    \/ Reanalyze

Spec == Init /\ [][Next]_vars

\* m2c is the one tool that runs without a timeout (decompiler.py, _run_m2c).
InM2c(p) == run[p].at = "decompile"

\* A run goes on by itself but for m2c, and the user keeps giving each command.
FairSpec ==
    /\ Spec
    /\ \A p \in Processes : WF_vars(Step(p) /\ ~InM2c(p))
    /\ \A p \in Processes : \A c \in Commands : SF_vars(Start(p, c))

-----------------------------------------------------------------------------
(* Properties *)

History(f) == Load(f).history

\* Once an attempt on record is exact the record names an exact one as its
\* best, at 100 percent, whatever was tried, forced, blocked for want of a tool
\* or ended since.  A run that finds a tool missing saves its attempts and
\* leaves the best as it was loaded, so this takes that no variant is tried
\* after an exact one (orchestrator.py, run_function: the break, and the two
\* returns that keep queued.state).
ExactIsBest ==
    \A f \in Functions :
        LET s == Load(f) IN
        (\E i \in DOMAIN s.history : s.history[i].exact) =>
            /\ s.percent = 100
            /\ \E i \in DOMAIN s.history : s.history[i].exact /\ s.history[i].inputs = s.best

\* A function counts as matched only by an attempt made for it
\* (workspace.py, _function_dir; orchestrator.py, compute_attempt_id).
ExactIsOwn ==
    \A f \in Functions :
        Load(f).status = "matched_exact" =>
            \E i \in DOMAIN History(f) :
                History(f)[i].exact /\ History(f)[i].inputs.function = f

\* Without --force no history holds two attempts of one identity, through
\* runs that were ended, and a re-analysis (orchestrator.py, existing_ids).
NoAttemptTwice ==
    (\A c \in Commands : ~c.force) =>
        \A f \in Functions : \A i, j \in DOMAIN History(f) :
            History(f)[i].inputs = History(f)[j].inputs => i = j

\* Without --force a draft on disk is the very one its recorded attempt has
\* the hash of (orchestrator.py, output_c and candidate_sha256).
DraftsMatchRecords ==
    (\A c \in Commands : ~c.force) =>
        \A f \in Functions : \A i \in DOMAIN History(f) :
            LET a == History(f)[i] IN a.draft # None => drafts[a.inputs] \in {a.draft, None}

\* The saved records, read as the log of attempts that AttemptLog specifies.
Log == INSTANCE AttemptLog
    WITH log <- [f \in Functions |-> History(f)],
         best <- [f \in Functions |-> Load(f).best]

\* Attempts are appended to a record, never removed or rewritten, and the
\* best on record gives way only to the best of them all (orchestrator.py,
\* run_function and select_best_attempt).
AttemptsAreKept == Log!LogSpec

M2cReturns == \A p \in Processes : []<>~InM2c(p)

\* Unless m2c hangs, whoever keeps giving every command gets each function
\* tried, if one of the commands is without --limit: what runs with a limit or
\* with contexts that cannot be read leave behind keeps no function out of the
\* runs without one (queue.py, select_functions; cli.py, the loop over them).
EveryFunctionIsTried == M2cReturns => \A f \in Functions : <>(Load(f).status # "pending")

\* docs/phase8d: the status is derived from whichever attempt ranks best
\* across the entire accumulated history.
StatusIsDerived ==
    \A f \in Functions :
        History(f) # <<>> => Load(f).status = StatusOf(Best(History(f)))
=============================================================================
