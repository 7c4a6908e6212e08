--------------------------- MODULE RuntimeEvidence ---------------------------
(***************************************************************************)
(* pspdisasm runtime observe, modules and reconcile (cli.py:504-606) on    *)
(* the files under workspace/runtime.  A call may stop between any two of  *)
(* its writes, files may become unreadable, several calls may go on at     *)
(* once, the emulator may be started again with its modules elsewhere,     *)
(* and the workspace may be analysed again.                                *)
(***************************************************************************)
EXTENDS Reconciliation

CONSTANTS
    Unreadable,     \* a file that cannot be read or parsed
    Calls,          \* command-line processes
    Sessions,       \* session ids
    SessionOrder,   \* their sorted order, a sequence
    IdsOf,          \* the ids a process may be given or generate
    Layouts,        \* where an emulator loads each module
    Extent,         \* how far each module goes in memory
    Places,         \* the code that is observed: [path, offset] records
    Analyses,       \* contents of module_placements.json
    Candidates,     \* contents of --static-candidates
    MaxSaved,       \* bound: observations on record
    Given,          \* for which modules a user may name the base, sets of paths
    MaxChanges,     \* bound: emulators and analyses after the first
    Damages         \* what may become unreadable: any of "evidence", "modules"

ASSUME PlacesAssumption ==
    /\ Extent \in [Paths -> Nat]
    /\ Places \subseteq [path: Paths, offset: Nat]
    /\ \A p \in Places : p.offset < Extent[p.path]
    /\ Layouts \subseteq [Paths -> Nat]
    /\ \A l \in Layouts : \A p, q \in Paths :
          p # q => l[p] + Extent[p] <= l[q] \/ l[q] + Extent[q] <= l[p]
ASSUME AnalysesAssumption ==
    /\ \A a \in Analyses : \A p \in DOMAIN a :
          p \in Paths /\ a[p] \in Placement /\ a[p].size <= Extent[p]
    /\ Candidates \subseteq [Paths -> SUBSET Nat]
    /\ Given \subseteq SUBSET Paths
ASSUME IdsAssumption ==
    /\ SessionOrder \in Seq(Sessions)
    /\ {SessionOrder[i] : i \in 1 .. Len(SessionOrder)} = Sessions
    /\ IdsOf \in [Calls -> SUBSET Sessions]
ASSUME BoundsAssumption == {MaxSaved, MaxChanges} \subseteq Nat

VARIABLES
    sessions,      \* ids under runtime/sessions
    evidence,      \* observations.json per session, or None, or Unreadable
    modules,       \* modules.json, or None, or Unreadable
    reconciled,    \* reconciliation.json, or None
    placements,    \* module_placements.json
    layout,        \* of the running emulator
    starts, analyses,   \* counters of what has changed
    call,          \* per process: where it is, and its local variables
    failed,        \* history: some reconcile has raised
    harmed         \* history: a call stopped halfway, or a file was damaged

vars == <<sessions, evidence, modules, reconciled, placements, layout, starts,
          analyses, call, failed, harmed>>
world == <<placements, layout, starts, analyses>>

\* place and start are history: what was in fact executed, in which emulator.
Observation == [address: Nat, place: Places, start: 0 .. MaxChanges]

\* modules.json, with the emulator it was taken from as history.
Map == [list: Seq(Module), start: 0 .. MaxChanges]

ASSUME UnsetAssumption ==
    /\ Unreadable # None
    /\ \A unset \in {None, Unreadable} : unset \notin Seq(Observation) /\ unset \notin Map

\* reconciliation.json, with what it was computed from as history.
Record == [results: Seq([status: Statuses, path: Paths \cup {None},
                         offset: Nat \cup {None}, target: Nat \cup {None},
                         count: Nat \ {0}]),
           basis: Seq(Observation), from: 0 .. MaxChanges, candidates: Candidates,
           placed: Analyses]

Call == [at: {"idle", "captured", "session", "evidence", "mapped", "results"},
         id: Sessions \cup {None}, observation: Observation \cup {None},
         existing: Seq(Observation), map: Map \cup {None}, record: Record \cup {None}]

Idle == [at |-> "idle", id |-> None, observation |-> None, existing |-> <<>>,
         map |-> None, record |-> None]

TypeOK ==
    /\ sessions \subseteq Sessions
    /\ evidence \in [Sessions -> Seq(Observation) \cup {None, Unreadable}]
    /\ modules \in Map \cup {None, Unreadable}
    /\ reconciled \in Record \cup {None}
    /\ placements \in Analyses /\ layout \in Layouts
    /\ starts \in 0 .. MaxChanges /\ analyses \in 0 .. MaxChanges
    /\ call \in [Calls -> Call]
    /\ failed \in BOOLEAN /\ harmed \in BOOLEAN

Init ==
    /\ sessions = {} /\ evidence = [s \in Sessions |-> None]
    /\ modules = None /\ reconciled = None
    /\ placements \in Analyses /\ layout \in Layouts
    /\ starts = 0 /\ analyses = 0
    /\ call = [c \in Calls |-> Idle]
    /\ failed = FALSE /\ harmed = FALSE

-----------------------------------------------------------------------------
(* runtime observe *)

Saved(s) == IF evidence[s] \in {None, Unreadable} THEN <<>> ELSE evidence[s]

\* Mutant of Captured: the session is on record before the breakpoint is hit.
SavedFirst(c) ==
    /\ call[c].at = "idle"
    /\ \E id \in IdsOf[c], p \in Places :
          /\ \A s \in Sessions \ {id} : Len(Saved(s)) + Len(Saved(id)) < MaxSaved
          /\ sessions' = sessions \cup {id}
          /\ \/ call' = call
             \/ call' = [call EXCEPT ![c] = [Idle EXCEPT !.at = "captured", !.id = id,
                   !.observation = [address |-> layout[p.path] + p.offset, place |-> p,
                                    start |-> starts]]]
    /\ UNCHANGED <<evidence, modules, reconciled, world, failed, harmed>>

\* observe_breakpoint returned; one that raises leaves nothing.
Captured(c) ==
    /\ call[c].at = "idle"
    /\ \E id \in IdsOf[c], p \in Places :
          /\ \A s \in Sessions \ {id} : Len(Saved(s)) + Len(Saved(id)) < MaxSaved
          /\ call' = [call EXCEPT ![c] = [Idle EXCEPT !.at = "captured", !.id = id,
                !.observation = [address |-> layout[p.path] + p.offset, place |-> p,
                                 start |-> starts]]]
    /\ UNCHANGED <<sessions, evidence, modules, reconciled, world, failed, harmed>>

\* save_session_info.
SaveSession(c) ==
    /\ call[c].at = "captured"
    /\ sessions' = sessions \cup {call[c].id}
    /\ call' = [call EXCEPT ![c].at = "session"]
    /\ UNCHANGED <<evidence, modules, reconciled, world, failed, harmed>>

\* Mutant of LoadEvidence: each call starts its session's file anew.
IgnoreEvidence(c) ==
    /\ call[c].at = "session"
    /\ call' = [call EXCEPT ![c].at = "evidence"]
    /\ UNCHANGED <<sessions, evidence, modules, reconciled, world, failed, harmed>>

\* load_observations, whose WorkspaceError is suppressed.
LoadEvidence(c) ==
    /\ call[c].at = "session"
    /\ call' = [call EXCEPT ![c].at = "evidence", ![c].existing = Saved(call[c].id)]
    /\ UNCHANGED <<sessions, evidence, modules, reconciled, world, failed, harmed>>

\* save_observations.
SaveEvidence(c) ==
    /\ call[c].at = "evidence"
    /\ evidence' = [evidence EXCEPT ![call[c].id] =
                        Append(call[c].existing, call[c].observation)]
    /\ call' = [call EXCEPT ![c] = Idle]
    /\ UNCHANGED <<sessions, modules, reconciled, world, failed, harmed>>

-----------------------------------------------------------------------------
(* runtime modules *)

Reports == {<<>>} \cup
    {[i \in 1 .. Len(PathOrder) |->
        [path |-> None, base |-> layout[PathOrder[i]],
         size |-> IF sized THEN Extent[PathOrder[i]] ELSE None]] : sized \in BOOLEAN}

\* The bases a user gives are those of the running emulator.
Discover(c) ==
    /\ call[c].at = "idle"
    /\ \E reported \in Reports, given \in Given :
          call' = [call EXCEPT ![c] = [Idle EXCEPT !.at = "mapped", !.map =
              [list |-> ModuleMap(reported, [p \in given |-> layout[p]], placements),
               start |-> starts]]]
    /\ UNCHANGED <<sessions, evidence, modules, reconciled, world, failed, harmed>>

\* save_module_map: an empty map, too, replaces what was there.
SaveMap(c) ==
    /\ call[c].at = "mapped"
    /\ modules' = call[c].map
    /\ call' = [call EXCEPT ![c] = Idle]
    /\ UNCHANGED <<sessions, evidence, reconciled, world, failed, harmed>>

-----------------------------------------------------------------------------
(* runtime reconcile *)

\* The observations of the listed sessions, session after session.
Gathered ==
    FlattenSeq([i \in 1 .. Len(SessionOrder) |->
        IF SessionOrder[i] \in sessions THEN evidence[SessionOrder[i]] ELSE <<>>])

Readable == /\ modules # Unreadable
            /\ \A s \in sessions : evidence[s] \notin {None, Unreadable}

Reconcile(c) ==
    /\ call[c].at = "idle" /\ Readable
    /\ LET map == IF modules = None THEN [list |-> <<>>, start |-> starts] ELSE modules
           seen == Gathered
       IN  \E candidates \in Candidates :
           call' = [call EXCEPT ![c] = [Idle EXCEPT !.at = "results", !.record =
              [results |-> ReconcileAll([i \in 1 .. Len(seen) |-> seen[i].address],
                                        map.list, placements, candidates),
               basis |-> seen, from |-> map.start, candidates |-> candidates,
               placed |-> placements]]]
    /\ UNCHANGED <<sessions, evidence, modules, reconciled, world, failed, harmed>>

\* One file that cannot be read, of any session, ends the call.
ReconcileRaises(c) ==
    /\ call[c].at = "idle" /\ ~Readable
    /\ failed' = TRUE
    /\ UNCHANGED <<sessions, evidence, modules, reconciled, world, call, harmed>>

\* save_reconciliation.
SaveResults(c) ==
    /\ call[c].at = "results"
    /\ reconciled' = call[c].record
    /\ call' = [call EXCEPT ![c] = Idle]
    /\ UNCHANGED <<sessions, evidence, modules, world, failed, harmed>>

-----------------------------------------------------------------------------
(* What happens around the calls *)

\* A call ends anywhere.
Stop(c) ==
    /\ call[c].at # "idle"
    /\ call' = [call EXCEPT ![c] = Idle]
    /\ harmed' = (harmed \/ call[c].at \in {"session", "evidence"})
    /\ UNCHANGED <<sessions, evidence, modules, reconciled, world, failed>>

\* A file is edited or lost to the disk (bound: once, in a run without harm).
Damage ==
    /\ ~harmed /\ harmed' = TRUE
    /\ \/ /\ "evidence" \in Damages
          /\ \E s \in Sessions : /\ evidence[s] # None
                                 /\ evidence' = [evidence EXCEPT ![s] = Unreadable]
          /\ UNCHANGED modules
       \/ /\ "modules" \in Damages /\ modules # None
          /\ modules' = Unreadable
          /\ UNCHANGED evidence
    /\ UNCHANGED <<sessions, reconciled, world, call, failed>>

\* The emulator is started again; a session spans one emulator.
Restart ==
    /\ starts + analyses < MaxChanges
    /\ \A c \in Calls : call[c].at \notin {"captured", "mapped"}
    /\ starts' = starts + 1 /\ layout' \in Layouts
    /\ UNCHANGED <<sessions, evidence, modules, reconciled, placements, analyses, call,
                   failed, harmed>>

\* analyze-workspace: it never touches workspace/runtime.
Reanalyze ==
    /\ starts + analyses < MaxChanges
    /\ analyses' = analyses + 1 /\ placements' \in Analyses
    /\ UNCHANGED <<sessions, evidence, modules, reconciled, layout, starts, call, failed,
                   harmed>>

Step(c) ==
    \/ Captured(c) \/ SaveSession(c) \/ LoadEvidence(c) \/ SaveEvidence(c)
    \/ Discover(c) \/ SaveMap(c)
    \/ Reconcile(c) \/ ReconcileRaises(c) \/ SaveResults(c)
    \/ Stop(c)

Next == (\E c \in Calls : Step(c)) \/ Damage \/ Restart \/ Reanalyze

Spec == Init /\ [][Next]_vars

-----------------------------------------------------------------------------
(* Properties *)

Sound(r, o) ==
    r.target # None => r.target = reconciled.placed[o.place.path].load + o.place.offset

\* An observation that is mapped to an analysis address is mapped to that of
\* the code that ran, if the module map is one of the same emulator: whatever
\* modules the user named, were placed, or are longer in memory than on disk
\* (_find_module, the image_size check of reconcile_observation).
ResolvedToItsPlace ==
    reconciled # None =>
        \A i \in 1 .. Len(reconciled.basis) :
            reconciled.basis[i].start = reconciled.from =>
                Sound(reconciled.results[i], reconciled.basis[i])

\* The same of every observation on record, whenever it was made: what cannot
\* be proven is left unresolved (reconciliation.py:104).
NeverGuessed ==
    reconciled # None =>
        \A i \in 1 .. Len(reconciled.basis) :
            Sound(reconciled.results[i], reconciled.basis[i])

\* runtime_verified takes two observations of one place for which there is a
\* static candidate: neither the same observation twice nor two places.  This
\* is of observations that were all made in the emulator the map is of: those of
\* another one are mapped all the same, as NeverGuessed shows.
VerifiedIsRepeated ==
    reconciled # None =>
        \A i \in 1 .. Len(reconciled.basis) :
            LET o == reconciled.basis[i] IN
            /\ reconciled.results[i].status = "runtime_verified"
            /\ \A j \in 1 .. i : reconciled.basis[j].start = reconciled.from
            => /\ \E j \in 1 .. i - 1 : reconciled.basis[j].place = o.place
               /\ reconciled.results[i].target \in reconciled.candidates[o.place.path]

\* runtime reconcile fails only if an observe call was ended between its two
\* files or a file was damaged, and not because a session is under way: with
\* one call at a time, a session on record has its observations.
FailsOnlyAfterHarm == failed => harmed

\* Observations on record stay there, in order, until their file is damaged:
\* an observe call adds one at the end and takes away none, and no other
\* command touches them (cli.py:529-532).
ObservationsAreKept ==
    [][\A s \in Sessions :
          evidence[s] \notin {None, Unreadable} /\ evidence'[s] # Unreadable
          => IsPrefix(evidence[s], evidence'[s])]_vars
=============================================================================
