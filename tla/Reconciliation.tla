---------------------------- MODULE Reconciliation ----------------------------
(***************************************************************************)
(* runtime/modules.py, runtime/reconciliation.py: which module a runtime   *)
(* address belongs to, the analysis address it stands for, and what the    *)
(* observations of one workspace say together.  Definitions only.          *)
(***************************************************************************)
EXTENDS Integers, Sequences, FiniteSets, SequencesExt

CONSTANTS
    Paths,        \* module paths of the workspace
    PathOrder,    \* their sorted order, a sequence
    None

ASSUME PathsAssumption ==
    /\ None \notin Paths /\ None \notin Int
    /\ PathOrder \in Seq(Paths) /\ {PathOrder[i] : i \in 1 .. Len(PathOrder)} = Paths

Statuses == {"unresolved", "runtime_observed", "corroborated", "runtime_verified",
             "conflicting"}

Module == [path: Paths \cup {None}, base: Nat, size: Nat \cup {None}]

\* module_placements.json, per path that was placed.
Placement == [load: Nat, size: Nat]

-----------------------------------------------------------------------------
(* The module map *)

\* UserProvidedModuleSource.discover: sized where the path has been placed.
UserProvided(mapping, placements) ==
    FlattenSeq([i \in 1 .. Len(PathOrder) |->
        IF PathOrder[i] \notin DOMAIN mapping THEN <<>>
        ELSE <<[path |-> PathOrder[i], base |-> mapping[PathOrder[i]],
                size |-> IF PathOrder[i] \in DOMAIN placements
                         THEN placements[PathOrder[i]].size ELSE None]>>])

\* build_runtime_module_map: the first source with an answer, never merged.
ModuleMap(reported, mapping, placements) ==
    IF reported # <<>> THEN reported ELSE UserProvided(mapping, placements)

-----------------------------------------------------------------------------
(* The module of an address *)

Bounds(m, a) == m.size # None /\ m.base <= a /\ a < m.base + m.size
Reaches(m, a) == m.size = None /\ m.base <= a

Bounding(a, ms) == {i \in 1 .. Len(ms) : Bounds(ms[i], a)}
Reaching(a, ms) == {i \in 1 .. Len(ms) : Reaches(ms[i], a)}
Earliest(ms, found) == ms[CHOOSE i \in found : \A j \in found : i <= j]

\* Mutant of FindModule: only the end of a module is looked at.
FindBelow(a, ms) ==
    LET below == {i \in 1 .. Len(ms) : ms[i].size # None /\ a < ms[i].base + ms[i].size} IN
    IF below = {} THEN None ELSE Earliest(ms, below)

\* _find_module: a module of known size comes before one without.
FindModule(a, ms) ==
    CASE Bounding(a, ms) # {} -> Earliest(ms, Bounding(a, ms))
      [] Bounding(a, ms) = {} /\ Reaching(a, ms) # {} -> Earliest(ms, Reaching(a, ms))
      [] OTHER -> None

-----------------------------------------------------------------------------
(* One observation *)

Result(status, m, offset, target) ==
    [status |-> status, path |-> IF m = None THEN None ELSE m.path,
     offset |-> offset, target |-> target, count |-> 1]

\* Mutant of Reconciled: the static image size is not looked at.
ReconciledUnbounded(a, ms, placements, candidates) ==
    LET m == FindModule(a, ms)
        address == placements[m.path].load + a - m.base
    IN  CASE m = None -> Result("unresolved", None, None, None)
          [] m # None /\ m.path \notin DOMAIN placements ->
                Result("runtime_observed", m, a - m.base, None)
          [] OTHER -> Result(IF address \in candidates[m.path] THEN "corroborated"
                             ELSE "runtime_observed", m, a - m.base, address)

\* reconcile_observation.
Reconciled(a, ms, placements, candidates) ==
    LET m == FindModule(a, ms)
        offset == a - m.base
        place == placements[m.path]
        address == place.load + offset
    IN  CASE m = None -> Result("unresolved", None, None, None)
          [] m # None /\ m.path \notin DOMAIN placements ->
                Result("runtime_observed", m, offset, None)
          [] OTHER ->
                CASE offset >= place.size -> Result("conflicting", m, offset, None)
                  [] offset < place.size /\ address \notin candidates[m.path] ->
                        Result("runtime_observed", m, offset, address)
                  [] OTHER -> Result("corroborated", m, offset, address)

-----------------------------------------------------------------------------
(* All observations of a workspace *)

\* How often its call site has had this target, up to observation i.
Nth(i, addresses, results) ==
    Cardinality({j \in 1 .. i : /\ addresses[j] = addresses[i]
                                /\ results[j].target = results[i].target})

Targets(a, addresses, results) ==
    {results[j].target : j \in {k \in 1 .. Len(addresses) : addresses[k] = a}} \ {None}

\* Mutant of ReconcileAll: what agrees with any observation is verified.
VerifyAll(addresses, ms, placements, candidates) ==
    [i \in 1 .. Len(addresses) |->
        LET r == Reconciled(addresses[i], ms, placements, candidates) IN
        [r EXCEPT !.status = IF @ = "corroborated" /\ Len(addresses) > 1
                             THEN "runtime_verified" ELSE @]]

\* reconcile_workspace, with the address itself as the key of the call site.
ReconcileAll(addresses, ms, placements, candidates) ==
    LET single == [i \in 1 .. Len(addresses) |->
                      Reconciled(addresses[i], ms, placements, candidates)]
        status(i) ==
            CASE Cardinality(Targets(addresses[i], addresses, single)) > 1
                 /\ single[i].status # "unresolved" -> "conflicting"
              [] Cardinality(Targets(addresses[i], addresses, single)) <= 1
                 /\ single[i].status = "corroborated"
                 /\ Nth(i, addresses, single) > 1 -> "runtime_verified"
              [] OTHER -> single[i].status
    IN  [i \in 1 .. Len(addresses) |->
            [single[i] EXCEPT !.status = status(i), !.count = Nth(i, addresses, single)]]

=============================================================================
