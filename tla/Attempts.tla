------------------------------ MODULE Attempts ------------------------------
(***************************************************************************)
(* Decompilation attempts and the order between them (model.py,            *)
(* decompile/orchestrator.py): what an attempt is identified by, which of  *)
(* a history ranks best, and the status a function gets from it.           *)
(***************************************************************************)
EXTENDS Integers, Sequences

CONSTANTS
    Functions,   \* the functions of the analysed modules
    Listings,    \* assembly texts a function may have
    Toolsets,    \* m2c command and version, target, toolchain identity
    Drafts,      \* C sources m2c may generate
    Scores,      \* asm-differ's verdicts: [exact, percent, rows]
    Digest,      \* compute_attempt_id: the hash of what an attempt depends on
    None         \* a value the program has not set

\* The payload of compute_attempt_id.  Context files that cannot be read leave
\* an attempt with no assembly and no context.
Inputs == [function: Functions, listing: Listings \cup {"unavailable"},
           contexts: {"none", "given"}, tools: Toolsets]

ASSUME DigestAssumption ==
    /\ Digest \in [Inputs -> Nat]
    /\ \A i, j \in Inputs : Digest[i] = Digest[j] => i = j
ASSUME ScoresAssumption ==
    /\ Scores \subseteq [exact: BOOLEAN, percent: 0 .. 100, rows: Nat]
    /\ \A s \in Scores : s.exact => s.percent = 100
ASSUME UnsetAssumption ==
    /\ "unavailable" \notin Listings /\ None # "unavailable"
    /\ None \notin Drafts \cup Functions \cup Inputs /\ None \notin Int

Outcomes == {"decompilation_failed", "build_failed", "match_failed", "matched"}

\* rows: changed, added and removed rows of the diff together.
Attempt == [inputs: Inputs, outcome: Outcomes, draft: Drafts \cup {None},
            exact: BOOLEAN, percent: (0 .. 100) \cup {None}, rows: Nat]

ASSUME AttemptAssumption == None \notin Attempt

Failed(inputs, outcome, draft) ==
    [inputs |-> inputs, outcome |-> outcome, draft |-> draft, exact |-> FALSE,
     percent |-> None, rows |-> 0]

Matched(inputs, draft, score) ==
    [inputs |-> inputs, outcome |-> "matched", draft |-> draft, exact |-> score.exact,
     percent |-> score.percent, rows |-> score.rows]

Rank(a) == << IF a.exact THEN 0 ELSE 1,
              IF a.percent = None THEN 1 ELSE -a.percent,
              a.rows,
              Digest[a.inputs] >>

Precedes(r, q) == \E i \in 1 .. 4 : r[i] < q[i] /\ \A j \in 1 .. i - 1 : r[j] = q[j]

\* select_best_attempt: the first of those no other precedes.
IsBest(history, i) ==
    \A j \in DOMAIN history :
        /\ ~Precedes(Rank(history[j]), Rank(history[i]))
        /\ Rank(history[j]) = Rank(history[i]) => i <= j

Best(history) ==
    IF history = <<>> THEN None
    ELSE history[CHOOSE i \in DOMAIN history : IsBest(history, i)]

\* Mutant of StatusOf: the rounded similarity decides, not the raw score.
StatusByPercent(best) ==
    CASE best = None -> "blocked"
      [] best # None /\ best.percent = 100 -> "matched_exact"
      [] best # None /\ best.percent # 100 /\ best.percent # None -> "matched_partial"
      [] best # None /\ best.percent = None /\ best.draft # None -> "build_failed"
      [] OTHER -> "blocked"

StatusOf(best) ==
    CASE best = None -> "blocked"
      [] best # None /\ best.exact -> "matched_exact"
      [] best # None /\ ~best.exact /\ best.percent # None -> "matched_partial"
      [] best # None /\ best.percent = None /\ best.draft # None -> "build_failed"
      [] OTHER -> "blocked"

=============================================================================
