------------------------ MODULE RuntimeEvidenceProofs ------------------------
(***************************************************************************)
(* Proofs about runtime evidence: an observation that is mapped is mapped  *)
(* to the code that ran, what is verified was seen twice, observations on  *)
(* record stay there, and reconcile fails only after harm.                 *)
(***************************************************************************)
EXTENDS RuntimeEvidence, FiniteSetTheorems, SequenceTheorems, WellFoundedInduction, TLAPS

-----------------------------------------------------------------------------
(* Sequences of sequences *)

LEMMA NatMin ==
    ASSUME NEW T, T \subseteq Nat, T # {}
    PROVE  \E x \in T : \A y \in T : x <= y
  <1> DEFINE Less == {ss \in Nat \X Nat : ss[1] < ss[2]}
  <1>1. IsWellFoundedOn(Less, Nat)
    BY NatLessThanWellFounded DEF OpToRel
  <1>2. \E x \in T : \A y \in T : ~ (<<y, x>> \in Less)
    <2> HIDE DEF Less
    <2> QED BY <1>1, WFMin
  <1>3. PICK x \in T : \A y \in T : ~ (<<y, x>> \in Less)
    BY <1>2
  <1>4. \A y \in T : x <= y
    <2> SUFFICES ASSUME NEW y \in T, y < x PROVE FALSE
      OBVIOUS
    <2>1. <<y, x>> \in Less
      OBVIOUS
    <2>2. QED
      BY <2>1, <1>3
  <1>5. QED
    BY <1>4

\* Induction over the numbers, of a set rather than of a predicate.
LEMMA SetInduction ==
    ASSUME NEW G, 0 \in G, \A n \in Nat : n \in G => n + 1 \in G
    PROVE  Nat \subseteq G
  <1> SUFFICES ASSUME Nat \ G # {} PROVE FALSE
    OBVIOUS
  <1>1. PICK x \in Nat \ G : \A y \in Nat \ G : x <= y
    BY NatMin
  <1>2. x - 1 \in Nat /\ (x - 1) + 1 = x
    BY <1>1
  <1>3. x - 1 \in G
    BY <1>1, <1>2
  <1>4. QED
    BY <1>1, <1>2, <1>3

\* Sequences of elements of S make, one after the other, a sequence of those.
LEMMA FlattenTyped ==
    ASSUME NEW S, NEW ss \in Seq(Seq(S))
    PROVE  FlattenSeq(ss) \in Seq(S)
  <1> DEFINE Body(f, i) == IF i = 1 THEN ss[i] ELSE f[i - 1] \o ss[i]
             flatten == CHOOSE f : f = [i \in 1 .. Len(ss) |-> Body(f, i)]
             Begins(n, f) == \A i \in 1 .. n : f[i] = Body(f, i)
             Started == {n \in Nat : n <= Len(ss) => \E f \in [1 .. n -> Seq(S)] : Begins(n, f)}
             Typed == {n \in Nat : n \in 1 .. Len(ss) => flatten[n] \in Seq(S)}
  <1>1. Len(ss) \in Nat /\ \A i \in 1 .. Len(ss) : ss[i] \in Seq(S)
    OBVIOUS
  <1>2. FlattenSeq(ss) = IF Len(ss) = 0 THEN ss ELSE flatten[Len(ss)]
    BY DEF FlattenSeq
  <1>3. ASSUME NEW n \in Nat, n + 1 <= Len(ss), NEW f, n = 0 \/ f[n] \in Seq(S)
        PROVE  Body(f, n + 1) \in Seq(S)
    <2>1. ss[n + 1] \in Seq(S)
      BY <1>1, <1>3
    <2>2. CASE n = 0
      BY <2>1, <2>2
    <2>3. CASE n # 0
      <3>1. f[n] \o ss[n + 1] \in Seq(S)
        BY <2>1, <2>3, <1>3, ConcatProperties
      <3>2. (n + 1) - 1 = n /\ n + 1 # 1
        BY <2>3
      <3>3. QED
        BY <3>1, <3>2
    <2>4. QED
      BY <2>2, <2>3
  <1>4. \A n \in Nat : n \in Started => n + 1 \in Started
    <2> SUFFICES ASSUME NEW n \in Nat, n + 1 <= Len(ss),
                        NEW f \in [1 .. n -> Seq(S)], Begins(n, f)
                 PROVE  \E g \in [1 .. n + 1 -> Seq(S)] : Begins(n + 1, g)
      <3> HIDE DEF Begins
      <3> QED
        BY <1>1
    <2> DEFINE last == Body(f, n + 1)
               g == [i \in 1 .. n + 1 |-> IF i = n + 1 THEN last ELSE f[i]]
    <2>1. last \in Seq(S)
      <3>1. n = 0 \/ f[n] \in Seq(S)
        OBVIOUS
      <3>2. QED
        BY <3>1, <1>3
    <2>2. \A i \in 1 .. n + 1 : g[i] = IF i = n + 1 THEN last ELSE f[i]
      <3> HIDE DEF last
      <3> QED OBVIOUS
    <2>3. g \in [1 .. n + 1 -> Seq(S)]
      <3> HIDE DEF last
      <3> QED BY <2>1
    <2>4. ASSUME NEW i \in 1 .. n + 1
          PROVE  g[i] = Body(g, i)
      <3>1. g[i] = Body(f, i)
        <4>1. CASE i = n + 1
          <5> HIDE DEF g, Body
          <5> QED BY <2>2, <4>1
        <4>2. CASE i # n + 1
          <5>1. i \in 1 .. n
            BY <4>2
          <5>2. QED
            <6> HIDE DEF g, Body
            <6> QED BY <2>2, <4>2, <5>1
        <4>3. QED
          BY <4>1, <4>2
      <3>2. i # 1 => i - 1 \in 1 .. n + 1 /\ i - 1 # n + 1
        OBVIOUS
      <3>3. i # 1 => g[i - 1] = f[i - 1]
        <4> HIDE DEF g
        <4> QED BY <2>2, <3>2
      <3>4. QED
        <4> HIDE DEF g
        <4> QED BY <3>1, <3>3
    <2>5. Begins(n + 1, g)
      <3> HIDE DEF g
      <3> QED BY <2>4
    <2>6. QED
      <3> HIDE DEF g, Begins
      <3> QED BY <2>3, <2>5
  <1>5. 0 \in Started
    <2>1. 1 .. 0 = {}
      OBVIOUS
    <2>2. [i \in 1 .. 0 |-> <<>>] \in [1 .. 0 -> Seq(S)]
      BY <2>1, <<>> \in Seq(S), Zenon
    <2>3. \A f : Begins(0, f)
      BY <2>1
    <2>4. QED
      <3> HIDE DEF Begins
      <3> QED BY <2>2, <2>3
  <1>6. \E f : f = [i \in 1 .. Len(ss) |-> Body(f, i)]
    <2>1. Len(ss) \in Started
      <3> HIDE DEF Started
      <3> QED
        BY <1>1, <1>4, <1>5, SetInduction
    <2>2. PICK f \in [1 .. Len(ss) -> Seq(S)] : Begins(Len(ss), f)
      <3> HIDE DEF Begins
      <3> QED
        BY <2>1, <1>1
    <2>3. f = [i \in 1 .. Len(ss) |-> Body(f, i)]
      BY <2>2
    <2>4. QED
      BY <2>3
  <1>7. flatten = [i \in 1 .. Len(ss) |-> Body(flatten, i)]
    BY <1>6, Zenon
  <1> HIDE DEF flatten
  <1>8. ASSUME NEW n \in Nat, n \in Typed
        PROVE  n + 1 \in Typed
    <2> SUFFICES ASSUME n + 1 \in 1 .. Len(ss)
                 PROVE  flatten[n + 1] \in Seq(S)
      OBVIOUS
    <2>1. flatten[n + 1] = Body(flatten, n + 1)
      <3> HIDE DEF Body
      <3> QED BY <1>7
    <2>2. n = 0 \/ flatten[n] \in Seq(S)
      BY <1>8, <1>1
    <2>3. n + 1 <= Len(ss)
      BY <1>1
    <2>4. Body(flatten, n + 1) \in Seq(S)
      <3> HIDE DEF Body
      <3> QED BY <1>3, <2>2, <2>3
    <2>5. QED
      <3> HIDE DEF Body
      <3> QED BY <2>1, <2>4
  <1>9. 0 \in Typed
    OBVIOUS
  <1>10. Len(ss) \in Typed
    <2> HIDE DEF Typed
    <2> QED
      BY <1>1, <1>8, <1>9, SetInduction
  <1>11. CASE Len(ss) = 0
    <2>1. ss = <<>>
      BY <1>11
    <2>2. QED
      BY <1>2, <1>11, <2>1
  <1>12. CASE Len(ss) # 0
    BY <1>2, <1>10, <1>12, <1>1
  <1>13. QED
    BY <1>11, <1>12

-----------------------------------------------------------------------------
(* The inductive invariants *)

\* A call has what its place needs.
Supplied(c, k) ==
    /\ k.at \in {"captured", "session", "evidence"} =>
          k.observation \in Observation /\ k.id \in IdsOf[c]
    /\ k.at = "mapped" => k.map \in Map
    /\ k.at = "results" => k.record \in Record

TypeInv == TypeOK /\ \A c \in Calls : Supplied(c, call[c])

\* An observation has the address of its place under the layouts L of all
\* emulators, and a module map the bases of its emulator.
SeenIn(L, o) ==
    /\ o.start <= starts
    /\ o.address = L[o.start][o.place.path] + o.place.offset

AgreesWith(l, m) ==
    m.path # None => /\ m.base = l[m.path]
                     /\ m.size = None \/ m.size <= Extent[m.path]

MapIn(L, map) ==
    /\ map.start <= starts
    /\ \A i \in 1 .. Len(map.list) : AgreesWith(L[map.start], map.list[i])

CallIn(L, k) ==
    /\ k.at \in {"captured", "session", "evidence"} => SeenIn(L, k.observation)
    /\ \A i \in 1 .. Len(k.existing) : SeenIn(L, k.existing[i])
    /\ k.at = "mapped" => MapIn(L, k.map)

\* What is on file and under way was seen under some layouts of the emulators.
History(L) ==
    /\ L[starts] = layout
    /\ \A s \in Sessions : evidence[s] \notin {None, Unreadable} =>
          \A i \in 1 .. Len(evidence[s]) : SeenIn(L, evidence[s][i])
    /\ modules \notin {None, Unreadable} => MapIn(L, modules)
    /\ \A c \in Calls : CallIn(L, call[c])

Remembered == \E L \in [0 .. MaxChanges -> Layouts] : History(L)

\* The two properties of a record, wherever it is held.
Resolved(r) ==
    \A i \in 1 .. Len(r.basis) :
        r.basis[i].start = r.from /\ r.results[i].target # None =>
            r.results[i].target = r.placed[r.basis[i].place.path].load
                                  + r.basis[i].place.offset

Repeated(r) ==
    \A i \in 1 .. Len(r.basis) :
        /\ r.results[i].status = "runtime_verified"
        /\ \A j \in 1 .. i : r.basis[j].start = r.from
        => /\ \E j \in 1 .. i - 1 : r.basis[j].place = r.basis[i].place
           /\ r.results[i].target \in r.candidates[r.basis[i].place.path]

Right(r) == Resolved(r) /\ Repeated(r)

RecordsRight ==
    /\ reconciled # None => Right(reconciled)
    /\ \A c \in Calls : call[c].at = "results" => Right(call[c].record)

ResolveInv == Remembered /\ RecordsRight

\* While nothing has been harmed, every file can be read, and a session
\* without observations is that of a call about to save them.
Unharmed ==
    ~ harmed =>
        /\ modules # Unreadable
        /\ \A s \in Sessions : evidence[s] # Unreadable
        /\ \A s \in sessions : evidence[s] = None =>
              \E c \in Calls : call[c].at \in {"session", "evidence"} /\ call[c].id = s

HarmInv == Unharmed /\ FailsOnlyAfterHarm

\* One process is never given the id of another.
OwnSessions == \A c, d \in Calls : c # d => IdsOf[c] \cap IdsOf[d] = {}

\* A call about to save has read the observations that are still there.
UpToDate ==
    \A c \in Calls : /\ call[c].at = "evidence"
                     /\ evidence[call[c].id] \notin {None, Unreadable}
                     => call[c].existing = evidence[call[c].id]

-----------------------------------------------------------------------------
(* Finding a module, and reconciling *)

LEMMA EarliestIsOne ==
    ASSUME NEW ms \in Seq(Module), NEW found, found \subseteq 1 .. Len(ms), found # {}
    PROVE  \E i \in found : Earliest(ms, found) = ms[i]
  <1>1. \E i \in found : \A j \in found : i <= j
    <2>1. found \subseteq Nat
      OBVIOUS
    <2>2. QED
      BY <2>1, NatMin
  <1>2. QED
    BY <1>1 DEF Earliest

LEMMA FoundReaches ==
    ASSUME NEW ms \in Seq(Module), NEW a \in Nat, FindModule(a, ms) # None
    PROVE  \E i \in 1 .. Len(ms) : FindModule(a, ms) = ms[i] /\ ms[i].base <= a
  <1>1. CASE Bounding(a, ms) # {}
    <2>1. Bounding(a, ms) \subseteq 1 .. Len(ms)
      BY DEF Bounding
    <2>2. PICK i \in Bounding(a, ms) : Earliest(ms, Bounding(a, ms)) = ms[i]
      BY <1>1, <2>1, EarliestIsOne
    <2>3. FindModule(a, ms) = ms[i]
      BY <1>1, <2>2 DEF FindModule
    <2>4. QED
      BY <2>2, <2>3 DEF Bounding, Bounds
  <1>2. CASE Bounding(a, ms) = {} /\ Reaching(a, ms) # {}
    <2>1. Reaching(a, ms) \subseteq 1 .. Len(ms)
      BY DEF Reaching
    <2>2. PICK i \in Reaching(a, ms) : Earliest(ms, Reaching(a, ms)) = ms[i]
      BY <1>2, <2>1, EarliestIsOne
    <2>3. FindModule(a, ms) = ms[i]
      BY <1>2, <2>2 DEF FindModule
    <2>4. QED
      BY <2>2, <2>3 DEF Reaching, Reaches
  <1>3. CASE Bounding(a, ms) = {} /\ Reaching(a, ms) = {}
    BY <1>3 DEF FindModule
  <1>4. QED
    BY <1>1, <1>2, <1>3

\* What the results of one observation may be.
Single == [status : {"unresolved", "runtime_observed", "corroborated", "conflicting"},
           path : Paths \cup {None}, offset : Nat \cup {None}, target : Nat \cup {None},
           count : {1}]

\* A target lies in the static image of a module of the map that begins at
\* or before the address, and has a candidate if it is corroborated.
Stands(r, a, ms, pl, candidates) ==
    \E i \in 1 .. Len(ms) :
        /\ ms[i].path \in DOMAIN pl /\ ms[i].base <= a
        /\ a - ms[i].base < pl[ms[i].path].size
        /\ r.target = pl[ms[i].path].load + (a - ms[i].base)
        /\ r.status = "corroborated" => r.target \in candidates[ms[i].path]

LEMMA ReconciledRight ==
    ASSUME NEW a \in Nat, NEW ms \in Seq(Module), NEW pl \in Analyses,
           NEW candidates \in Candidates,
           NEW r, r = Reconciled(a, ms, pl, candidates)
    PROVE  /\ r \in Single
           /\ r.target # None => Stands(r, a, ms, pl, candidates)
           /\ r.status = "corroborated" => r.target # None
  <1> DEFINE m == FindModule(a, ms)
  <1>1. CASE m = None
    <2>1. r = [status |-> "unresolved", path |-> None, offset |-> None, target |-> None,
               count |-> 1]
      BY <1>1 DEF Reconciled, Result
    <2>2. QED
      BY <2>1 DEF Single
  <1>2. CASE m # None
    <2>1. PICK i \in 1 .. Len(ms) : m = ms[i] /\ ms[i].base <= a
      BY <1>2, FoundReaches
    <2>2. m \in Module
      BY <2>1
    <2> DEFINE offset == a - m.base
    <2>3. offset \in Nat /\ m.path \in Paths \cup {None}
      BY <2>1, <2>2 DEF Module
    <2> HIDE DEF m
    <2>4. CASE m.path \notin DOMAIN pl
      <3>1. r = [status |-> "runtime_observed", path |-> m.path, offset |-> offset,
                 target |-> None, count |-> 1]
        BY <1>2, <2>4 DEF Reconciled, Result, m
      <3>2. QED
        <4> HIDE DEF offset
        <4> QED BY <3>1, <2>3 DEF Single
    <2>5. CASE m.path \in DOMAIN pl
      <3> DEFINE address == pl[m.path].load + offset
      <3>1. pl[m.path] \in Placement
        BY <2>5, AnalysesAssumption
      <3>2. pl[m.path].load \in Nat /\ pl[m.path].size \in Nat
        BY <3>1 DEF Placement
      <3>3. address \in Nat /\ address # None
        <4>1. address \in Nat
          BY <2>3, <3>2
        <4>2. None \notin Nat
          BY PathsAssumption
        <4>3. QED
          BY <4>1, <4>2
      <3>4. CASE offset >= pl[m.path].size
        <4>1. ~ (offset < pl[m.path].size)
          BY <3>4, <3>2, <2>3
        <4>2. r = [status |-> "conflicting", path |-> m.path, offset |-> offset,
                   target |-> None, count |-> 1]
          BY <1>2, <2>5, <3>4, <4>1 DEF Reconciled, Result, m
        <4>3. QED
          <5> HIDE DEF offset
          <5> QED BY <4>2, <2>3 DEF Single
      <3>5. CASE offset < pl[m.path].size /\ address \notin candidates[m.path]
        <4>1. ~ (offset >= pl[m.path].size)
          BY <3>5, <3>2, <2>3
        <4>2. r = [status |-> "runtime_observed", path |-> m.path, offset |-> offset,
                   target |-> address, count |-> 1]
          BY <1>2, <2>5, <3>5, <4>1 DEF Reconciled, Result, m
        <4>3. r.target = address /\ r.status # "corroborated"
          <5> HIDE DEF offset, address
          <5> QED BY <4>2
        <4>4. Stands(r, a, ms, pl, candidates)
          BY <2>1, <2>5, <3>5, <4>3 DEF Stands
        <4>5. r \in Single
          <5> HIDE DEF offset, address
          <5> QED BY <4>2, <2>3, <3>3 DEF Single
        <4>6. QED
          BY <4>3, <4>4, <4>5
      <3>6. CASE offset < pl[m.path].size /\ address \in candidates[m.path]
        <4>1. ~ (offset >= pl[m.path].size)
          BY <3>6, <3>2, <2>3
        <4>2. r = [status |-> "corroborated", path |-> m.path, offset |-> offset,
                   target |-> address, count |-> 1]
          BY <1>2, <2>5, <3>6, <4>1 DEF Reconciled, Result, m
        <4>3. r.target = address
          <5> HIDE DEF offset, address
          <5> QED BY <4>2
        <4>4. Stands(r, a, ms, pl, candidates)
          BY <2>1, <2>5, <3>6, <4>3 DEF Stands
        <4>5. r \in Single
          <5> HIDE DEF offset, address
          <5> QED BY <4>2, <2>3, <3>3 DEF Single
        <4>6. QED
          <5> HIDE DEF address
          <5> QED BY <4>3, <4>4, <4>5, <3>3
      <3>7. QED
        BY <3>4, <3>5, <3>6, <3>2, <2>3
    <2>6. QED
      BY <2>4, <2>5
  <1>3. QED
    BY <1>1, <1>2

\* The results on file.
Outcome == [status : Statuses, path : Paths \cup {None}, offset : Nat \cup {None},
            target : Nat \cup {None}, count : Nat \ {0}]

\* An observation counts itself, and is counted twice only if an earlier one
\* has its address.
LEMMA CountedTwice ==
    ASSUME NEW addresses, NEW results, NEW i \in Nat \ {0}
    PROVE  /\ Nth(i, addresses, results) \in Nat \ {0}
           /\ Nth(i, addresses, results) > 1 =>
                  \E j \in 1 .. i - 1 : addresses[j] = addresses[i]
  <1> DEFINE alike == {j \in 1 .. i : /\ addresses[j] = addresses[i]
                                      /\ results[j].target = results[i].target}
  <1>1. IsFiniteSet(alike)
    <2>1. IsFiniteSet(1 .. i)
      BY FS_Interval
    <2>2. alike \subseteq 1 .. i
      OBVIOUS
    <2>3. QED
      <3> HIDE DEF alike
      <3> QED BY <2>1, <2>2, FS_Subset
  <1>2. i \in alike
    OBVIOUS
  <1>3. Cardinality(alike) \in Nat
    BY <1>1, FS_CardinalityType
  <1>4. Cardinality(alike) # 0
    <2> HIDE DEF alike
    <2> QED BY <1>1, <1>2, FS_EmptySet
  <1>5. ASSUME \A j \in 1 .. i - 1 : addresses[j] # addresses[i]
        PROVE  Cardinality(alike) = 1
    <2>1. alike = {i}
      <3>1. ASSUME NEW j \in alike PROVE j = i
        <4>1. j \in 1 .. i /\ addresses[j] = addresses[i]
          OBVIOUS
        <4>2. QED
          BY <4>1, <1>5
      <3>2. QED
        <4> HIDE DEF alike
        <4> QED BY <1>2, <3>1
    <2>2. QED
      <3> HIDE DEF alike
      <3> QED BY <2>1, FS_Singleton
  <1>6. Nth(i, addresses, results) = Cardinality(alike)
    BY DEF Nth
  <1>7. QED
    <2> HIDE DEF alike
    <2> QED BY <1>3, <1>4, <1>5, <1>6

Settled(r, status, count) == [r EXCEPT !.status = status, !.count = count]

LEMMA SettledIsOutcome ==
    ASSUME NEW r \in Single, NEW status \in Statuses, NEW count \in Nat \ {0}
    PROVE  /\ Settled(r, status, count) \in Outcome
           /\ Settled(r, status, count).target = r.target
           /\ Settled(r, status, count).status = status
  BY DEF Single, Outcome, Settled

LEMMA AllReconciled ==
    ASSUME NEW addresses \in Seq(Nat), NEW ms \in Seq(Module), NEW pl \in Analyses,
           NEW candidates \in Candidates,
           NEW rs, rs = ReconcileAll(addresses, ms, pl, candidates)
    PROVE  /\ rs \in Seq(Outcome)
           /\ \A i \in 1 .. Len(addresses) :
                 LET r == Reconciled(addresses[i], ms, pl, candidates) IN
                 /\ rs[i].target = r.target
                 /\ rs[i].status = "runtime_verified" =>
                       /\ r.status = "corroborated"
                       /\ \E j \in 1 .. i - 1 : addresses[j] = addresses[i]
  <1> DEFINE single == [i \in 1 .. Len(addresses) |->
                           Reconciled(addresses[i], ms, pl, candidates)]
             status(i) ==
                 CASE Cardinality(Targets(addresses[i], addresses, single)) > 1
                      /\ single[i].status # "unresolved" -> "conflicting"
                   [] Cardinality(Targets(addresses[i], addresses, single)) <= 1
                      /\ single[i].status = "corroborated"
                      /\ Nth(i, addresses, single) > 1 -> "runtime_verified"
                   [] OTHER -> single[i].status
  <1>1. rs = [i \in 1 .. Len(addresses) |->
                 Settled(single[i], status(i), Nth(i, addresses, single))]
    BY DEF ReconcileAll, Settled
  <1>2. ASSUME NEW i \in 1 .. Len(addresses)
        PROVE  single[i] = Reconciled(addresses[i], ms, pl, candidates)
               /\ single[i] \in Single
    BY ReconciledRight
  <1> HIDE DEF single
  <1>3. ASSUME NEW i \in 1 .. Len(addresses)
        PROVE  /\ status(i) \in Statuses
               /\ status(i) = "runtime_verified" =>
                     single[i].status = "corroborated" /\ Nth(i, addresses, single) > 1
    <2>1. single[i].status \in {"unresolved", "runtime_observed", "corroborated",
                                "conflicting"}
      BY <1>2 DEF Single
    <2>2. \/ status(i) = "conflicting"
          \/ /\ status(i) = "runtime_verified"
             /\ single[i].status = "corroborated" /\ Nth(i, addresses, single) > 1
          \/ status(i) = single[i].status
      OBVIOUS
    <2>3. QED
      <3> HIDE DEF status
      <3> QED BY <2>1, <2>2 DEF Statuses
  <1> HIDE DEF status
  <1>4. ASSUME NEW i \in 1 .. Len(addresses)
        PROVE  /\ Nth(i, addresses, single) \in Nat \ {0}
               /\ Nth(i, addresses, single) > 1 =>
                     \E j \in 1 .. i - 1 : addresses[j] = addresses[i]
    <2>1. i \in Nat \ {0}
      OBVIOUS
    <2>2. QED
      BY <2>1, CountedTwice
  <1>5. ASSUME NEW i \in 1 .. Len(addresses)
        PROVE  rs[i] = Settled(single[i], status(i), Nth(i, addresses, single))
    BY <1>1
  <1>6. ASSUME NEW i \in 1 .. Len(addresses)
        PROVE  /\ rs[i] \in Outcome
               /\ rs[i].target = single[i].target
               /\ rs[i].status = status(i)
    <2>1. single[i] \in Single /\ status(i) \in Statuses /\ Nth(i, addresses, single) \in Nat \ {0}
      BY <1>2, <1>3, <1>4
    <2>2. QED
      BY <2>1, <1>5, SettledIsOutcome
  <1>7. rs \in Seq(Outcome)
    <2>1. rs = [i \in 1 .. Len(addresses) |-> rs[i]]
      BY <1>1
    <2>2. Len(addresses) \in Nat
      OBVIOUS
    <2>3. \A i \in 1 .. Len(addresses) : rs[i] \in Outcome
      BY <1>6
    <2>4. rs \in [1 .. Len(addresses) -> Outcome]
      BY <2>1, <2>3, Zenon
    <2>5. QED
      BY <2>2, <2>4
  <1>8. ASSUME NEW i \in 1 .. Len(addresses)
        PROVE  LET r == Reconciled(addresses[i], ms, pl, candidates) IN
               /\ rs[i].target = r.target
               /\ rs[i].status = "runtime_verified" =>
                     /\ r.status = "corroborated"
                     /\ \E j \in 1 .. i - 1 : addresses[j] = addresses[i]
    <2>1. rs[i].target = single[i].target /\ rs[i].status = status(i)
      BY <1>6
    <2>2. single[i] = Reconciled(addresses[i], ms, pl, candidates)
      BY <1>2
    <2>3. rs[i].status = "runtime_verified" =>
              single[i].status = "corroborated" /\ Nth(i, addresses, single) > 1
      BY <2>1, <1>3
    <2>4. Nth(i, addresses, single) > 1 => \E j \in 1 .. i - 1 : addresses[j] = addresses[i]
      BY <1>4
    <2>5. QED
      BY <2>1, <2>2, <2>3, <2>4
  <1>9. QED
    BY <1>7, <1>8

-----------------------------------------------------------------------------
(* Types *)

\* The maps of an emulator with the layout l.
MapsOf(l) == {m \in Module : AgreesWith(l, m)}

LEMMA MapDiscovered ==
    ASSUME TypeOK, NEW reported \in Reports, NEW given \in Given,
           NEW list, list = ModuleMap(reported, [p \in given |-> layout[p]], placements)
    PROVE  list \in Seq(MapsOf(layout))
  <1> DEFINE M == MapsOf(layout)
             mapping == [p \in given |-> layout[p]]
             n == Len(PathOrder)
  <1>1. n \in Nat /\ \A i \in 1 .. n : PathOrder[i] \in Paths
    BY PathsAssumption
  <1>2. \A p \in Paths : layout[p] \in Nat /\ Extent[p] \in Nat
    BY PlacesAssumption DEF TypeOK
  <1>3. reported \in Seq(M)
    <2>1. CASE reported = <<>>
      BY <2>1
    <2>2. CASE reported # <<>>
      <3>1. PICK sized \in BOOLEAN :
                reported = [i \in 1 .. n |->
                    [path |-> None, base |-> layout[PathOrder[i]],
                     size |-> IF sized THEN Extent[PathOrder[i]] ELSE None]]
        BY <2>2 DEF Reports
      <3>2. ASSUME NEW i \in 1 .. n
            PROVE  reported[i] \in M
        <4>1. reported[i].path = None /\ reported[i] \in Module
          BY <1>1, <1>2, <3>1 DEF Module
        <4>2. QED
          BY <4>1 DEF MapsOf, AgreesWith
      <3>3. reported \in [1 .. n -> M]
        <4> HIDE DEF n, M
        <4> QED BY <3>1, <3>2
      <3>4. QED
        <4> HIDE DEF M
        <4> QED BY <1>1, <3>3
    <2>3. QED
      BY <2>1, <2>2
  <1>4. UserProvided(mapping, placements) \in Seq(M)
    <2> DEFINE size(p) == IF p \in DOMAIN placements THEN placements[p].size ELSE None
               given1(p) == [path |-> p, base |-> layout[p], size |-> size(p)]
               named == [i \in 1 .. n |-> IF PathOrder[i] \notin given THEN <<>>
                                          ELSE <<given1(PathOrder[i])>>]
    <2>1. ASSUME NEW p \in Paths
          PROVE  given1(p) \in M
      <3>1. size(p) = None \/ (size(p) \in Nat /\ size(p) <= Extent[p])
        <4>1. CASE p \in DOMAIN placements
          <5>1. placements[p] \in Placement /\ placements[p].size <= Extent[p]
            BY <4>1, AnalysesAssumption DEF TypeOK
          <5>2. QED
            BY <4>1, <5>1 DEF Placement
        <4>2. CASE p \notin DOMAIN placements
          BY <4>2
        <4>3. QED
          BY <4>1, <4>2
      <3> HIDE DEF size
      <3>2. given1(p) \in Module
        BY <3>1, <1>2 DEF Module
      <3>3. QED
        BY <3>1, <3>2 DEF MapsOf, AgreesWith
    <2> HIDE DEF given1
    <2>2. ASSUME NEW i \in 1 .. n
          PROVE  named[i] \in Seq(M)
      <3> HIDE DEF M
      <3> QED BY <1>1, <2>1
    <2>3. named \in [1 .. n -> Seq(M)]
      <3>1. DOMAIN named = 1 .. n /\ named = [i \in 1 .. n |-> named[i]]
        OBVIOUS
      <3>2. QED
        <4> HIDE DEF n, M, named
        <4> QED BY <2>2, <3>1
    <2>4. named \in Seq(Seq(M))
      <3> HIDE DEF named, M
      <3> QED BY <1>1, <2>3
    <2>5. FlattenSeq(named) \in Seq(M)
      <3> HIDE DEF named, M
      <3> QED BY <2>4, FlattenTyped
    <2>6. UserProvided(mapping, placements) = FlattenSeq(named)
      <3>1. ASSUME NEW p \in given
            PROVE  mapping[p] = layout[p]
        OBVIOUS
      <3>2. DOMAIN mapping = given
        OBVIOUS
      <3> HIDE DEF mapping
      <3>3. [i \in 1 .. Len(PathOrder) |->
                IF PathOrder[i] \notin DOMAIN mapping THEN <<>>
                ELSE <<[path |-> PathOrder[i], base |-> mapping[PathOrder[i]],
                        size |-> IF PathOrder[i] \in DOMAIN placements
                                 THEN placements[PathOrder[i]].size ELSE None]>>]
            = named
        BY <3>1, <3>2 DEF given1
      <3>4. QED
        BY <3>3, Zenon DEF UserProvided
    <2>7. QED
      BY <2>5, <2>6
  <1>5. list = ModuleMap(reported, mapping, placements)
    OBVIOUS
  <1>6. QED
    <2> HIDE DEF M, mapping
    <2>1. list \in Seq(M)
      BY <1>3, <1>4, <1>5 DEF ModuleMap
    <2>2. QED
      BY <2>1 DEF M

LEMMA GatheredTyped ==
    ASSUME NEW S, \A s \in Sessions : s \in sessions => evidence[s] \in Seq(S)
    PROVE  Gathered \in Seq(S)
  <1> DEFINE n == Len(SessionOrder)
             files == [i \in 1 .. n |-> IF SessionOrder[i] \in sessions
                                        THEN evidence[SessionOrder[i]] ELSE <<>>]
  <1>1. n \in Nat /\ \A i \in 1 .. n : SessionOrder[i] \in Sessions
    BY IdsAssumption
  <1>2. files \in [1 .. n -> Seq(S)]
    <2>1. ASSUME NEW i \in 1 .. n
          PROVE  files[i] \in Seq(S)
      BY <1>1
    <2>2. files = [i \in 1 .. n |-> files[i]]
      OBVIOUS
    <2>3. QED
      <3> HIDE DEF n, files
      <3> QED BY <2>1, <2>2
  <1>3. files \in Seq(Seq(S))
    <2> HIDE DEF files
    <2> QED BY <1>1, <1>2
  <1>4. QED
    <2>1. FlattenSeq(files) \in Seq(S)
      <3> HIDE DEF files
      <3> QED BY <1>3, FlattenTyped
    <2>2. QED
      BY <2>1 DEF Gathered

LEMMA RecordMade ==
    ASSUME NEW seen \in Seq(Observation), NEW map \in Map, NEW pl \in Analyses,
           NEW candidates \in Candidates,
           NEW results, results = ReconcileAll([i \in 1 .. Len(seen) |-> seen[i].address],
                                               map.list, pl, candidates),
           NEW r, r = [results |-> results, basis |-> seen, from |-> map.start,
                       candidates |-> candidates, placed |-> pl]
    PROVE  r \in Record
  <1> DEFINE addresses == [i \in 1 .. Len(seen) |-> seen[i].address]
  <1>1. addresses \in Seq(Nat)
    <2>1. ASSUME NEW i \in 1 .. Len(seen)
          PROVE  seen[i].address \in Nat
      <3>1. seen[i] \in Observation
        OBVIOUS
      <3>2. QED
        BY <3>1 DEF Observation
    <2>2. QED
      BY <2>1
  <1>2. map.list \in Seq(Module) /\ map.start \in 0 .. MaxChanges
    BY DEF Map
  <1>3. results \in Seq(Outcome)
    <2>1. results = ReconcileAll(addresses, map.list, pl, candidates)
      OBVIOUS
    <2>2. QED
      <3> HIDE DEF addresses
      <3> QED BY <1>1, <1>2, <2>1, AllReconciled
  <1>4. QED
    BY <1>2, <1>3 DEF Record, Outcome

LEMMA CallTyped ==
    ASSUME TypeInv, NEW c \in Calls, NEW k \in Call, Supplied(c, k),
           call' = [call EXCEPT ![c] = k]
    PROVE  call' \in [Calls -> Call] /\ \A d \in Calls : Supplied(d, call'[d])
  <1>1. call \in [Calls -> Call] /\ \A d \in Calls : Supplied(d, call[d])
    BY DEF TypeInv, TypeOK
  <1>2. QED
    BY <1>1

LEMMA IdleTyped ==
    /\ Idle \in Call /\ Idle.at = "idle" /\ Idle.existing = <<>>
    /\ \A c \in Calls : Supplied(c, Idle)
  BY DEF Idle, Call, Supplied

\* What a call on its way holds.
LEMMA InCall ==
    ASSUME TypeInv, NEW c \in Calls
    PROVE  /\ call[c] \in Call /\ Supplied(c, call[c]) /\ IdsOf[c] \subseteq Sessions
           /\ call[c].existing \in Seq(Observation)
  BY IdsAssumption DEF TypeInv, TypeOK, Call

LEMMA ObservationMade ==
    ASSUME TypeOK, NEW p \in Places,
           NEW o, o = [address |-> layout[p.path] + p.offset, place |-> p, start |-> starts]
    PROVE  o \in Observation
  <1>1. p.path \in Paths /\ p.offset \in Nat /\ layout \in [Paths -> Nat]
    BY PlacesAssumption DEF TypeOK
  <1>2. layout[p.path] + p.offset \in Nat
    BY <1>1
  <1>3. QED
    BY <1>2 DEF Observation, TypeOK

\* The fields of a call that an action sets.
LEMMA CallFields ==
    ASSUME NEW k \in Call
    PROVE  /\ [k EXCEPT !.at = "session"] \in Call
           /\ \A e \in Seq(Observation) :
                 [k EXCEPT !.at = "evidence", !.existing = e] \in Call
           /\ \A s \in Sessions, o \in Observation :
                 [k EXCEPT !.at = "captured", !.id = s, !.observation = o] \in Call
           /\ \A m \in Map : [k EXCEPT !.at = "mapped", !.map = m] \in Call
           /\ \A r \in Record : [k EXCEPT !.at = "results", !.record = r] \in Call
  <1>1. [k EXCEPT !.at = "session"] \in Call
    BY DEF Call
  <1>2. ASSUME NEW e \in Seq(Observation)
        PROVE  [k EXCEPT !.at = "evidence", !.existing = e] \in Call
    BY DEF Call
  <1>3. ASSUME NEW s \in Sessions, NEW o \in Observation
        PROVE  [k EXCEPT !.at = "captured", !.id = s, !.observation = o] \in Call
    BY DEF Call
  <1>4. ASSUME NEW m \in Map
        PROVE  [k EXCEPT !.at = "mapped", !.map = m] \in Call
    BY DEF Call
  <1>5. ASSUME NEW r \in Record
        PROVE  [k EXCEPT !.at = "results", !.record = r] \in Call
    BY DEF Call
  <1>6. QED
    BY <1>1, <1>2, <1>3, <1>4, <1>5

LEMMA InitTyped == Init => TypeInv
  <1> SUFFICES ASSUME Init PROVE TypeInv
    OBVIOUS
  <1>1. call \in [Calls -> Call] /\ \A c \in Calls : Supplied(c, call[c])
    BY IdleTyped DEF Init
  <1>2. starts \in 0 .. MaxChanges /\ analyses \in 0 .. MaxChanges
    BY BoundsAssumption DEF Init
  <1>3. QED
    BY <1>1, <1>2 DEF Init, TypeInv, TypeOK

\* What reconcile reads.
Mapped == IF modules = None THEN [list |-> <<>>, start |-> starts] ELSE modules

LEMMA ReadTyped ==
    ASSUME TypeInv, Readable
    PROVE  Mapped \in Map /\ Gathered \in Seq(Observation)
  <1>1. Mapped \in Map
    <2>1. CASE modules = None
      <3>1. <<>> \in Seq(Module) /\ starts \in 0 .. MaxChanges
        BY DEF TypeInv, TypeOK
      <3>2. QED
        BY <2>1, <3>1 DEF Mapped, Map
    <2>2. CASE modules # None
      BY <2>2 DEF Mapped, Readable, TypeInv, TypeOK
    <2>3. QED
      BY <2>1, <2>2
  <1>2. \A s \in Sessions : s \in sessions => evidence[s] \in Seq(Observation)
    BY DEF Readable, TypeInv, TypeOK
  <1>3. QED
    BY <1>1, <1>2, GatheredTyped

LEMMA DiscoveredTyped ==
    ASSUME TypeOK, NEW reported \in Reports, NEW given \in Given,
           NEW map, map = [list |-> ModuleMap(reported, [p \in given |-> layout[p]],
                                              placements), start |-> starts]
    PROVE  map \in Map /\ map.list \in Seq(MapsOf(layout)) /\ map.start = starts
  <1>1. map.list \in Seq(MapsOf(layout)) /\ map.start = starts
    BY MapDiscovered
  <1>2. MapsOf(layout) \subseteq Module
    BY DEF MapsOf
  <1>3. map.list \in Seq(Module)
    BY <1>1, <1>2
  <1>4. starts \in 0 .. MaxChanges
    BY DEF TypeOK
  <1>5. map \in Map
    <2>1. map = [list |-> map.list, start |-> starts]
      OBVIOUS
    <2>2. QED
      BY <1>3, <1>4, <2>1 DEF Map
  <1>6. QED
    BY <1>1, <1>5

LEMMA NextTyped ==
    ASSUME TypeInv, [Next]_vars
    PROVE  TypeInv'
  <1> USE DEF TypeInv
  <1>1. ASSUME NEW c \in Calls, Captured(c)
        PROVE  TypeInv'
    <2>1. PICK id \in IdsOf[c], p \in Places :
              call' = [call EXCEPT ![c] = [Idle EXCEPT !.at = "captured", !.id = id,
                    !.observation = [address |-> layout[p.path] + p.offset, place |-> p,
                                     start |-> starts]]]
      BY <1>1 DEF Captured
    <2> DEFINE o == [address |-> layout[p.path] + p.offset, place |-> p, start |-> starts]
               k == [Idle EXCEPT !.at = "captured", !.id = id, !.observation = o]
    <2>2. o \in Observation /\ id \in Sessions
      BY ObservationMade, InCall
    <2>3. call' = [call EXCEPT ![c] = k]
      BY <2>1
    <2> HIDE DEF o
    <2>4. k \in Call
      BY <2>2, CallFields, IdleTyped
    <2>5. k.at = "captured" /\ k.id = id /\ k.observation = o
      BY DEF Idle
    <2> HIDE DEF k
    <2>6. Supplied(c, k)
      BY <2>2, <2>5 DEF Supplied
    <2>7. call' \in [Calls -> Call] /\ \A d \in Calls : Supplied(d, call'[d])
      BY <2>3, <2>4, <2>6, CallTyped
    <2>8. QED
      BY <1>1, <2>7 DEF Captured, TypeOK, world
  <1>2. ASSUME NEW c \in Calls, SaveSession(c)
        PROVE  TypeInv'
    <2> DEFINE k == [call[c] EXCEPT !.at = "session"]
    <2>1. k \in Call /\ call' = [call EXCEPT ![c] = k]
      BY <1>2, InCall, CallFields DEF SaveSession
    <2>2. Supplied(c, k) /\ call[c].id \in Sessions
      BY <1>2, InCall DEF SaveSession, Supplied, Call
    <2> HIDE DEF k
    <2>3. call' \in [Calls -> Call] /\ \A d \in Calls : Supplied(d, call'[d])
      BY <2>1, <2>2, CallTyped
    <2>4. QED
      BY <1>2, <2>2, <2>3 DEF SaveSession, TypeOK, world
  <1>3. ASSUME NEW c \in Calls, LoadEvidence(c)
        PROVE  TypeInv'
    <2> DEFINE k == [call[c] EXCEPT !.at = "evidence", !.existing = Saved(call[c].id)]
    <2>1. call[c].id \in Sessions
      BY <1>3, InCall DEF LoadEvidence, Supplied
    <2>2. Saved(call[c].id) \in Seq(Observation)
      BY <2>1 DEF Saved, TypeOK
    <2>3. k \in Call /\ call' = [call EXCEPT ![c] = k]
      BY <1>3, <2>2, InCall, CallFields DEF LoadEvidence
    <2>4. Supplied(c, k)
      BY <1>3, InCall DEF LoadEvidence, Supplied, Call
    <2> HIDE DEF k
    <2>5. call' \in [Calls -> Call] /\ \A d \in Calls : Supplied(d, call'[d])
      BY <2>3, <2>4, CallTyped
    <2>6. QED
      BY <1>3, <2>5 DEF LoadEvidence, TypeOK, world
  <1>4. ASSUME NEW c \in Calls, SaveEvidence(c)
        PROVE  TypeInv'
    <2>1. call[c].id \in Sessions /\ call[c].observation \in Observation
      BY <1>4, InCall DEF SaveEvidence, Supplied
    <2>2. Append(call[c].existing, call[c].observation) \in Seq(Observation)
      BY <2>1, InCall
    <2>3. call' \in [Calls -> Call] /\ \A d \in Calls : Supplied(d, call'[d])
      BY <1>4, CallTyped, IdleTyped DEF SaveEvidence
    <2>4. evidence' \in [Sessions -> Seq(Observation) \cup {None, Unreadable}]
      BY <1>4, <2>1, <2>2 DEF SaveEvidence, TypeOK
    <2>5. QED
      BY <1>4, <2>3, <2>4 DEF SaveEvidence, TypeOK, world
  <1>5. ASSUME NEW c \in Calls, Discover(c)
        PROVE  TypeInv'
    <2>1. PICK reported \in Reports, given \in Given :
              call' = [call EXCEPT ![c] = [Idle EXCEPT !.at = "mapped", !.map =
                  [list |-> ModuleMap(reported, [p \in given |-> layout[p]], placements),
                   start |-> starts]]]
      BY <1>5 DEF Discover
    <2> DEFINE map == [list |-> ModuleMap(reported, [p \in given |-> layout[p]],
                                          placements), start |-> starts]
               k == [Idle EXCEPT !.at = "mapped", !.map = map]
    <2>2. map \in Map
      BY DiscoveredTyped
    <2>3. call' = [call EXCEPT ![c] = k]
      BY <2>1
    <2> HIDE DEF map
    <2>4. k \in Call /\ k.at = "mapped" /\ k.map = map
      BY <2>2, CallFields, IdleTyped DEF Idle
    <2> HIDE DEF k
    <2>5. call' \in [Calls -> Call] /\ \A d \in Calls : Supplied(d, call'[d])
      BY <2>2, <2>3, <2>4, CallTyped DEF Supplied
    <2>6. QED
      BY <1>5, <2>5 DEF Discover, TypeOK, world
  <1>6. ASSUME NEW c \in Calls, SaveMap(c)
        PROVE  TypeInv'
    <2>1. call[c].map \in Map
      BY <1>6, InCall DEF SaveMap, Supplied
    <2>2. call' \in [Calls -> Call] /\ \A d \in Calls : Supplied(d, call'[d])
      BY <1>6, CallTyped, IdleTyped DEF SaveMap
    <2>3. QED
      BY <1>6, <2>1, <2>2 DEF SaveMap, TypeOK, world
  <1>7. ASSUME NEW c \in Calls, Reconcile(c)
        PROVE  TypeInv'
    <2> DEFINE made(candidates) ==
                  [results |-> ReconcileAll([i \in 1 .. Len(Gathered) |-> Gathered[i].address],
                                            Mapped.list, placements, candidates),
                   basis |-> Gathered, from |-> Mapped.start, candidates |-> candidates,
                   placed |-> placements]
    <2>1. PICK candidates \in Candidates :
              call' = [call EXCEPT ![c] = [Idle EXCEPT !.at = "results",
                                                       !.record = made(candidates)]]
      BY <1>7 DEF Reconcile, Mapped
    <2> DEFINE k == [Idle EXCEPT !.at = "results", !.record = made(candidates)]
    <2>2. made(candidates) \in Record
      <3>1. placements \in Analyses
        BY DEF TypeOK
      <3>2. QED
        BY <1>7, <3>1, ReadTyped, RecordMade DEF Reconcile
    <2> HIDE DEF made
    <2>3. k \in Call /\ k.at = "results" /\ k.record = made(candidates)
      BY <2>2, CallFields, IdleTyped DEF Idle
    <2>4. call' = [call EXCEPT ![c] = k]
      BY <2>1
    <2> HIDE DEF k
    <2>5. call' \in [Calls -> Call] /\ \A d \in Calls : Supplied(d, call'[d])
      BY <2>2, <2>3, <2>4, CallTyped DEF Supplied
    <2>6. QED
      BY <1>7, <2>5 DEF Reconcile, TypeOK, world
  <1>8. ASSUME NEW c \in Calls, ReconcileRaises(c)
        PROVE  TypeInv'
    BY <1>8 DEF ReconcileRaises, TypeOK, world
  <1>9. ASSUME NEW c \in Calls, SaveResults(c)
        PROVE  TypeInv'
    <2>1. call[c].record \in Record
      BY <1>9, InCall DEF SaveResults, Supplied
    <2>2. call' \in [Calls -> Call] /\ \A d \in Calls : Supplied(d, call'[d])
      BY <1>9, CallTyped, IdleTyped DEF SaveResults
    <2>3. QED
      BY <1>9, <2>1, <2>2 DEF SaveResults, TypeOK, world
  <1>10. ASSUME NEW c \in Calls, Stop(c)
         PROVE  TypeInv'
    <2>1. call' \in [Calls -> Call] /\ \A d \in Calls : Supplied(d, call'[d])
      BY <1>10, CallTyped, IdleTyped DEF Stop
    <2>2. harmed' \in BOOLEAN
      BY <1>10 DEF Stop, TypeOK
    <2>3. QED
      BY <1>10, <2>1, <2>2 DEF Stop, TypeOK, world
  <1>11. CASE Damage
    BY <1>11 DEF Damage, TypeOK, world
  <1>12. CASE Restart
    <2>1. starts' \in 0 .. MaxChanges
      BY <1>12, BoundsAssumption DEF Restart, TypeOK
    <2>2. QED
      BY <1>12, <2>1 DEF Restart, TypeOK
  <1>13. CASE Reanalyze
    <2>1. analyses' \in 0 .. MaxChanges
      BY <1>13, BoundsAssumption DEF Reanalyze, TypeOK
    <2>2. QED
      BY <1>13, <2>1 DEF Reanalyze, TypeOK
  <1>14. CASE UNCHANGED vars
    BY <1>14 DEF vars, world, TypeOK
  <1>15. QED
    BY <1>1, <1>2, <1>3, <1>4, <1>5, <1>6, <1>7, <1>8, <1>9, <1>10, <1>11, <1>12,
       <1>13, <1>14 DEF Next, Step

\* Observations, module maps and reconciliations keep their forms: no offset
\* below the start of its module, a count of at least one, and a target that
\* is an address (_find_module, reconcile_workspace).
THEOREM EvidenceTypeCorrect == Spec => []TypeOK
  <1>1. Init => TypeInv
    BY InitTyped
  <1>2. TypeInv /\ [Next]_vars => TypeInv'
    BY NextTyped
  <1>3. TypeInv => TypeOK
    BY DEF TypeInv
  <1>4. QED
    BY <1>1, <1>2, <1>3, PTL DEF Spec

-----------------------------------------------------------------------------
(* Observations on record *)

LEMMA AppendExtends ==
    ASSUME NEW S, NEW e \in Seq(S), NEW o \in S
    PROVE  IsPrefix(e, e) /\ IsPrefix(e, Append(e, o))
  <1>1. IsPrefix(e, e)
    BY DEF IsPrefix
  <1>2. Len(Append(e, o)) = Len(e) + 1 /\ Append(e, o) \in Seq(S)
    BY AppendProperties
  <1>3. SubSeq(e, 1, Len(e)) = SubSeq(Append(e, o), 1, Len(e))
    BY <1>2
  <1>4. QED
    BY <1>1, <1>2, <1>3 DEF IsPrefix

LEMMA UpToDateKept ==
    ASSUME TypeInv, UpToDate, OwnSessions, [Next]_vars
    PROVE  UpToDate'
  <1> USE DEF UpToDate
  <1>1. call \in [Calls -> Call]
    BY DEF TypeInv, TypeOK
  <1>2. ASSUME NEW c \in Calls, NEW k, k.at # "evidence",
               call' = [call EXCEPT ![c] = k], evidence' = evidence
        PROVE  UpToDate'
    BY <1>1, <1>2
  <1>3. ASSUME NEW c \in Calls, Captured(c)
        PROVE  UpToDate'
    <2>1. PICK id \in IdsOf[c], p \in Places :
              call' = [call EXCEPT ![c] = [Idle EXCEPT !.at = "captured", !.id = id,
                    !.observation = [address |-> layout[p.path] + p.offset, place |-> p,
                                     start |-> starts]]]
      BY <1>3 DEF Captured
    <2> DEFINE k == [Idle EXCEPT !.at = "captured", !.id = id,
                    !.observation = [address |-> layout[p.path] + p.offset, place |-> p,
                                     start |-> starts]]
    <2>2. k.at = "captured"
      BY DEF Idle
    <2>3. call' = [call EXCEPT ![c] = k] /\ evidence' = evidence
      BY <1>3, <2>1 DEF Captured
    <2> HIDE DEF k
    <2>4. QED
      BY <1>2, <2>2, <2>3
  <1>4. ASSUME NEW c \in Calls, SaveSession(c)
        PROVE  UpToDate'
    <2> DEFINE k == [call[c] EXCEPT !.at = "session"]
    <2>1. k.at = "session" /\ call' = [call EXCEPT ![c] = k] /\ evidence' = evidence
      BY <1>4, InCall DEF SaveSession, Call
    <2> HIDE DEF k
    <2>2. QED
      BY <1>2, <2>1
  <1>5. ASSUME NEW c \in Calls, LoadEvidence(c)
        PROVE  UpToDate'
    <2> DEFINE k == [call[c] EXCEPT !.at = "evidence", !.existing = Saved(call[c].id)]
    <2>1. /\ k.id = call[c].id /\ k.existing = Saved(call[c].id)
          /\ call' = [call EXCEPT ![c] = k] /\ evidence' = evidence
      BY <1>5, InCall DEF LoadEvidence, Call
    <2> HIDE DEF k
    <2>2. evidence[k.id] \notin {None, Unreadable} => k.existing = evidence[k.id]
      BY <2>1 DEF Saved
    <2>3. QED
      BY <1>1, <2>1, <2>2
  <1>6. ASSUME NEW c \in Calls, SaveEvidence(c)
        PROVE  UpToDate'
    <2>1. call' = [call EXCEPT ![c] = Idle] /\ Idle.at = "idle"
      BY <1>6, IdleTyped DEF SaveEvidence
    <2>2. call[c].id \in IdsOf[c]
      BY <1>6, InCall DEF SaveEvidence, Supplied
    <2>3. \A s \in Sessions : s # call[c].id => evidence'[s] = evidence[s]
      BY <1>6 DEF SaveEvidence, TypeInv, TypeOK
    <2>4. ASSUME NEW d \in Calls, d # c, call[d].at = "evidence"
          PROVE  evidence'[call[d].id] = evidence[call[d].id]
      <3>1. call[d].id \in IdsOf[d] /\ IdsOf[d] \subseteq Sessions
        BY <2>4, InCall DEF Supplied
      <3>2. call[d].id # call[c].id
        BY <3>1, <2>2, <2>4 DEF OwnSessions
      <3>3. QED
        BY <3>1, <3>2, <2>3
    <2>5. QED
      BY <1>1, <2>1, <2>4
  <1>7. ASSUME NEW c \in Calls, Discover(c)
        PROVE  UpToDate'
    <2>1. PICK map : call' = [call EXCEPT ![c] = [Idle EXCEPT !.at = "mapped", !.map = map]]
      BY <1>7, Zenon DEF Discover
    <2> DEFINE k == [Idle EXCEPT !.at = "mapped", !.map = map]
    <2>2. k.at = "mapped"
      BY DEF Idle
    <2>3. call' = [call EXCEPT ![c] = k] /\ evidence' = evidence
      BY <1>7, <2>1 DEF Discover
    <2> HIDE DEF k
    <2>4. QED
      BY <1>2, <2>2, <2>3
  <1>8. ASSUME NEW c \in Calls, Reconcile(c)
        PROVE  UpToDate'
    <2>1. PICK r : call' = [call EXCEPT ![c] = [Idle EXCEPT !.at = "results", !.record = r]]
      BY <1>8, Zenon DEF Reconcile
    <2> DEFINE k == [Idle EXCEPT !.at = "results", !.record = r]
    <2>2. k.at = "results"
      BY DEF Idle
    <2>3. call' = [call EXCEPT ![c] = k] /\ evidence' = evidence
      BY <1>8, <2>1 DEF Reconcile
    <2> HIDE DEF k
    <2>4. QED
      BY <1>2, <2>2, <2>3
  <1>9. ASSUME NEW c \in Calls, SaveMap(c) \/ SaveResults(c) \/ Stop(c)
        PROVE  UpToDate'
    <2>1. call' = [call EXCEPT ![c] = Idle] /\ evidence' = evidence
      BY <1>9 DEF SaveMap, SaveResults, Stop
    <2>2. QED
      BY <1>2, <2>1, IdleTyped
  <1>10. CASE Damage
    <2>1. call' = call
      BY <1>10 DEF Damage
    <2>2. \A s \in Sessions : evidence'[s] = evidence[s] \/ evidence'[s] = Unreadable
      BY <1>10 DEF Damage, TypeInv, TypeOK
    <2>3. \A c \in Calls : call[c].at = "evidence" => call[c].id \in Sessions
      BY InCall DEF Supplied
    <2>4. QED
      BY <2>1, <2>2, <2>3
  <1>11. ASSUME evidence' = evidence, call' = call
         PROVE  UpToDate'
    BY <1>11
  <1>12. (\E c \in Calls : ReconcileRaises(c)) \/ Restart \/ Reanalyze \/ UNCHANGED vars
         => evidence' = evidence /\ call' = call
    BY DEF ReconcileRaises, Restart, Reanalyze, vars
  <1>13. QED
    BY <1>3, <1>4, <1>5, <1>6, <1>7, <1>8, <1>9, <1>10, <1>11, <1>12 DEF Next, Step

LEMMA StepKeeps ==
    ASSUME TypeInv, UpToDate, [Next]_vars, NEW s \in Sessions,
           evidence[s] \notin {None, Unreadable}, evidence'[s] # Unreadable
    PROVE  IsPrefix(evidence[s], evidence'[s])
  <1>1. evidence[s] \in Seq(Observation)
    BY DEF TypeInv, TypeOK
  <1>2. ASSUME evidence'[s] = evidence[s]
        PROVE  IsPrefix(evidence[s], evidence'[s])
    <2>1. IsPrefix(evidence[s], evidence[s])
      BY <1>1 DEF IsPrefix
    <2>2. QED
      BY <1>2, <2>1
  <1>3. ASSUME NEW c \in Calls, SaveEvidence(c)
        PROVE  IsPrefix(evidence[s], evidence'[s])
    <2>1. CASE s # call[c].id
      <3>1. evidence'[s] = evidence[s]
        BY <1>3, <2>1 DEF SaveEvidence, TypeInv, TypeOK
      <3>2. QED
        BY <3>1, <1>2
    <2>2. CASE s = call[c].id
      <3>1. call[c].existing = evidence[s] /\ call[c].observation \in Observation
        BY <1>3, <2>2, InCall DEF SaveEvidence, UpToDate, Supplied
      <3>2. evidence'[s] = Append(evidence[s], call[c].observation)
        BY <1>3, <2>2, <3>1 DEF SaveEvidence, TypeInv, TypeOK
      <3>3. IsPrefix(evidence[s], Append(evidence[s], call[c].observation))
        BY <1>1, <3>1, AppendExtends
      <3>4. QED
        BY <3>2, <3>3
    <2>3. QED
      BY <2>1, <2>2
  <1>4. CASE Damage
    <2>1. evidence'[s] = evidence[s] \/ evidence'[s] = Unreadable
      BY <1>4 DEF Damage, TypeInv, TypeOK
    <2>2. QED
      BY <2>1, <1>2
  <1>5. ASSUME NEW c \in Calls, Step(c), ~ SaveEvidence(c)
        PROVE  evidence' = evidence
    BY <1>5 DEF Step, Captured, SaveSession, LoadEvidence, Discover, SaveMap, Reconcile,
       ReconcileRaises, SaveResults, Stop
  <1>6. Restart \/ Reanalyze \/ UNCHANGED vars => evidence' = evidence
    BY DEF Restart, Reanalyze, vars
  <1>7. QED
    BY <1>2, <1>3, <1>4, <1>5, <1>6 DEF Next

\* Where no two calls are for one session, an observe call adds its observation
\* to those on record, however many calls go on at once and wherever they end,
\* and nothing else touches them: load, append and save lose none (cli.py:529).
THEOREM ObservationsStay ==
    ASSUME OwnSessions
    PROVE  Spec => ObservationsAreKept
  <1>1. Init => TypeInv /\ UpToDate
    BY InitTyped, IdleTyped DEF Init, UpToDate
  <1>2. TypeInv /\ UpToDate /\ [Next]_vars => (TypeInv /\ UpToDate)'
    BY NextTyped, UpToDateKept
  <1>3. TypeInv /\ UpToDate /\ [Next]_vars =>
            [\A s \in Sessions :
                evidence[s] \notin {None, Unreadable} /\ evidence'[s] # Unreadable
                => IsPrefix(evidence[s], evidence'[s])]_vars
    BY StepKeeps
  <1>4. QED
    BY <1>1, <1>2, <1>3, PTL DEF Spec, ObservationsAreKept

-----------------------------------------------------------------------------
(* Reconcile fails only after harm *)

\* One process at a time, started again after it has ended.
OneCall == \A c, d \in Calls : c = d

LEMMA UnharmedKept ==
    ASSUME TypeInv, Unharmed, [Next]_vars
    PROVE  Unharmed'
  <1> USE DEF Unharmed
  <1> DEFINE Saving(k) == k.at \in {"session", "evidence"}
  <1>1. call \in [Calls -> Call] /\ evidence \in [Sessions -> Seq(Observation) \cup {None, Unreadable}]
    BY DEF TypeInv, TypeOK
  \* A call that has nothing to save, before or after the step, or goes on to.
  <1>2. ASSUME NEW c \in Calls, NEW k, call' = [call EXCEPT ![c] = k],
               Saving(call[c]) => Saving(k) /\ k.id = call[c].id,
               sessions' = sessions, evidence' = evidence,
               modules' = modules \/ modules' # Unreadable, harmed' = harmed
        PROVE  Unharmed'
    <2> SUFFICES ASSUME ~ harmed
                 PROVE  /\ modules' # Unreadable
                        /\ \A s \in Sessions : evidence'[s] # Unreadable
                        /\ \A s \in sessions' : evidence'[s] = None =>
                              \E d \in Calls : Saving(call'[d]) /\ call'[d].id = s
      BY <1>2
    <2>1. ASSUME NEW s \in sessions, evidence[s] = None
          PROVE  \E d \in Calls : Saving(call'[d]) /\ call'[d].id = s
      <3>1. PICK d \in Calls : Saving(call[d]) /\ call[d].id = s
        BY <2>1
      <3>2. Saving(call'[d]) /\ call'[d].id = s
        BY <1>1, <1>2, <3>1
      <3>3. QED
        BY <3>2
    <2>2. QED
      BY <1>2, <2>1
  <1>3. ASSUME NEW c \in Calls, Captured(c) \/ Discover(c) \/ Reconcile(c)
        PROVE  Unharmed'
    <2>1. PICK k : call' = [call EXCEPT ![c] = k]
      BY <1>3, Zenon DEF Captured, Discover, Reconcile
    <2>2. call[c].at = "idle" /\ UNCHANGED <<sessions, evidence, modules, harmed>>
      BY <1>3 DEF Captured, Discover, Reconcile
    <2>3. QED
      BY <1>2, <2>1, <2>2
  <1>4. ASSUME NEW c \in Calls, SaveSession(c)
        PROVE  Unharmed'
    <2> DEFINE k == [call[c] EXCEPT !.at = "session"]
    <2>1. k.at = "session" /\ k.id = call[c].id /\ call' = [call EXCEPT ![c] = k]
      BY <1>4, InCall DEF SaveSession, Call
    <2> HIDE DEF k
    <2>2. /\ call[c].at = "captured" /\ sessions' = sessions \cup {call[c].id}
          /\ UNCHANGED <<evidence, modules, harmed>>
      BY <1>4 DEF SaveSession
    <2>3. ASSUME ~ harmed, NEW s \in sessions', evidence[s] = None
          PROVE  \E d \in Calls : Saving(call'[d]) /\ call'[d].id = s
      <3>1. CASE s = call[c].id
        BY <1>1, <2>1, <3>1
      <3>2. CASE s # call[c].id
        <4>1. PICK d \in Calls : Saving(call[d]) /\ call[d].id = s
          BY <2>2, <2>3, <3>2
        <4>2. call'[d] = call[d]
          BY <1>1, <2>1, <2>2, <4>1
        <4>3. QED
          BY <4>1, <4>2
      <3>3. QED
        BY <3>1, <3>2
    <2>4. QED
      BY <2>2, <2>3
  <1>5. ASSUME NEW c \in Calls, LoadEvidence(c)
        PROVE  Unharmed'
    <2> DEFINE k == [call[c] EXCEPT !.at = "evidence", !.existing = Saved(call[c].id)]
    <2>1. k.at = "evidence" /\ k.id = call[c].id
      BY InCall DEF Call
    <2>2. call' = [call EXCEPT ![c] = k]
      BY <1>5 DEF LoadEvidence
    <2> HIDE DEF k
    <2>3. UNCHANGED <<sessions, evidence, modules, harmed>>
      BY <1>5 DEF LoadEvidence
    <2>4. QED
      BY <1>2, <2>1, <2>2, <2>3
  <1>6. ASSUME NEW c \in Calls, SaveEvidence(c)
        PROVE  Unharmed'
    <2> DEFINE new == Append(call[c].existing, call[c].observation)
               id == call[c].id
    <2>1. id \in Sessions /\ new \in Seq(Observation)
      BY <1>6, InCall DEF SaveEvidence, Supplied
    <2>2. new # None /\ new # Unreadable
      BY <2>1, UnsetAssumption
    <2>3. /\ evidence' = [evidence EXCEPT ![id] = new] /\ call' = [call EXCEPT ![c] = Idle]
          /\ UNCHANGED <<sessions, modules, harmed>>
      BY <1>6 DEF SaveEvidence
    <2> HIDE DEF new, id
    <2>4. ASSUME NEW s \in Sessions
          PROVE  evidence'[s] = IF s = id THEN new ELSE evidence[s]
      BY <1>1, <2>3
    <2>5. ASSUME ~ harmed, NEW s \in sessions, evidence'[s] = None
          PROVE  \E d \in Calls : Saving(call'[d]) /\ call'[d].id = s
      <3>1. s \in Sessions /\ s # id /\ evidence[s] = None
        BY <2>2, <2>4, <2>5 DEF TypeInv, TypeOK
      <3>2. PICK d \in Calls : Saving(call[d]) /\ call[d].id = s
        BY <2>5, <3>1
      <3>3. d # c
        BY <3>1, <3>2 DEF id
      <3>4. call'[d] = call[d]
        BY <1>1, <2>3, <3>3
      <3>5. QED
        BY <3>2, <3>4
    <2>6. \A s \in Sessions : ~ harmed => evidence'[s] # Unreadable
      BY <2>2, <2>4
    <2>7. QED
      BY <2>3, <2>5, <2>6
  <1>7. ASSUME NEW c \in Calls, SaveMap(c)
        PROVE  Unharmed'
    <2>1. call[c].map \in Map
      BY <1>7, InCall DEF SaveMap, Supplied
    <2>2. call[c].map # Unreadable
      BY <2>1, UnsetAssumption
    <2>3. /\ call' = [call EXCEPT ![c] = Idle] /\ call[c].at = "mapped"
          /\ modules' = call[c].map /\ UNCHANGED <<sessions, evidence, harmed>>
      BY <1>7 DEF SaveMap
    <2>4. QED
      BY <1>2, <2>2, <2>3
  <1>8. ASSUME NEW c \in Calls, SaveResults(c)
        PROVE  Unharmed'
    BY <1>2, <1>8 DEF SaveResults
  <1>9. ASSUME NEW c \in Calls, Stop(c)
        PROVE  Unharmed'
    <2>1. /\ call' = [call EXCEPT ![c] = Idle] /\ UNCHANGED <<sessions, evidence, modules>>
          /\ harmed' = (harmed \/ Saving(call[c])) /\ harmed \in BOOLEAN
      BY <1>9 DEF Stop, TypeInv, TypeOK
    <2>2. CASE Saving(call[c])
      BY <2>1, <2>2
    <2>3. CASE ~ Saving(call[c])
      <3>1. harmed' = harmed
        BY <2>1, <2>3
      <3>2. QED
        BY <1>2, <2>1, <2>3, <3>1
    <2>4. QED
      BY <2>2, <2>3
  <1>10. CASE Damage
    BY <1>10 DEF Damage
  <1>11. (\E c \in Calls : ReconcileRaises(c)) \/ Restart \/ Reanalyze \/ UNCHANGED vars
         => UNCHANGED <<sessions, evidence, modules, call, harmed>>
    BY DEF ReconcileRaises, Restart, Reanalyze, vars
  <1>12. UNCHANGED <<sessions, evidence, modules, call, harmed>> => Unharmed'
    OBVIOUS
  <1>13. QED
    BY <1>3, <1>4, <1>5, <1>6, <1>7, <1>8, <1>9, <1>10, <1>11, <1>12 DEF Next, Step

LEMMA NoFailureUnharmed ==
    ASSUME OneCall, TypeInv, HarmInv, [Next]_vars
    PROVE  FailsOnlyAfterHarm'
  <1> USE DEF FailsOnlyAfterHarm, HarmInv
  <1>1. ASSUME NEW c \in Calls, ReconcileRaises(c)
        PROVE  harmed
    <2> SUFFICES ASSUME ~ harmed PROVE FALSE
      OBVIOUS
    <2>1. call[c].at = "idle" /\ ~ Readable
      BY <1>1 DEF ReconcileRaises
    <2>2. modules # Unreadable /\ \A s \in sessions : evidence[s] # Unreadable
      BY DEF Unharmed, TypeInv, TypeOK
    <2>3. PICK s \in sessions : evidence[s] = None
      BY <2>1, <2>2 DEF Readable
    <2>4. PICK d \in Calls : call[d].at \in {"session", "evidence"}
      BY <2>3 DEF Unharmed
    <2>5. QED
      BY <2>1, <2>4 DEF OneCall
  <1>2. ASSUME NEW c \in Calls, ReconcileRaises(c)
        PROVE  FailsOnlyAfterHarm'
    BY <1>1, <1>2 DEF ReconcileRaises
  <1>3. ASSUME NEW c \in Calls, Step(c), ~ ReconcileRaises(c)
        PROVE  failed' = failed /\ (harmed => harmed')
    <2>1. CASE Stop(c)
      BY <2>1 DEF Stop
    <2>2. CASE ~ Stop(c)
      <3>1. failed' = failed
        BY <1>3, <2>2, Zenon DEF Step, Captured, SaveSession, LoadEvidence, SaveEvidence,
           Discover, SaveMap, Reconcile, SaveResults
      <3>2. harmed' = harmed
        BY <1>3, <2>2, Zenon DEF Step, Captured, SaveSession, LoadEvidence, SaveEvidence,
           Discover, SaveMap, Reconcile, SaveResults
      <3>3. QED
        BY <3>1, <3>2, Zenon
    <2>3. QED
      BY <2>1, <2>2
  <1>4. Damage \/ Restart \/ Reanalyze \/ UNCHANGED vars
        => failed' = failed /\ (harmed => harmed')
    BY DEF Damage, Restart, Reanalyze, vars
  <1>5. QED
    BY <1>2, <1>3, <1>4 DEF Next

\* With one call at a time, runtime reconcile raises only if an observe call
\* was ended between its two files or a file was damaged (cli.py:579-585).
THEOREM FailureIsAfterHarm ==
    ASSUME OneCall
    PROVE  Spec => []FailsOnlyAfterHarm
  <1>1. Init => TypeInv /\ HarmInv
    <2> SUFFICES ASSUME Init PROVE TypeInv /\ HarmInv
      OBVIOUS
    <2>1. modules # Unreadable /\ \A s \in Sessions : evidence[s] # Unreadable
      BY UnsetAssumption DEF Init
    <2>2. QED
      BY <2>1, InitTyped DEF Init, HarmInv, Unharmed, FailsOnlyAfterHarm
  <1>2. TypeInv /\ HarmInv /\ [Next]_vars => (TypeInv /\ HarmInv)'
    BY NextTyped, UnharmedKept, NoFailureUnharmed DEF HarmInv
  <1>3. HarmInv => FailsOnlyAfterHarm
    BY DEF HarmInv
  <1>4. QED
    BY <1>1, <1>2, <1>3, PTL DEF Spec

-----------------------------------------------------------------------------
(* Addresses and the code that ran *)

\* Modules do not overlap, so one address is that of one place.
LEMMA OnePlace ==
    ASSUME NEW l \in Layouts, NEW m \in Paths, NEW q \in Places, NEW offset \in Nat,
           offset < Extent[m], l[m] + offset = l[q.path] + q.offset
    PROVE  m = q.path /\ offset = q.offset
  <1>1. q.path \in Paths /\ q.offset \in Nat /\ q.offset < Extent[q.path]
    BY PlacesAssumption
  <1>2. l[m] \in Nat /\ l[q.path] \in Nat /\ Extent[m] \in Nat /\ Extent[q.path] \in Nat
    BY <1>1, PlacesAssumption
  <1>3. m # q.path => l[m] + Extent[m] <= l[q.path] \/ l[q.path] + Extent[q.path] <= l[m]
    BY <1>1, PlacesAssumption
  <1>4. m = q.path
    BY <1>1, <1>2, <1>3
  <1>5. QED
    BY <1>1, <1>2, <1>4

LEMMA SamePlace ==
    ASSUME NEW l \in Layouts, NEW p \in Places, NEW q \in Places,
           l[p.path] + p.offset = l[q.path] + q.offset
    PROVE  p = q
  <1>1. p \in [path : Paths, offset : Nat] /\ q \in [path : Paths, offset : Nat]
        /\ p.offset < Extent[p.path]
    BY PlacesAssumption
  <1>2. p.path = q.path /\ p.offset = q.offset
    BY <1>1, OnePlace
  <1>3. QED
    BY <1>1, <1>2

\* An observation that is mapped with a module map of its emulator is mapped
\* to its place.
LEMMA MappedToItsPlace ==
    ASSUME NEW l \in Layouts, NEW q \in Places, NEW a \in Nat, a = l[q.path] + q.offset,
           NEW ms \in Seq(Module), \A i \in 1 .. Len(ms) : AgreesWith(l, ms[i]),
           NEW pl \in Analyses, NEW candidates \in Candidates,
           NEW r, r = Reconciled(a, ms, pl, candidates), r.target # None
    PROVE  /\ r.target = pl[q.path].load + q.offset
           /\ r.status = "corroborated" => r.target \in candidates[q.path]
  <1>1. Stands(r, a, ms, pl, candidates)
    BY ReconciledRight
  <1>2. PICK i \in 1 .. Len(ms) :
            /\ ms[i].path \in DOMAIN pl /\ ms[i].base <= a
            /\ a - ms[i].base < pl[ms[i].path].size
            /\ r.target = pl[ms[i].path].load + (a - ms[i].base)
            /\ r.status = "corroborated" => r.target \in candidates[ms[i].path]
    BY <1>1 DEF Stands
  <1> DEFINE m == ms[i].path
  <1>3. m \in Paths /\ pl[m] \in Placement /\ pl[m].size <= Extent[m]
    BY <1>2, AnalysesAssumption
  <1>4. m # None
    BY <1>3, PathsAssumption
  <1>5. ms[i].base = l[m]
    BY <1>4 DEF AgreesWith
  <1>6. l[m] \in Nat /\ l[m] <= a /\ Extent[m] \in Nat /\ pl[m].size \in Nat
    BY <1>2, <1>3, <1>5, PlacesAssumption DEF Placement
  <1> DEFINE offset == a - l[m]
  <1>7. offset \in Nat /\ offset < Extent[m]
    BY <1>2, <1>3, <1>5, <1>6
  <1>8. l[m] + offset = l[q.path] + q.offset
    BY <1>6
  <1>9. m = q.path /\ offset = q.offset
    <2> HIDE DEF offset, m
    <2> QED BY <1>3, <1>7, <1>8, OnePlace
  <1>10. QED
    BY <1>2, <1>5, <1>9

LEMMA RecordRight ==
    ASSUME NEW L \in [0 .. MaxChanges -> Layouts],
           NEW seen \in Seq(Observation), \A i \in 1 .. Len(seen) : SeenIn(L, seen[i]),
           NEW map \in Map, MapIn(L, map),
           NEW pl \in Analyses, NEW candidates \in Candidates,
           NEW results, results = ReconcileAll([i \in 1 .. Len(seen) |-> seen[i].address],
                                               map.list, pl, candidates),
           NEW r, r = [results |-> results, basis |-> seen, from |-> map.start,
                       candidates |-> candidates, placed |-> pl]
    PROVE  Right(r)
  <1> DEFINE addresses == [i \in 1 .. Len(seen) |-> seen[i].address]
             one(i) == Reconciled(addresses[i], map.list, pl, candidates)
             l == L[map.start]
  <1>1. /\ r.results = results /\ r.basis = seen /\ r.from = map.start
        /\ r.candidates = candidates /\ r.placed = pl
    OBVIOUS
  <1>2. map.list \in Seq(Module) /\ map.start \in 0 .. MaxChanges /\ l \in Layouts
    BY DEF Map
  <1>3. ASSUME NEW i \in 1 .. Len(seen)
        PROVE  /\ seen[i] \in Observation /\ addresses[i] = seen[i].address
               /\ seen[i].address \in Nat /\ seen[i].place \in Places
               /\ seen[i].start = map.start =>
                     seen[i].address = l[seen[i].place.path] + seen[i].place.offset
    <2>1. seen[i] \in Observation
      OBVIOUS
    <2>2. QED
      BY <2>1 DEF Observation, SeenIn
  <1>4. addresses \in Seq(Nat) /\ Len(addresses) = Len(seen)
    BY <1>3
  <1>5. results = ReconcileAll(addresses, map.list, pl, candidates)
    OBVIOUS
  <1> HIDE DEF addresses, l
  <1>6. ASSUME NEW i \in 1 .. Len(seen)
        PROVE  /\ results[i].target = one(i).target
               /\ results[i].status = "runtime_verified" =>
                     /\ one(i).status = "corroborated"
                     /\ \E j \in 1 .. i - 1 : addresses[j] = addresses[i]
    BY <1>2, <1>4, <1>5, AllReconciled
  <1>7. ASSUME NEW i \in 1 .. Len(seen), seen[i].start = map.start, one(i).target # None
        PROVE  /\ one(i).target = pl[seen[i].place.path].load + seen[i].place.offset
               /\ one(i).status = "corroborated" =>
                     one(i).target \in candidates[seen[i].place.path]
    <2>1. \A k \in 1 .. Len(map.list) : AgreesWith(l, map.list[k])
      BY DEF MapIn, l
    <2>2. /\ seen[i].place \in Places /\ addresses[i] \in Nat
          /\ addresses[i] = l[seen[i].place.path] + seen[i].place.offset
      BY <1>3, <1>7
    <2>3. QED
      BY <1>2, <1>7, <2>1, <2>2, MappedToItsPlace
  <1>8. Resolved(r)
    <2> SUFFICES ASSUME NEW i \in 1 .. Len(seen), seen[i].start = map.start,
                        results[i].target # None
                 PROVE  results[i].target = pl[seen[i].place.path].load
                                            + seen[i].place.offset
      BY <1>1 DEF Resolved
    <2>1. QED
      BY <1>6, <1>7
  <1>9. Repeated(r)
    <2> SUFFICES ASSUME NEW i \in 1 .. Len(seen), results[i].status = "runtime_verified",
                        \A j \in 1 .. i : seen[j].start = map.start
                 PROVE  /\ \E j \in 1 .. i - 1 : seen[j].place = seen[i].place
                        /\ results[i].target \in candidates[seen[i].place.path]
      BY <1>1 DEF Repeated
    <2>1. one(i).status = "corroborated" /\ results[i].target = one(i).target
      BY <1>6
    <2>2. PICK j \in 1 .. i - 1 : addresses[j] = addresses[i]
      BY <1>6
    <2>3. i \in 1 .. i /\ j \in 1 .. i /\ j \in 1 .. Len(seen)
      OBVIOUS
    <2>4. seen[i].start = map.start /\ seen[j].start = map.start
      BY <2>3
    <2>5. l[seen[j].place.path] + seen[j].place.offset
          = l[seen[i].place.path] + seen[i].place.offset
      BY <1>3, <2>2, <2>3, <2>4
    <2>6. seen[j].place = seen[i].place
      BY <1>2, <1>3, <2>3, <2>5, SamePlace
    <2>7. one(i).target # None
      BY <1>2, <1>3, <2>1, ReconciledRight
    <2>8. results[i].target \in candidates[seen[i].place.path]
      BY <1>7, <2>1, <2>4, <2>7
    <2>9. QED
      BY <2>6, <2>8
  <1>10. QED
    BY <1>8, <1>9 DEF Right

-----------------------------------------------------------------------------
(* What is on file was seen *)

AllSeen(L, e) == \A i \in 1 .. Len(e) : SeenIn(L, e[i])

\* While one emulator runs, what is seen stays seen.
LEMMA SeenStays ==
    ASSUME NEW L, History(L), UNCHANGED <<starts, layout>>,
           \A s \in Sessions : evidence'[s] \notin {None, Unreadable} =>
               AllSeen(L, evidence'[s]),
           modules' \notin {None, Unreadable} => MapIn(L, modules'),
           \A c \in Calls : CallIn(L, call'[c])
    PROVE  History(L)'
  BY DEF History, AllSeen, SeenIn, MapIn, CallIn

LEMMA CallSeen ==
    ASSUME TypeInv, NEW L, History(L), NEW c \in Calls, NEW k, CallIn(L, k),
           call' = [call EXCEPT ![c] = k],
           UNCHANGED <<starts, layout, evidence, modules>>
    PROVE  History(L)'
  <1>1. \A d \in Calls : CallIn(L, call'[d])
    BY DEF History, TypeInv, TypeOK
  <1>2. QED
    BY <1>1, SeenStays DEF History, AllSeen

LEMMA IdleSeen ==
    ASSUME NEW L
    PROVE  CallIn(L, Idle)
  <1>1. Idle.at = "idle" /\ Idle.existing = <<>>
    BY IdleTyped
  <1>2. QED
    BY <1>1 DEF CallIn

LEMMA HistoryKept ==
    ASSUME TypeInv, NEW L \in [0 .. MaxChanges -> Layouts], History(L), [Next]_vars,
           ~ Restart
    PROVE  History(L)'
  <1>1. \A c \in Calls : CallIn(L, call[c])
    BY DEF History
  <1>2. ASSUME NEW c \in Calls, Captured(c)
        PROVE  History(L)'
    <2>1. PICK id \in IdsOf[c], p \in Places :
              call' = [call EXCEPT ![c] = [Idle EXCEPT !.at = "captured", !.id = id,
                    !.observation = [address |-> layout[p.path] + p.offset, place |-> p,
                                     start |-> starts]]]
      BY <1>2 DEF Captured
    <2> DEFINE o == [address |-> layout[p.path] + p.offset, place |-> p, start |-> starts]
               k == [Idle EXCEPT !.at = "captured", !.id = id, !.observation = o]
    <2>2. SeenIn(L, o)
      <3>1. /\ o.start = starts /\ o.place.path = p.path /\ o.place.offset = p.offset
            /\ o.address = layout[p.path] + p.offset
        OBVIOUS
      <3>2. L[starts] = layout
        BY DEF History
      <3>3. starts <= starts
        <4>1. starts \in 0 .. MaxChanges
          BY DEF TypeInv, TypeOK
        <4>2. QED
          BY <4>1
      <3> HIDE DEF o
      <3>4. QED
        BY <3>1, <3>2, <3>3 DEF SeenIn
    <2>3. call' = [call EXCEPT ![c] = k]
      BY <2>1
    <2> HIDE DEF o
    <2>4. k.at = "captured" /\ k.observation = o /\ k.existing = <<>>
      BY DEF Idle
    <2> HIDE DEF k
    <2>5. CallIn(L, k)
      BY <2>2, <2>4 DEF CallIn
    <2>6. QED
      BY <1>2, <2>3, <2>5, CallSeen DEF Captured, world
  <1>3. ASSUME NEW c \in Calls, SaveSession(c)
        PROVE  History(L)'
    <2> DEFINE k == [call[c] EXCEPT !.at = "session"]
    <2>1. /\ k.at = "session" /\ k.observation = call[c].observation
          /\ k.existing = call[c].existing
      BY InCall DEF Call
    <2>2. call[c].at = "captured" /\ call' = [call EXCEPT ![c] = k]
      BY <1>3 DEF SaveSession
    <2> HIDE DEF k
    <2>3. CallIn(L, k)
      BY <1>1, <2>1, <2>2 DEF CallIn
    <2>4. QED
      BY <1>3, <2>2, <2>3, CallSeen DEF SaveSession, world
  <1>4. ASSUME NEW c \in Calls, LoadEvidence(c)
        PROVE  History(L)'
    <2> DEFINE k == [call[c] EXCEPT !.at = "evidence", !.existing = Saved(call[c].id)]
    <2>1. /\ k.at = "evidence" /\ k.observation = call[c].observation
          /\ k.existing = Saved(call[c].id)
      BY InCall DEF Call
    <2>2. call[c].at = "session" /\ call' = [call EXCEPT ![c] = k]
      BY <1>4 DEF LoadEvidence
    <2> HIDE DEF k
    <2>3. call[c].id \in Sessions
      BY <2>2, InCall DEF Supplied
    <2>4. AllSeen(L, Saved(call[c].id))
      BY <2>3 DEF Saved, History, AllSeen
    <2>5. CallIn(L, k)
      BY <1>1, <2>1, <2>2, <2>4 DEF CallIn, AllSeen
    <2>6. QED
      BY <1>4, <2>2, <2>5, CallSeen DEF LoadEvidence, world
  <1>5. ASSUME NEW c \in Calls, SaveEvidence(c)
        PROVE  History(L)'
    <2> DEFINE new == Append(call[c].existing, call[c].observation)
               id == call[c].id
    <2>1. call[c].at = "evidence" /\ call[c].existing \in Seq(Observation)
          /\ call[c].observation \in Observation
      BY <1>5, InCall DEF SaveEvidence, Supplied
    <2>2. AllSeen(L, call[c].existing) /\ SeenIn(L, call[c].observation)
      BY <1>1, <2>1 DEF CallIn, AllSeen
    <2>3. AllSeen(L, new)
      BY <2>1, <2>2 DEF AllSeen
    <2> HIDE DEF new
    <2>4. evidence' = [evidence EXCEPT ![id] = new] /\ call' = [call EXCEPT ![c] = Idle]
      BY <1>5 DEF SaveEvidence, new
    <2>5. \A s \in Sessions : evidence'[s] = new \/ evidence'[s] = evidence[s]
      BY <2>4 DEF TypeInv, TypeOK
    <2>6. \A s \in Sessions : evidence'[s] \notin {None, Unreadable} => AllSeen(L, evidence'[s])
      BY <2>3, <2>5 DEF History, AllSeen
    <2>7. \A d \in Calls : CallIn(L, call'[d])
      BY <1>1, <2>4, IdleSeen DEF TypeInv, TypeOK
    <2>8. QED
      BY <1>5, <2>6, <2>7, SeenStays DEF SaveEvidence, History, world
  <1>6. ASSUME NEW c \in Calls, Discover(c)
        PROVE  History(L)'
    <2>1. PICK reported \in Reports, given \in Given :
              call' = [call EXCEPT ![c] = [Idle EXCEPT !.at = "mapped", !.map =
                  [list |-> ModuleMap(reported, [p \in given |-> layout[p]], placements),
                   start |-> starts]]]
      BY <1>6 DEF Discover
    <2> DEFINE map == [list |-> ModuleMap(reported, [p \in given |-> layout[p]],
                                          placements), start |-> starts]
               k == [Idle EXCEPT !.at = "mapped", !.map = map]
    <2>2. map.list \in Seq(MapsOf(layout)) /\ map.start = starts
      BY DiscoveredTyped DEF TypeInv
    <2>3. call' = [call EXCEPT ![c] = k]
      BY <2>1
    <2> HIDE DEF map
    <2>4. ASSUME NEW i \in 1 .. Len(map.list)
          PROVE  AgreesWith(layout, map.list[i])
      <3>1. map.list[i] \in MapsOf(layout)
        BY <2>2
      <3>2. QED
        BY <3>1 DEF MapsOf
    <2>5. MapIn(L, map)
      BY <2>2, <2>4 DEF MapIn, History, TypeInv, TypeOK
    <2>6. k.at = "mapped" /\ k.map = map /\ k.existing = <<>>
      BY DEF Idle
    <2> HIDE DEF k
    <2>7. CallIn(L, k)
      BY <2>5, <2>6 DEF CallIn
    <2>8. QED
      BY <1>6, <2>3, <2>7, CallSeen DEF Discover, world
  <1>7. ASSUME NEW c \in Calls, SaveMap(c)
        PROVE  History(L)'
    <2>1. MapIn(L, call[c].map) /\ modules' = call[c].map
      BY <1>1, <1>7 DEF SaveMap, CallIn
    <2>2. \A d \in Calls : CallIn(L, call'[d])
      BY <1>1, <1>7, IdleSeen DEF SaveMap, TypeInv, TypeOK
    <2>3. QED
      BY <1>7, <2>1, <2>2, SeenStays DEF SaveMap, History, AllSeen, world
  <1>8. ASSUME NEW c \in Calls, Reconcile(c)
        PROVE  History(L)'
    <2>1. PICK r : call' = [call EXCEPT ![c] = [Idle EXCEPT !.at = "results", !.record = r]]
      BY <1>8, Zenon DEF Reconcile
    <2> DEFINE k == [Idle EXCEPT !.at = "results", !.record = r]
    <2>2. k.at = "results" /\ k.existing = <<>>
      BY DEF Idle
    <2>3. call' = [call EXCEPT ![c] = k]
      BY <2>1
    <2> HIDE DEF k
    <2>4. CallIn(L, k)
      BY <2>2 DEF CallIn
    <2>5. QED
      BY <1>8, <2>3, <2>4, CallSeen DEF Reconcile, world
  <1>9. ASSUME NEW c \in Calls, SaveResults(c) \/ Stop(c)
        PROVE  History(L)'
    <2>1. call' = [call EXCEPT ![c] = Idle] /\ UNCHANGED <<starts, layout, evidence, modules>>
      BY <1>9 DEF SaveResults, Stop, world
    <2>2. QED
      BY <2>1, IdleSeen, CallSeen
  <1>10. CASE Damage
    <2>1. /\ \A s \in Sessions : evidence'[s] = evidence[s] \/ evidence'[s] = Unreadable
          /\ modules' = modules \/ modules' = Unreadable
          /\ UNCHANGED <<starts, layout, call>>
      BY <1>10 DEF Damage, world, TypeInv, TypeOK
    <2>2. QED
      BY <2>1, SeenStays DEF History, AllSeen
  <1>11. (\E c \in Calls : ReconcileRaises(c)) \/ Reanalyze \/ UNCHANGED vars
         => UNCHANGED <<starts, layout, evidence, modules, call>>
    BY DEF ReconcileRaises, Reanalyze, vars, world
  <1>12. UNCHANGED <<starts, layout, evidence, modules, call>> => History(L)'
    BY SeenStays DEF History, AllSeen
  <1>13. QED
    BY <1>2, <1>3, <1>4, <1>5, <1>6, <1>7, <1>8, <1>9, <1>10, <1>11, <1>12 DEF Next, Step

\* A new emulator adds its layout to those there were.
LEMMA HistoryGrows ==
    ASSUME TypeInv, NEW L \in [0 .. MaxChanges -> Layouts], History(L), Restart
    PROVE  Remembered'
  <1>1. starts \in Nat /\ starts + 1 \in 0 .. MaxChanges /\ starts' = starts + 1
        /\ layout' \in Layouts
    BY BoundsAssumption DEF Restart, TypeInv, TypeOK
  <1>2. PICK M \in [0 .. MaxChanges -> Layouts] : M = [L EXCEPT ![starts + 1] = layout']
    BY <1>1
  <1>3. M[starts'] = layout' /\ \A i \in 0 .. MaxChanges : i <= starts => M[i] = L[i]
    BY <1>1, <1>2
  <1>4. ASSUME NEW o \in Observation, SeenIn(L, o)
        PROVE  SeenIn(M, o)'
    <2>1. o.start \in 0 .. MaxChanges /\ o.start <= starts
      BY <1>4 DEF SeenIn, Observation
    <2>2. M[o.start] = L[o.start] /\ o.start <= starts'
      BY <1>1, <1>3, <2>1
    <2>3. QED
      BY <1>4, <2>2 DEF SeenIn
  <1>5. ASSUME NEW map \in Map, MapIn(L, map)
        PROVE  MapIn(M, map)'
    <2>1. map.start \in 0 .. MaxChanges /\ map.start <= starts
      BY <1>5 DEF MapIn, Map
    <2>2. M[map.start] = L[map.start] /\ map.start <= starts'
      BY <1>1, <1>3, <2>1
    <2>3. QED
      BY <1>5, <2>2 DEF MapIn
  <1>6. UNCHANGED <<evidence, modules, call>>
    BY DEF Restart
  <1>7. ASSUME NEW e \in Seq(Observation), NEW i \in 1 .. Len(e), SeenIn(L, e[i])
        PROVE  SeenIn(M, e[i])'
    <2>1. e[i] \in Observation
      OBVIOUS
    <2>2. QED
      BY <1>4, <1>7, <2>1
  <1>8. ASSUME NEW c \in Calls
        PROVE  CallIn(M, call[c])'
    <2>1. CallIn(L, call[c]) /\ Supplied(c, call[c]) /\ call[c].existing \in Seq(Observation)
      BY InCall DEF History
    <2>2. call[c].at \in {"captured", "session", "evidence"} => SeenIn(M, call[c].observation)'
      BY <1>4, <1>6, <2>1 DEF CallIn, Supplied
    <2>3. \A i \in 1 .. Len(call[c].existing) : SeenIn(M, call[c].existing[i])'
      BY <1>6, <1>7, <2>1 DEF CallIn
    <2>4. call[c].at = "mapped" => MapIn(M, call[c].map)'
      BY <1>5, <1>6, <2>1 DEF CallIn, Supplied
    <2>5. QED
      BY <1>6, <2>2, <2>3, <2>4 DEF CallIn
  <1>9. ASSUME NEW s \in Sessions, evidence[s] \notin {None, Unreadable},
               NEW i \in 1 .. Len(evidence[s])
        PROVE  SeenIn(M, evidence[s][i])'
    <2>1. evidence[s] \in Seq(Observation) /\ SeenIn(L, evidence[s][i])
      BY <1>9 DEF History, TypeInv, TypeOK
    <2>2. QED
      BY <1>6, <1>7, <2>1
  <1>10. modules \notin {None, Unreadable} => MapIn(M, modules)'
    BY <1>5, <1>6 DEF History, TypeInv, TypeOK
  <1>11. History(M)'
    BY <1>3, <1>6, <1>8, <1>9, <1>10 DEF History
  <1>12. QED
    BY <1>11 DEF Remembered

LEMMA RememberedKept ==
    ASSUME TypeInv, Remembered, [Next]_vars
    PROVE  Remembered'
  <1>1. PICK L \in [0 .. MaxChanges -> Layouts] : History(L)
    BY DEF Remembered
  <1>2. CASE Restart
    BY <1>1, <1>2, HistoryGrows
  <1>3. CASE ~ Restart
    <2>1. History(L)'
      BY <1>1, <1>3, HistoryKept
    <2>2. QED
      BY <2>1 DEF Remembered
  <1>4. QED
    BY <1>2, <1>3

-----------------------------------------------------------------------------
(* What is reconciled is right *)

LEMMA RecordsKept ==
    ASSUME TypeInv, Remembered, RecordsRight, [Next]_vars
    PROVE  RecordsRight'
  <1> USE DEF RecordsRight
  <1>1. call \in [Calls -> Call]
    BY DEF TypeInv, TypeOK
  <1>2. ASSUME NEW c \in Calls, NEW k, call' = [call EXCEPT ![c] = k],
               k.at = "results" => Right(k.record),
               reconciled' = reconciled \/ Right(reconciled')
        PROVE  RecordsRight'
    <2>1. \A d \in Calls : call'[d].at = "results" => Right(call'[d].record)
      BY <1>1, <1>2
    <2>2. reconciled' # None => Right(reconciled')
      BY <1>2
    <2>3. QED
      BY <2>1, <2>2 DEF Right, Resolved, Repeated
  <1>3. ASSUME NEW c \in Calls, Captured(c) \/ Discover(c)
        PROVE  RecordsRight'
    <2>1. PICK k : call' = [call EXCEPT ![c] = k] /\ k.at # "results"
      <3>1. ASSUME Captured(c)
            PROVE  \E id, o : call' = [call EXCEPT ![c] =
                       [Idle EXCEPT !.at = "captured", !.id = id, !.observation = o]]
        BY <3>1, Zenon DEF Captured
      <3>2. ASSUME Discover(c)
            PROVE  \E m : call' = [call EXCEPT ![c] =
                       [Idle EXCEPT !.at = "mapped", !.map = m]]
        BY <3>2, Zenon DEF Discover
      <3>3. \A id, o : [Idle EXCEPT !.at = "captured", !.id = id, !.observation = o].at
                       # "results"
        BY DEF Idle
      <3>4. \A m : [Idle EXCEPT !.at = "mapped", !.map = m].at # "results"
        BY DEF Idle
      <3>5. QED
        BY <1>3, <3>1, <3>2, <3>3, <3>4, Zenon
    <2>2. reconciled' = reconciled
      BY <1>3 DEF Captured, Discover
    <2>3. QED
      BY <1>2, <2>1, <2>2
  <1>4. ASSUME NEW c \in Calls, SaveSession(c) \/ LoadEvidence(c)
        PROVE  RecordsRight'
    <2> DEFINE k == [call[c] EXCEPT !.at = "session"]
               e == [call[c] EXCEPT !.at = "evidence", !.existing = Saved(call[c].id)]
    <2>1. k.at # "results" /\ e.at # "results"
      BY InCall DEF Call
    <2>2. call' = [call EXCEPT ![c] = k] \/ call' = [call EXCEPT ![c] = e]
      BY <1>4 DEF SaveSession, LoadEvidence
    <2>3. reconciled' = reconciled
      BY <1>4 DEF SaveSession, LoadEvidence
    <2> HIDE DEF k, e
    <2>4. QED
      BY <1>2, <2>1, <2>2, <2>3
  <1>5. ASSUME NEW c \in Calls, SaveEvidence(c) \/ SaveMap(c) \/ Stop(c)
        PROVE  RecordsRight'
    <2>1. call' = [call EXCEPT ![c] = Idle] /\ reconciled' = reconciled
      BY <1>5 DEF SaveEvidence, SaveMap, Stop
    <2>2. QED
      BY <1>2, <2>1, IdleTyped
  <1>6. ASSUME NEW c \in Calls, Reconcile(c)
        PROVE  RecordsRight'
    <2>1. PICK L \in [0 .. MaxChanges -> Layouts] : History(L)
      BY DEF Remembered
    <2> DEFINE results(candidates) ==
                  ReconcileAll([i \in 1 .. Len(Gathered) |-> Gathered[i].address],
                               Mapped.list, placements, candidates)
               made(candidates) ==
                  [results |-> results(candidates), basis |-> Gathered,
                   from |-> Mapped.start, candidates |-> candidates, placed |-> placements]
    <2>2. PICK candidates \in Candidates :
              call' = [call EXCEPT ![c] = [Idle EXCEPT !.at = "results",
                                                       !.record = made(candidates)]]
      BY <1>6 DEF Reconcile, Mapped
    <2>3. Readable /\ Mapped \in Map /\ Gathered \in Seq(Observation)
          /\ placements \in Analyses
      BY <1>6, ReadTyped DEF Reconcile, TypeInv, TypeOK
    <2>4. MapIn(L, Mapped)
      <3>1. CASE modules = None
        <4>1. Mapped.list = <<>> /\ Mapped.start = starts /\ starts \in Nat
          BY <3>1 DEF Mapped, TypeInv, TypeOK
        <4>2. QED
          BY <4>1 DEF MapIn
      <3>2. CASE modules # None
        <4>1. Mapped = modules /\ modules \notin {None, Unreadable}
          BY <2>3, <3>2 DEF Mapped, Readable
        <4>2. QED
          BY <2>1, <4>1 DEF History
      <3>3. QED
        BY <3>1, <3>2
    <2>5. \A i \in 1 .. Len(Gathered) : SeenIn(L, Gathered[i])
      <3> DEFINE S == {o \in Observation : SeenIn(L, o)}
      <3>1. ASSUME NEW s \in Sessions, s \in sessions
            PROVE  evidence[s] \in Seq(S)
        <4>1. evidence[s] \in Seq(Observation)
              /\ \A i \in 1 .. Len(evidence[s]) : SeenIn(L, evidence[s][i])
          BY <2>1, <2>3, <3>1 DEF Readable, History, TypeInv, TypeOK
        <4>2. \A i \in 1 .. Len(evidence[s]) : evidence[s][i] \in S
          BY <4>1
        <4>3. QED
          <5> HIDE DEF S
          <5> QED BY <4>1, <4>2
      <3>2. Gathered \in Seq(S)
        <4> HIDE DEF S
        <4> QED BY <3>1, GatheredTyped
      <3>3. ASSUME NEW i \in 1 .. Len(Gathered)
            PROVE  SeenIn(L, Gathered[i])
        <4>1. Gathered[i] \in S
          <5> HIDE DEF S
          <5> QED BY <3>2
        <4>2. QED
          BY <4>1
      <3>4. QED
        BY <3>3
    <2>6. Right(made(candidates))
      BY <2>1, <2>3, <2>4, <2>5, RecordRight
    <2> DEFINE k == [Idle EXCEPT !.at = "results", !.record = made(candidates)]
    <2> HIDE DEF made
    <2>7. k.record = made(candidates) /\ call' = [call EXCEPT ![c] = k]
      BY <2>2 DEF Idle
    <2> HIDE DEF k
    <2>8. reconciled' = reconciled
      BY <1>6 DEF Reconcile
    <2>9. QED
      BY <1>2, <2>6, <2>7, <2>8
  <1>7. ASSUME NEW c \in Calls, SaveResults(c)
        PROVE  RecordsRight'
    <2>1. call' = [call EXCEPT ![c] = Idle] /\ Right(reconciled')
      BY <1>7 DEF SaveResults
    <2>2. QED
      BY <1>2, <2>1, IdleTyped
  <1>8. (\E c \in Calls : ReconcileRaises(c)) \/ Damage \/ Restart \/ Reanalyze
        \/ UNCHANGED vars => UNCHANGED <<reconciled, call>>
    BY DEF ReconcileRaises, Damage, Restart, Reanalyze, vars
  <1>9. ASSUME UNCHANGED <<reconciled, call>>
        PROVE  RecordsRight'
    <2>1. ASSUME NEW d \in Calls, call'[d].at = "results"
          PROVE  Right(call'[d].record)
      <3>1. call'[d] = call[d]
        BY <1>9
      <3>2. Right(call[d].record)
        BY <2>1, <3>1
      <3>3. QED
        BY <3>1, <3>2
    <2>2. reconciled' # None => Right(reconciled')
      BY <1>9
    <2>3. QED
      BY <2>1, <2>2 DEF Right, Resolved, Repeated
  <1>10. QED
    BY <1>3, <1>4, <1>5, <1>6, <1>7, <1>8, <1>9 DEF Next, Step

LEMMA ReconciledInvariant == Spec => [](TypeInv /\ ResolveInv)
  <1>1. Init => TypeInv /\ ResolveInv
    <2> SUFFICES ASSUME Init PROVE TypeInv /\ ResolveInv
      OBVIOUS
    <2>1. RecordsRight
      BY IdleTyped DEF Init, RecordsRight
    <2>2. PICK L \in [0 .. MaxChanges -> Layouts] : L = [i \in 0 .. MaxChanges |-> layout]
      BY DEF Init
    <2>3. L[starts] = layout
      BY <2>2, BoundsAssumption DEF Init
    <2>4. History(L)
      BY <2>3, IdleSeen DEF Init, History
    <2>5. QED
      BY <2>1, <2>4, InitTyped DEF ResolveInv, Remembered
  <1>2. TypeInv /\ ResolveInv /\ [Next]_vars => (TypeInv /\ ResolveInv)'
    BY NextTyped, RememberedKept, RecordsKept DEF ResolveInv
  <1>3. QED
    BY <1>1, <1>2, PTL DEF Spec

\* An observation that reconcile maps to an analysis address with a module map
\* of the same emulator is mapped to the code that ran: whatever was named,
\* placed, damaged or analysed again, and whatever other calls do meanwhile
\* (_find_module, the image_size check of reconcile_observation).
THEOREM MappedIsRight == Spec => []ResolvedToItsPlace
  <1>1. ResolveInv => ResolvedToItsPlace
    BY DEF ResolveInv, RecordsRight, Right, Resolved, ResolvedToItsPlace, Sound
  <1>2. QED
    BY <1>1, ReconciledInvariant, PTL

\* runtime_verified takes an earlier observation of the same place, and a
\* static candidate there (reconciliation.py:193-267), where all observations
\* up to it were made in the emulator that the map is of.
THEOREM VerifiedTwice == Spec => []VerifiedIsRepeated
  <1>1. ResolveInv => VerifiedIsRepeated
    BY DEF ResolveInv, RecordsRight, Right, Repeated, VerifiedIsRepeated
  <1>2. QED
    BY <1>1, ReconciledInvariant, PTL

=============================================================================
