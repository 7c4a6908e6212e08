-------------------------- MODULE GameProjectProofs --------------------------
(***************************************************************************)
(* Proofs about the analysis of a game: no secondary module is placed over *)
(* another module, each is placed at the first address that is free for    *)
(* it, every module is accounted for, the types hold, and every step       *)
(* leaves less of the analysis.                                            *)
(***************************************************************************)
EXTENDS GameProject, FiniteSetTheorems, WellFoundedInduction, TLAPS

\* Until the secondary modules are taken in turn none of them is placed, and
\* only then may nothing be placed that was not looked at for a collision.
PlacedInOrder ==
    /\ stage \in {"idle", "fixed"} => DOMAIN placed = {}
    /\ stage \in {"idle", "fixed", "boot", "more_boots"} =>
          Secondaries \cap DOMAIN placed = {}

PlanInvariant == PlacedInOrder /\ SecondariesKeepClear

\* Two ranges overlap whichever of them is looked at first.
LEMMA OverlapIsSymmetric ==
    ASSUME NEW q, NEW r
    PROVE  Overlaps(q.load, q.end, r) <=> Overlaps(r.load, r.end, q)
BY DEF Overlaps

\* Recording a placement adds one module and leaves the others where they are.
LEMMA RecordAddsOne ==
    ASSUME NEW m, NEW load, NEW claim, Record(m, load, claim)
    PROVE  /\ DOMAIN placed' = DOMAIN placed \cup {m}
           /\ placed'[m] = [load |-> load, end |-> load + Size(inputs[m].image),
                            claim |-> claim]
           /\ \A n \in DOMAIN placed \ {m} : placed'[n] = placed[n]
BY DEF Record

\* A turn of the search that ends keeps the module it places clear of all
\* others, if it is a secondary one.
LEMMA TurnKeepsClear ==
    ASSUME PlanInvariant, Turn
    PROVE  PlanInvariant'
<1>1. PICK m \in Group :
        LET end == candidate + Size(inputs[m].image) IN
        /\ IsNext(m, Group)
        /\ \/ GoOn("raised")
           \/ UNCHANGED <<inputs, stage, placed, cursor>>
           \/ /\ Collisions(candidate, end) = {}
              /\ Record(m, candidate, FALSE)
              /\ UNCHANGED <<inputs, stage>>
  BY DEF Turn
<1>2. stage \in {"more_boots", "secondary"}
  BY DEF Turn
<1>3. CASE GoOn("raised")
  BY <1>3 DEF GoOn, PlanInvariant, PlacedInOrder, SecondariesKeepClear, Secondaries,
     Boots, Fixed, Overlaps
<1>4. CASE UNCHANGED <<inputs, stage, placed, cursor>>
  BY <1>4 DEF PlanInvariant, PlacedInOrder, SecondariesKeepClear, Secondaries,
     Boots, Fixed, Overlaps
<1>5. ASSUME Collisions(candidate, candidate + Size(inputs[m].image)) = {},
             Record(m, candidate, FALSE), UNCHANGED <<inputs, stage>>
      PROVE  PlanInvariant'
  <2>1. Secondaries' = Secondaries
    BY <1>5 DEF Secondaries, Boots, Fixed
  <2>2. /\ DOMAIN placed' = DOMAIN placed \cup {m}
        /\ placed'[m].load = candidate
        /\ placed'[m].end = candidate + Size(inputs[m].image)
        /\ \A n \in DOMAIN placed \ {m} : placed'[n] = placed[n]
        /\ m \notin DOMAIN placed
    <3>1. /\ DOMAIN placed' = DOMAIN placed \cup {m}
          /\ placed'[m] = [load |-> candidate,
                           end |-> candidate + Size(inputs[m].image), claim |-> FALSE]
          /\ \A n \in DOMAIN placed \ {m} : placed'[n] = placed[n]
      BY <1>5, RecordAddsOne
    <3>2. m \notin DOMAIN placed
      BY <1>1 DEF IsNext
    <3>3. QED
      BY <3>1, <3>2
  <2>3. stage = "more_boots" => m \notin Secondaries
    BY <1>1 DEF Group, IsNext, Secondaries
  <2>4. PlacedInOrder'
    BY <1>2, <1>5, <2>1, <2>2, <2>3 DEF PlanInvariant, PlacedInOrder
  <2>5. ASSUME NEW s \in Secondaries' \cap DOMAIN placed', NEW n \in DOMAIN placed' \ {s}
        PROVE  ~Overlaps(placed'[s].load, placed'[s].end, placed'[n])
    <3>1. CASE s # m /\ n # m
      BY <2>1, <2>2, <2>5, <3>1 DEF PlanInvariant, SecondariesKeepClear
    <3>2. CASE s = m \/ n = m
      <4>1. stage = "secondary"
        BY <1>2, <2>1, <2>2, <2>3, <2>5, <3>2 DEF PlanInvariant, PlacedInOrder
      <4>2. ASSUME NEW o \in DOMAIN placed
            PROVE  ~Overlaps(placed'[m].load, placed'[m].end, placed'[o])
        BY <1>5, <2>2, <4>1, <4>2 DEF Collisions, Occupied
      <4>3. QED
        BY <2>2, <2>5, <3>2, <4>2, OverlapIsSymmetric
    <3>3. QED
      BY <3>1, <3>2
  <2>6. SecondariesKeepClear'
    BY <2>5, <1>5 DEF SecondariesKeepClear, Overlaps
  <2>7. QED
    BY <2>4, <2>6 DEF PlanInvariant
<1>6. QED
  BY <1>1, <1>3, <1>4, <1>5

\* The steps of the plan keep its invariant.
LEMMA PlanKeepsClear ==
    ASSUME PlanInvariant, Plan
    PROVE  PlanInvariant'
<1> USE DEF PlanInvariant, PlacedInOrder
<1>1. CASE PlaceFixed
  <2>1. Secondaries' = Secondaries /\ DOMAIN placed' = Fixed /\ stage' = "boot"
    BY <1>1 DEF PlaceFixed, Secondaries, Boots, Fixed
  <2>2. Secondaries \cap Fixed = {}
    BY DEF Secondaries
  <2>3. QED
    BY <2>1, <2>2 DEF SecondariesKeepClear
<1>2. CASE PlaceBoot
  <2>1. CASE GoOn("secondary")
    <3>1. Secondaries \cap DOMAIN placed = {}
      BY <1>2 DEF PlaceBoot
    <3>2. stage' = "secondary" /\ Secondaries' = Secondaries /\ placed' = placed
      BY <2>1 DEF GoOn, Secondaries, Boots, Fixed
    <3>3. QED
      BY <3>1, <3>2 DEF SecondariesKeepClear
  <2>2. ASSUME NEW m \in Boots, NEW load, Record(m, load, TRUE), stage = "boot",
               stage' = "more_boots", UNCHANGED inputs
        PROVE  PlanInvariant'
    <3>1. Secondaries' = Secondaries /\ DOMAIN placed' = DOMAIN placed \cup {m}
      BY <2>2, RecordAddsOne DEF Secondaries, Boots, Fixed
    <3>2. Secondaries' \cap DOMAIN placed' = {}
      BY <2>2, <3>1 DEF Secondaries
    <3>3. QED
      BY <2>2, <3>2 DEF SecondariesKeepClear
  <2>3. QED
    BY <1>2, <2>1, <2>2 DEF PlaceBoot
<1>3. CASE Search
  BY <1>3 DEF Search, SecondariesKeepClear, Secondaries, Boots, Fixed, Overlaps
<1>4. CASE Turn
  BY <1>4, TurnKeepsClear
<1>5. CASE NextGroup
  BY <1>5 DEF NextGroup, GoOn, SecondariesKeepClear, Secondaries, Boots, Fixed, Overlaps
<1>6. QED
  BY <1>1, <1>2, <1>3, <1>4, <1>5 DEF Plan

\* A plan begins with nothing placed.
LEMMA BeginKeepsClear ==
    ASSUME PlanInvariant, NEW given, Begin(given)
    PROVE  PlanInvariant'
BY DEF Begin, PlanInvariant, PlacedInOrder, SecondariesKeepClear

\* What leaves the plan alone leaves its invariant alone.
LEMMA PlanUnchanged ==
    ASSUME PlanInvariant, UNCHANGED planVars
    PROVE  PlanInvariant'
BY DEF planVars, PlanInvariant, PlacedInOrder, SecondariesKeepClear, Secondaries, Boots,
   Fixed, Overlaps

\* No secondary module is ever placed over another module, for any images,
\* any number of boot modules and any failures of the first pass
\* (placement.py, plan_module_placements).
THEOREM SecondariesClear == Spec => []SecondariesKeepClear
<1>1. Init => PlanInvariant
  BY DEF Init, PlanInit, PlanInvariant, PlacedInOrder, SecondariesKeepClear
<1>2. PlanInvariant /\ [Next]_vars => PlanInvariant'
  <2> SUFFICES ASSUME PlanInvariant, [Next]_vars PROVE PlanInvariant'
    OBVIOUS
  <2>1. CASE UNCHANGED vars
    BY <2>1, PlanUnchanged DEF vars
  <2>2. CASE Scan \/ ScanFails \/ PlanEnds \/ PlanRaises \/ EngineMissing \/ LinkAll
    BY <2>2, PlanUnchanged DEF Scan, ScanFails, PlanEnds, PlanRaises, EngineMissing, LinkAll,
       Abort
  <2>3. ASSUME NEW m \in Modules,
               Unreadable(m) \/ Readable(m) \/ NotRecovered(m) \/ Recovered(m)
        PROVE  PlanInvariant'
    <3>1. UNCHANGED planVars
      BY <2>3 DEF Unreadable, Readable, NotRecovered, Recovered, Fails, Prepare,
         StaysEncrypted, Keep
    <3>2. QED
      BY <3>1, PlanUnchanged
  <2>4. ASSUME NEW m \in Modules, Disassemble(m) \/ NotDisassembled(m) \/ Escapes(m)
        PROVE  PlanInvariant'
    BY <2>4, PlanUnchanged DEF Disassemble, NotDisassembled, Escapes, Fails, Abort
  <2>5. CASE PlanBegins
    BY <2>5, BeginKeepsClear, PlanUnchanged DEF PlanBegins
  <2>6. CASE PlanGoesOn
    BY <2>6, PlanKeepsClear DEF PlanGoesOn
  <2>7. QED
    BY <2>1, <2>2, <2>3, <2>4, <2>5, <2>6 DEF Next
<1>3. PlanInvariant => SecondariesKeepClear
  BY DEF PlanInvariant
<1>4. QED
  BY <1>1, <1>2, <1>3, PTL DEF Spec

-----------------------------------------------------------------------------
(* The records *)

\* A module of the game is still to be taken, or prepared, or on record; those
\* on record are linked or have failed.
Accounted ==
    /\ phase = "scan" => DOMAIN records = {} /\ DOMAIN prepared = {}
    /\ phase = "scan" => units = {} /\ trouble = {}
    /\ phase \in {"first", "plan"} =>
          /\ todo \cup DOMAIN prepared \cup DOMAIN records = Candidates
          /\ todo \cap (DOMAIN prepared \cup DOMAIN records) = {}
          /\ DOMAIN prepared \cap DOMAIN records = {}
          /\ units = {} /\ trouble = DOMAIN records
          /\ \A m \in DOMAIN records : records[m].status \notin Analyzed
    /\ phase = "plan" => todo = {}
    /\ phase \in {"second", "done"} =>
          /\ todo \cup DOMAIN records = Candidates
          /\ todo \cap DOMAIN records = {}
          /\ units = {m \in DOMAIN records : records[m].status \in Analyzed}
          /\ trouble = DOMAIN records \ units
    /\ phase = "done" => todo = {}

\* With adds one value and keeps the others.
LEMMA WithAddsOne ==
    ASSUME NEW f, NEW m, NEW value
    PROVE  /\ DOMAIN With(f, m, value) = DOMAIN f \cup {m}
           /\ With(f, m, value)[m] = value
           /\ \A n \in DOMAIN f \ {m} : With(f, m, value)[n] = f[n]
BY DEF With

\* A note puts one more module on record.
LEMMA NoteAddsOne ==
    ASSUME NEW m, NEW status, NEW from, NEW outcome, NEW placed_,
           Note(m, status, from, outcome, placed_)
    PROVE  /\ DOMAIN records' = DOMAIN records \cup {m}
           /\ records'[m].status = status
           /\ \A n \in DOMAIN records \ {m} : records'[n] = records[n]
<1> DEFINE record == [status |-> status, from |-> from, outcome |-> outcome,
                      placed |-> placed_]
<1>1. records' = With(records, m, record)
  BY DEF Note
<1>2. record.status = status
  OBVIOUS
<1> HIDE DEF record
<1>3. /\ DOMAIN records' = DOMAIN records \cup {m}
      /\ records'[m] = record
      /\ \A n \in DOMAIN records \ {m} : records'[n] = records[n]
  BY <1>1 DEF With
<1>4. QED
  BY <1>2, <1>3

\* Which files are executables is settled by the scan.
LEMMA CandidatesStay ==
    ASSUME UNCHANGED magic PROVE Candidates' = Candidates
BY DEF Candidates, Classification, BootName, Usable

\* In the first pass a module fails or stays encrypted, or is prepared.
LEMMA FirstPassAccounts ==
    ASSUME Accounted, NEW m \in todo, phase = "first", UNCHANGED <<magic, phase, units>>,
           todo' = todo \ {m},
           \/ /\ \E status \in {"failed", "needs_decryption"} : \E from, outcome :
                    Note(m, status, from, outcome, FALSE)
              /\ trouble' = trouble \cup {m} /\ UNCHANGED prepared
           \/ /\ \E image : prepared' = With(prepared, m, image)
              /\ UNCHANGED <<records, trouble>>
    PROVE  Accounted'
<1>1. Candidates' = Candidates
  BY CandidatesStay
<1>2. /\ todo \cup DOMAIN prepared \cup DOMAIN records = Candidates
      /\ todo \cap (DOMAIN prepared \cup DOMAIN records) = {}
      /\ DOMAIN prepared \cap DOMAIN records = {}
      /\ units = {} /\ trouble = DOMAIN records
      /\ \A n \in DOMAIN records : records[n].status \notin Analyzed
  BY DEF Accounted
<1>3. ASSUME NEW status \in {"failed", "needs_decryption"}, NEW from, NEW outcome,
             Note(m, status, from, outcome, FALSE),
             trouble' = trouble \cup {m}, UNCHANGED prepared
      PROVE  Accounted'
  <2>1. /\ DOMAIN records' = DOMAIN records \cup {m}
        /\ records'[m].status = status
        /\ \A n \in DOMAIN records \ {m} : records'[n] = records[n]
    BY <1>3, NoteAddsOne
  <2>2. \A n \in DOMAIN records' : records'[n].status \notin Analyzed
    BY <1>2, <1>3, <2>1 DEF Analyzed
  <2>3. QED
    BY <1>1, <1>2, <1>3, <2>1, <2>2 DEF Accounted
<1>4. ASSUME NEW image, prepared' = With(prepared, m, image), UNCHANGED <<records, trouble>>
      PROVE  Accounted'
  <2>1. DOMAIN prepared' = DOMAIN prepared \cup {m}
    BY <1>4, WithAddsOne
  <2>2. QED
    BY <1>1, <1>2, <1>4, <2>1 DEF Accounted
<1>5. QED
  BY <1>3, <1>4

\* In the second pass a module fails, or is linked and so recorded.
LEMMA SecondPassAccounts ==
    ASSUME Accounted, NEW m \in todo, phase = "second", UNCHANGED <<magic, phase, prepared>>,
           todo' = todo \ {m}, NEW status, NEW from, NEW outcome,
           Note(m, status, from, outcome, TRUE),
           \/ status \in Analyzed /\ units' = units \cup {m} /\ trouble' = trouble
           \/ status = "failed" /\ units' = units /\ trouble' = trouble \cup {m}
    PROVE  Accounted'
<1>1. Candidates' = Candidates
  BY CandidatesStay
<1>2. /\ todo \cup DOMAIN records = Candidates
      /\ todo \cap DOMAIN records = {}
      /\ units = {n \in DOMAIN records : records[n].status \in Analyzed}
      /\ trouble = DOMAIN records \ units
  BY DEF Accounted
<1>3. /\ DOMAIN records' = DOMAIN records \cup {m}
      /\ records'[m].status = status
      /\ \A n \in DOMAIN records \ {m} : records'[n] = records[n]
  BY NoteAddsOne
<1>4. m \notin DOMAIN records /\ "failed" \notin Analyzed
  BY <1>2 DEF Analyzed
<1>5. units' = {n \in DOMAIN records' : records'[n].status \in Analyzed}
  BY <1>2, <1>3, <1>4
<1>6. trouble' = DOMAIN records' \ units'
  BY <1>2, <1>3, <1>4
<1>7. QED
  BY <1>1, <1>2, <1>3, <1>5, <1>6 DEF Accounted

\* What leaves the passes alone leaves the account alone.
LEMMA AccountUnchanged ==
    ASSUME Accounted, UNCHANGED <<magic, phase, todo, records, prepared, units, trouble>>
    PROVE  Accounted'
BY CandidatesStay DEF Accounted

\* Every executable of a game that was analyzed to its end has one record, is
\* linked exactly if that says analyzed, and is analyzed unless a step of its
\* own failed (game_project.py, generate_game_project).
THEOREM ModulesAccounted == Spec => []EveryModuleAccounted
<1>1. Init => Accounted
  BY DEF Init, Accounted
<1>2. Accounted /\ [Next]_vars => Accounted'
  <2> SUFFICES ASSUME Accounted, [Next]_vars PROVE Accounted'
    OBVIOUS
  <2>1. CASE UNCHANGED vars
    BY <2>1, AccountUnchanged DEF vars, gameVars
  <2>2. CASE Scan
    BY <2>2, CandidatesStay DEF Scan, Accounted
  <2>3. CASE ScanFails \/ PlanRaises \/ EngineMissing
    BY <2>3 DEF ScanFails, PlanRaises, EngineMissing, Abort, Accounted
  <2>4. ASSUME NEW m \in Modules, Unreadable(m) \/ Readable(m)
        PROVE  Accounted'
    BY <2>4, FirstPassAccounts DEF Unreadable, Readable, IsFirst, Fails, Prepare
  <2>5. ASSUME NEW m \in Modules, NotRecovered(m)
        PROVE  Accounted'
    BY <2>5, FirstPassAccounts DEF NotRecovered, IsFirst, StaysEncrypted
  <2>6. ASSUME NEW m \in Modules, Recovered(m)
        PROVE  Accounted'
    BY <2>6, FirstPassAccounts DEF Recovered, IsFirst, Keep, Fails, Prepare
  <2>7. CASE PlanBegins
    BY <2>7, CandidatesStay DEF PlanBegins, Accounted
  <2>8. CASE PlanGoesOn
    BY <2>8, AccountUnchanged DEF PlanGoesOn, gameVars
  <2>9. CASE PlanEnds
    BY <2>9, CandidatesStay DEF PlanEnds, Accounted
  <2>10. ASSUME NEW m \in Modules, Disassemble(m)
         PROVE  Accounted'
    BY <2>10, SecondPassAccounts DEF Disassemble, IsFirst, Analyzed
  <2>11. ASSUME NEW m \in Modules, NotDisassembled(m)
         PROVE  Accounted'
    BY <2>11, SecondPassAccounts DEF NotDisassembled, IsFirst, Fails
  <2>12. ASSUME NEW m \in Modules, Escapes(m)
         PROVE  Accounted'
    BY <2>12 DEF Escapes, Abort, Accounted
  <2>13. CASE LinkAll
    BY <2>13, CandidatesStay DEF LinkAll, Abort, Accounted
  <2>14. QED
    BY <2>1, <2>2, <2>3, <2>4, <2>5, <2>6, <2>7, <2>8, <2>9, <2>10, <2>11, <2>12, <2>13
       DEF Next
<1>3. Accounted => EveryModuleAccounted
  BY DEF Accounted, EveryModuleAccounted
<1>4. QED
  BY <1>1, <1>2, <1>3, PTL DEF Spec

-----------------------------------------------------------------------------
(* Numbers *)

\* Of some numbers one is the least.
LEMMA LeastNumber ==
    ASSUME NEW T, T \subseteq Nat, T # {}
    PROVE  \E x \in T : \A y \in T : x <= y
<1> DEFINE Less == {ss \in Nat \X Nat : ss[1] < ss[2]}
<1>1. IsWellFoundedOn(Less, Nat)
  BY NatLessThanWellFounded DEF OpToRel
<1>2. \E x \in T : \A y \in T : ~ (<<y, x>> \in Less)
  <2> HIDE DEF Less
  <2> QED
    BY <1>1, WFMin
<1>3. PICK x \in T : \A y \in T : ~ (<<y, x>> \in Less)
  BY <1>2
<1>4. ASSUME NEW y \in T, y < x PROVE FALSE
  <2>1. <<y, x>> \in Less
    BY <1>4
  <2>2. QED
    BY <2>1, <1>3
<1>5. QED
  BY <1>4

\* Of some numbers up to a bound one is the greatest.
LEMMA GreatestNumber ==
    ASSUME NEW b \in Nat, NEW T, T \subseteq 0 .. b, T # {}
    PROVE  \E x \in T : \A y \in T : y <= x
<1>1. {b - x : x \in T} \subseteq Nat /\ {b - x : x \in T} # {}
  <2>1. \A x \in T : b - x \in Nat
    OBVIOUS
  <2>2. PICK x : x \in T
    OBVIOUS
  <2>3. b - x \in {b - y : y \in T}
    BY <2>2
  <2>4. QED
    BY <2>1, <2>3
<1>2. PICK d \in {b - x : x \in T} : \A e \in {b - x : x \in T} : d <= e
  BY <1>1, LeastNumber
<1>3. PICK x \in T : d = b - x
  BY <1>2
<1>4. \A y \in T : y <= x
  <2> SUFFICES ASSUME NEW y \in T PROVE y <= x
    OBVIOUS
  <2>1. d <= b - y
    BY <1>2
  <2>2. QED
    BY <1>3, <2>1
<1>5. QED
  BY <1>4

\* _align_up gives the first aligned number that is not below.
LEMMA AlignUpIsNext ==
    ASSUME NEW v \in Nat, NEW n \in Nat \ {0}
    PROVE  /\ AlignUp(v, n) \in Nat /\ v <= AlignUp(v, n)
           /\ \A a \in Int : v <= a /\ a % n = 0 => AlignUp(v, n) <= a
<1> DEFINE x == v + n - 1
<1> DEFINE q == x \div n
<1>1. x \in Int /\ q \in Nat /\ x % n = x - n * q /\ 0 <= x % n /\ x % n < n
  <2>1. x \in Nat
    OBVIOUS
  <2>2. q \in Nat
    BY <2>1
  <2>3. x % n = x - n * q
    BY <2>1
  <2>4. 0 <= x % n /\ x % n < n
    BY <2>1
  <2>5. QED
    BY <2>1, <2>2, <2>3, <2>4
<1>2. AlignUp(v, n) = q * n
  BY DEF AlignUp
<1> HIDE DEF q
<1>3. n * q \in Nat /\ q * n = n * q
  BY <1>1
<1>4. v <= n * q /\ n * q <= v + n - 1
  BY <1>1, <1>3
<1>5. ASSUME NEW a \in Int, v <= a, a % n = 0 PROVE n * q <= a
  <2>1. a \div n \in Int
    OBVIOUS
  <2>2. a % n = a - n * (a \div n)
    OBVIOUS
  <2>3. PICK p \in Int : p = a \div n
    BY <2>1
  <2>4. a = n * p
    BY <1>5, <2>2, <2>3
  <2>5. CASE q <= p
    <3>1. n * q <= n * p
      BY <1>1, <2>5
    <3>2. QED
      BY <2>4, <3>1
  <2>6. CASE p < q
    <3>1. n * p + n <= n * q
      BY <1>1, <2>6
    <3>2. QED
      BY <1>3, <1>4, <1>5, <2>4, <3>1
  <2>7. QED
    BY <1>1, <2>5, <2>6
<1>6. QED
  BY <1>2, <1>3, <1>4, <1>5

-----------------------------------------------------------------------------
(* The layout of an image *)

\* An image with a segment has a layout: the addresses of its segments are words.
LEMMA LayoutTyped ==
    ASSUME NEW image \in Image, image.segments # {}
    PROVE  /\ Base(image) \in Nat /\ Top(image) \in Nat /\ Base(image) < Top(image)
           /\ Size(image) \in Nat /\ Alignment(image) \in Nat \ {0}
<1>0. Limit \in Nat /\ Grain \in Nat \ {0} /\ image.segments \subseteq Segment
  BY SpaceAssumption DEF Image
<1>1. \A s \in image.segments :
          /\ s.vaddr \in Nat /\ s.memsz \in Nat \ {0}
          /\ s.vaddr + s.memsz \in 0 .. 2 * Limit
          /\ s.align \in 0 .. Limit
  BY <1>0 DEF Segment
<1>2. Base(image) \in {s.vaddr : s \in image.segments}
      /\ \A s \in image.segments : Base(image) <= s.vaddr
  <2> DEFINE T == {s.vaddr : s \in image.segments}
  <2>1. T \subseteq Nat /\ T # {}
    BY <1>1
  <2>2. PICK b \in T : \A c \in T : b <= c
    BY <2>1, LeastNumber
  <2>3. b \in T /\ \A s \in image.segments : b <= s.vaddr
    BY <2>2
  <2>4. QED
    BY <2>3 DEF Base
<1>3. Top(image) \in {s.vaddr + s.memsz : s \in image.segments}
      /\ \A s \in image.segments : s.vaddr + s.memsz <= Top(image)
  <2> DEFINE T == {s.vaddr + s.memsz : s \in image.segments}
  <2>1. T \subseteq 0 .. 2 * Limit /\ T # {} /\ 2 * Limit \in Nat
    BY <1>0, <1>1
  <2>2. PICK b \in T : \A c \in T : c <= b
    BY <2>1, GreatestNumber
  <2>3. b \in T /\ \A s \in image.segments : s.vaddr + s.memsz <= b
    BY <2>2
  <2>4. QED
    BY <2>3 DEF Top
<1>4. Alignment(image) \in Nat \ {0}
  <2> DEFINE T == {Grain} \cup {Asked(s) : s \in image.segments}
  <2>1. \A s \in image.segments : Asked(s) \in 0 .. Limit + Grain
    BY <1>0, <1>1 DEF Asked
  <2>2. T \subseteq 0 .. Limit + Grain /\ T # {} /\ Limit + Grain \in Nat
    BY <1>0, <2>1
  <2>3. PICK a \in T : \A c \in T : c <= a
    BY <2>2, GreatestNumber
  <2>4. a \in T /\ a >= Grain /\ \A s \in image.segments : a >= Asked(s)
    BY <1>0, <2>1, <2>2, <2>3
  <2>5. Alignment(image) \in T /\ Alignment(image) >= Grain
    BY <2>4 DEF Alignment
  <2>6. QED
    BY <1>0, <2>2, <2>5
<1>5. Base(image) < Top(image) /\ Base(image) \in Nat /\ Top(image) \in Nat
  <2>1. PICK s \in image.segments : Base(image) = s.vaddr
    BY <1>2
  <2>2. PICK t \in image.segments : Top(image) = t.vaddr + t.memsz
    BY <1>3
  <2>3. s.vaddr + s.memsz <= Top(image)
    BY <1>3
  <2>4. QED
    BY <1>1, <2>1, <2>2, <2>3
<1>6. QED
  BY <1>4, <1>5 DEF Size

-----------------------------------------------------------------------------
(* The types of a plan, and where a search has been *)

PlanTypes ==
    /\ PlanTypeOK
    /\ \A m \in DOMAIN inputs : HasLayout(inputs[m].image)
    /\ stage \in {"idle", "fixed"} => DOMAIN placed = {}

\* The image of a module to be placed.
LEMMA InputTyped ==
    ASSUME PlanTypes, NEW m \in DOMAIN inputs
    PROVE  LET image == inputs[m].image IN
           /\ image \in Images
           /\ Base(image) \in Nat /\ Top(image) \in Nat /\ Base(image) < Top(image)
           /\ Size(image) \in Nat /\ Alignment(image) \in Nat \ {0}
<1>1. inputs[m] \in [image: Images, boot: BOOLEAN] /\ HasLayout(inputs[m].image)
  BY DEF PlanTypes, PlanTypeOK
<1>2. inputs[m].image \in Image /\ inputs[m].image \in Images
  BY <1>1, ImagesAssumption
<1>3. inputs[m].image.segments # {}
  BY <1>1 DEF HasLayout
<1>4. QED
  BY <1>2, <1>3, LayoutTyped

\* Only modules of the plan are placed.
LEMMA GroupIsOfInputs == Group \subseteq DOMAIN inputs /\ Fixed \subseteq DOMAIN inputs
BY DEF Group, Boots, Secondaries, Fixed

\* The first collision in order is one.
LEMMA FirstCollides ==
    ASSUME PlanTypes, NEW start, NEW end, Collisions(start, end) # {}
    PROVE  /\ FirstCollision(start, end) \in Collisions(start, end)
           /\ FirstCollision(start, end) \in Placed
<1> DEFINE C == Collisions(start, end)
<1>1. C \subseteq Placed
  BY DEF Collisions, Occupied, PlanTypes, PlanTypeOK
<1>2. C # {}
  OBVIOUS
<1>3. C = Collisions(start, end)
  OBVIOUS
<1> HIDE DEF C
<1>4. {r.load : r \in C} \subseteq Nat /\ {r.load : r \in C} # {}
  BY <1>1, <1>2 DEF Placed
<1>5. PICK l \in {r.load : r \in C} : \A k \in {r.load : r \in C} : l <= k
  BY <1>4, LeastNumber
<1> DEFINE D == {r \in C : r.load = l}
<1>6. {r.end : r \in D} \subseteq Nat /\ {r.end : r \in D} # {}
  BY <1>1, <1>5 DEF Placed
<1>7. PICK e \in {r.end : r \in D} : \A k \in {r.end : r \in D} : e <= k
  <2> HIDE DEF D
  <2> QED
    BY <1>6, LeastNumber
<1>8. PICK r \in C : r.load = l /\ r.end = e
  BY <1>7
<1>9. ASSUME NEW o \in C PROVE r.load < o.load \/ (r.load = o.load /\ r.end <= o.end)
  <2>1. l <= o.load /\ l \in Nat /\ o.load \in Nat
    BY <1>1, <1>4, <1>5 DEF Placed
  <2>2. CASE l = o.load
    <3>1. e <= o.end
      BY <1>7, <2>2
    <3>2. QED
      BY <1>8, <2>2, <3>1
  <2>3. QED
    BY <1>8, <2>1, <2>2
<1>10. FirstCollision(start, end) \in C
  BY <1>3, <1>8, <1>9 DEF FirstCollision
<1>11. QED
  BY <1>1, <1>3, <1>10

\* Recording a placement keeps the types.
LEMMA RecordTyped ==
    ASSUME PlanTypes, NEW m \in DOMAIN inputs, NEW load \in Nat, NEW claim \in BOOLEAN,
           Record(m, load, claim)
    PROVE  /\ DOMAIN placed' \subseteq DOMAIN inputs
           /\ \A n \in DOMAIN placed' : placed'[n] \in Placed
<1>1. /\ DOMAIN placed' = DOMAIN placed \cup {m}
      /\ placed'[m] = [load |-> load, end |-> load + Size(inputs[m].image), claim |-> claim]
      /\ \A n \in DOMAIN placed \ {m} : placed'[n] = placed[n]
  BY RecordAddsOne
<1>2. Size(inputs[m].image) \in Nat
  BY InputTyped
<1>3. placed'[m] \in Placed
  BY <1>1, <1>2 DEF Placed
<1>4. QED
  BY <1>1, <1>3 DEF PlanTypes, PlanTypeOK

\* The steps of the plan keep its types.
LEMMA PlanTyped ==
    ASSUME PlanTypes, Plan
    PROVE  PlanTypes'
<1> USE DEF PlanTypes, PlanTypeOK
<1>0. First \in Nat /\ cursor \in Nat
  BY SpaceAssumption
<1>1. CASE PlaceFixed
  <2>1. \A m \in Fixed : Base(inputs[m].image) \in Nat /\ Top(inputs[m].image) \in Nat
    BY InputTyped, GroupIsOfInputs
  <2>2. /\ DOMAIN placed' = Fixed
        /\ \A m \in Fixed : placed'[m] = [load |-> Base(inputs[m].image),
                                          end |-> Top(inputs[m].image), claim |-> TRUE]
    BY <1>1 DEF PlaceFixed
  <2>3. ASSUME NEW m \in DOMAIN placed' PROVE placed'[m] \in Placed
    <3>1. Base(inputs[m].image) \in Nat /\ Top(inputs[m].image) \in Nat /\ m \in Fixed
      BY <2>1, <2>2
    <3>2. placed'[m] = [load |-> Base(inputs[m].image), end |-> Top(inputs[m].image),
                        claim |-> TRUE]
      BY <2>2, <3>1
    <3>3. QED
      BY <3>1, <3>2 DEF Placed
  <2>4. QED
    BY <1>1, <2>2, <2>3, GroupIsOfInputs DEF PlaceFixed
<1>2. CASE PlaceBoot
  <2>1. CASE GoOn("secondary")
    BY <1>2, <2>1 DEF GoOn
  <2>2. ASSUME NEW m \in Boots,
               Record(m, AlignUp(First, Alignment(inputs[m].image)), TRUE),
               cursor' = AlignUp(First, Alignment(inputs[m].image)) + Size(inputs[m].image),
               stage' = "more_boots", UNCHANGED <<inputs, candidate>>
        PROVE  PlanTypes'
    <3>1. m \in DOMAIN inputs
      BY DEF Boots
    <3>2. /\ Alignment(inputs[m].image) \in Nat \ {0} /\ Size(inputs[m].image) \in Nat
      BY <3>1, InputTyped
    <3>3. AlignUp(First, Alignment(inputs[m].image)) \in Nat
      BY <1>0, <3>2, AlignUpIsNext
    <3>4. /\ DOMAIN placed' \subseteq DOMAIN inputs
          /\ \A n \in DOMAIN placed' : placed'[n] \in Placed
      BY <2>2, <3>1, <3>3, RecordTyped
    <3>5. cursor' \in Nat
      BY <2>2, <3>2, <3>3
    <3>6. QED
      BY <2>2, <3>4, <3>5
  <2>3. QED
    BY <1>2, <2>1, <2>2 DEF PlaceBoot
<1>3. CASE Search
  <2>1. PICK m \in Group : candidate' = AlignUp(cursor, Alignment(inputs[m].image))
    BY <1>3 DEF Search
  <2>2. Alignment(inputs[m].image) \in Nat \ {0}
    BY InputTyped, GroupIsOfInputs
  <2>3. candidate' \in Nat
    BY <1>0, <2>1, <2>2, AlignUpIsNext
  <2>4. QED
    BY <1>3, <2>3 DEF Search
<1>4. CASE Turn
  <2>1. PICK m \in Group :
          LET image == inputs[m].image
              end == candidate + Size(image)
          IN  \/ GoOn("raised")
              \/ /\ Collisions(candidate, end) # {}
                 /\ candidate' = AlignUp(FirstCollision(candidate, end).end, Alignment(image))
                 /\ UNCHANGED <<inputs, stage, placed, cursor>>
              \/ /\ Record(m, candidate, FALSE)
                 /\ cursor' = end /\ candidate' = -1
                 /\ UNCHANGED <<inputs, stage>>
    BY <1>4 DEF Turn
  <2>2. m \in DOMAIN inputs /\ candidate \in Nat /\ stage \in {"more_boots", "secondary"}
    BY <1>4, GroupIsOfInputs DEF Turn
  <2>3. Alignment(inputs[m].image) \in Nat \ {0} /\ Size(inputs[m].image) \in Nat
    BY <2>2, InputTyped
  <2>4. CASE GoOn("raised")
    BY <2>4 DEF GoOn
  <2>5. ASSUME NEW r, r = FirstCollision(candidate, candidate + Size(inputs[m].image)),
               Collisions(candidate, candidate + Size(inputs[m].image)) # {},
               candidate' = AlignUp(r.end, Alignment(inputs[m].image)),
               UNCHANGED <<inputs, stage, placed, cursor>>
        PROVE  PlanTypes'
    <3>1. r.end \in Nat
      BY <2>5, FirstCollides DEF Placed
    <3>2. candidate' \in Nat
      BY <2>3, <2>5, <3>1, AlignUpIsNext
    <3>3. QED
      BY <2>5, <3>2
  <2>6. ASSUME Record(m, candidate, FALSE),
               cursor' = candidate + Size(inputs[m].image), candidate' = -1,
               UNCHANGED <<inputs, stage>>
        PROVE  PlanTypes'
    <3>1. /\ DOMAIN placed' \subseteq DOMAIN inputs
          /\ \A n \in DOMAIN placed' : placed'[n] \in Placed
      BY <2>2, <2>6, RecordTyped
    <3>2. cursor' \in Nat
      BY <2>2, <2>3, <2>6
    <3>3. QED
      BY <2>2, <2>6, <3>1, <3>2
  <2>7. QED
    BY <2>1, <2>4, <2>5, <2>6
<1>5. CASE NextGroup
  BY <1>5 DEF NextGroup, GoOn
<1>6. QED
  BY <1>1, <1>2, <1>3, <1>4, <1>5 DEF Plan

-----------------------------------------------------------------------------
(* The first fit *)

\* While a search is on, it is for the first module that is not placed, and
\* every aligned address it has passed collides.
Passed(m) ==
    \A a \in cursor .. candidate - 1 :
        a % Alignment(inputs[m].image) = 0
        => Collisions(a, a + Size(inputs[m].image)) # {}

Searched ==
    candidate # -1 /\ stage # "raised" =>
        /\ stage \in {"more_boots", "secondary"}
        /\ \E m \in Group : IsNext(m, Group) /\ Passed(m)

\* What the step of a plan may do to the secondary modules.
TakesFirstFit ==
    \A m \in (DOMAIN placed' \ DOMAIN placed) \cap Secondaries :
        \A a \in cursor .. placed'[m].load - 1 :
            a % Alignment(inputs[m].image) = 0
            => Collisions(a, a + Size(inputs[m].image)) # {}

\* No two modules are next: the order of the paths is total.
LEMMA NextIsOne ==
    ASSUME PlanTypes, NEW m, NEW n, IsNext(m, Group), IsNext(n, Group)
    PROVE  m = n
<1>1. m \in Modules /\ n \in Modules
  BY GroupIsOfInputs DEF IsNext, PlanTypes, PlanTypeOK
<1>2. Rank[m] <= Rank[n] /\ Rank[n] <= Rank[m] /\ Rank[m] \in Nat /\ Rank[n] \in Nat
  BY <1>1, RankAssumption DEF IsNext
<1>3. QED
  BY <1>1, <1>2, RankAssumption

\* A search starts at the first aligned address, so it has passed none.
LEMMA SearchBegins ==
    ASSUME PlanTypes, Search
    PROVE  Searched'
<1>1. PICK m \in Group :
          IsNext(m, Group) /\ candidate' = AlignUp(cursor, Alignment(inputs[m].image))
  BY DEF Search
<1>2. /\ stage \in {"more_boots", "secondary"} /\ UNCHANGED <<inputs, stage, placed, cursor>>
      /\ cursor \in Nat
  BY DEF Search, PlanTypes, PlanTypeOK
<1> DEFINE n == Alignment(inputs[m].image)
<1>3. n \in Nat \ {0} /\ candidate' = AlignUp(cursor, n)
  BY <1>1, InputTyped, GroupIsOfInputs
<1> HIDE DEF n
<1>4. ASSUME NEW a \in cursor .. candidate' - 1, a % n = 0
      PROVE  FALSE
  <2>1. candidate' \in Nat /\ \A b \in Int :
            cursor <= b /\ b % n = 0 => candidate' <= b
    BY <1>2, <1>3, AlignUpIsNext
  <2>2. a \in Int /\ cursor <= a /\ a < candidate'
    BY <1>2, <1>3, <1>4, <2>1
  <2>3. QED
    BY <1>4, <2>1, <2>2
<1>5. Passed(m)'
  BY <1>2, <1>4 DEF Passed, n
<1>6. m \in Group' /\ IsNext(m, Group)'
  BY <1>1, <1>2 DEF Group, IsNext, Boots, Secondaries, Fixed
<1>7. QED
  BY <1>2, <1>5, <1>6 DEF Searched

\* A collision is in the way of every aligned address up to where the search
\* goes on.
LEMMA SearchGoesOn ==
    ASSUME PlanTypes, candidate \in Nat, stage \in {"more_boots", "secondary"},
           NEW m \in Group, IsNext(m, Group), Passed(m),
           NEW r, r = FirstCollision(candidate, candidate + Size(inputs[m].image)),
           Collisions(candidate, candidate + Size(inputs[m].image)) # {},
           candidate' = AlignUp(r.end, Alignment(inputs[m].image)),
           UNCHANGED <<inputs, stage, placed, cursor>>
    PROVE  Searched'
<1> DEFINE n == Alignment(inputs[m].image)
<1> DEFINE s == Size(inputs[m].image)
<1>1. n \in Nat \ {0} /\ s \in Nat /\ cursor \in Nat
  BY InputTyped, GroupIsOfInputs DEF PlanTypes, PlanTypeOK
<1>2. /\ r \in Occupied /\ Overlaps(candidate, candidate + s, r)
      /\ r.load \in Nat /\ r.end \in Nat
  BY FirstCollides DEF Collisions, Placed
<1>3. candidate' \in Nat /\ \A b \in Int : r.end <= b /\ b % n = 0 => candidate' <= b
  BY <1>1, <1>2, AlignUpIsNext
<1>4. Passed(m) <=> \A a \in cursor .. candidate - 1 : a % n = 0 => Collisions(a, a + s) # {}
  BY DEF Passed
<1> HIDE DEF n, s
<1>5. ASSUME NEW a \in cursor .. candidate' - 1, a % n = 0
      PROVE  Collisions(a, a + s) # {}
  <2>1. CASE a < candidate
    BY <1>1, <1>4, <1>5, <2>1
  <2>2. CASE candidate <= a
    <3>1. a \in Int /\ a < candidate'
      BY <1>1, <1>3, <1>5
    <3>2. a < r.end
      BY <1>2, <1>3, <1>5, <3>1
    <3>3. candidate < r.end /\ r.load < candidate + s
      BY <1>2 DEF Overlaps
    <3>4. r.load < a + s
      BY <1>1, <1>2, <2>2, <3>1, <3>3
    <3>5. r \in Collisions(a, a + s)
      BY <1>2, <3>2, <3>4 DEF Collisions, Overlaps
    <3>6. QED
      BY <3>5
  <2>3. QED
    BY <1>1, <1>3, <2>1, <2>2
<1>6. Occupied' = Occupied
  BY DEF Occupied, Boots, Fixed
<1>7. Passed(m)'
  BY <1>5, <1>6 DEF Passed, Collisions, Overlaps, n, s
<1>8. m \in Group' /\ IsNext(m, Group)'
  BY DEF Group, IsNext, Boots, Secondaries, Fixed
<1>9. QED
  BY <1>7, <1>8 DEF Searched

\* The steps of the plan keep what is known of the search.
LEMMA SearchedKept ==
    ASSUME PlanTypes, Searched, Plan
    PROVE  Searched'
<1>1. CASE PlaceFixed \/ PlaceBoot
  <2>1. stage \in {"fixed", "boot"} /\ UNCHANGED candidate
    BY <1>1 DEF PlaceFixed, PlaceBoot, GoOn
  <2>2. candidate = -1
    BY <2>1 DEF Searched
  <2>3. QED
    BY <2>1, <2>2 DEF Searched
<1>2. CASE Search
  BY <1>2, SearchBegins
<1>3. CASE Turn
  <2>1. candidate # -1 /\ stage \in {"more_boots", "secondary"}
    BY <1>3 DEF Turn
  <2>2. PICK m \in Group :
          LET image == inputs[m].image
              end == candidate + Size(image)
          IN  /\ IsNext(m, Group)
              /\ \/ GoOn("raised")
                 \/ /\ Collisions(candidate, end) # {}
                    /\ candidate' = AlignUp(FirstCollision(candidate, end).end, Alignment(image))
                    /\ UNCHANGED <<inputs, stage, placed, cursor>>
                 \/ candidate' = -1
    BY <1>3 DEF Turn
  <2>3. Passed(m) /\ candidate \in Nat
    BY <2>1, <2>2, NextIsOne DEF Searched, PlanTypes, PlanTypeOK
  <2>4. CASE GoOn("raised")
    BY <2>4 DEF GoOn, Searched
  <2>5. CASE candidate' = -1
    BY <2>5 DEF Searched
  <2>6. CASE /\ Collisions(candidate, candidate + Size(inputs[m].image)) # {}
             /\ candidate' = AlignUp(FirstCollision(candidate, candidate + Size(inputs[m].image)).end,
                                     Alignment(inputs[m].image))
             /\ UNCHANGED <<inputs, stage, placed, cursor>>
    BY <2>1, <2>2, <2>3, <2>6, SearchGoesOn
  <2>7. QED
    BY <2>2, <2>4, <2>5, <2>6
<1>4. CASE NextGroup
  <2>1. Group \subseteq DOMAIN placed /\ stage \in {"more_boots", "secondary"}
        /\ UNCHANGED candidate
    BY <1>4 DEF NextGroup, GoOn, Group
  <2>2. candidate = -1
    BY <2>1 DEF Searched, IsNext
  <2>3. QED
    BY <2>1, <2>2 DEF Searched
<1>5. QED
  BY <1>1, <1>2, <1>3, <1>4 DEF Plan

\* A secondary module is placed where its search ends.
LEMMA PlanTakesFirstFit ==
    ASSUME PlanTypes, Searched, Plan
    PROVE  TakesFirstFit
<1> SUFFICES ASSUME NEW m \in (DOMAIN placed' \ DOMAIN placed) \cap Secondaries
             PROVE  \A a \in cursor .. placed'[m].load - 1 :
                        a % Alignment(inputs[m].image) = 0
                        => Collisions(a, a + Size(inputs[m].image)) # {}
  BY DEF TakesFirstFit
<1>1. ~PlaceFixed
  BY DEF PlaceFixed, Secondaries
<1>2. ~Search /\ ~NextGroup
  BY DEF Search, NextGroup, GoOn
<1>3. ~PlaceBoot
  <2> SUFFICES ASSUME PlaceBoot PROVE FALSE
    OBVIOUS
  <2>1. PICK b \in Boots : Record(b, AlignUp(First, Alignment(inputs[b].image)), TRUE)
    BY DEF PlaceBoot, GoOn
  <2>2. DOMAIN placed' = DOMAIN placed \cup {b}
    BY <2>1, RecordAddsOne
  <2>3. QED
    BY <2>2 DEF Secondaries
<1>4. Turn /\ candidate # -1 /\ stage \in {"more_boots", "secondary"}
  BY <1>1, <1>2, <1>3 DEF Plan, Turn
<1>5. PICK n \in Group : IsNext(n, Group) /\ (UNCHANGED placed \/ Record(n, candidate, FALSE))
  BY <1>4 DEF Turn, GoOn
<1>6. Record(n, candidate, FALSE)
  BY <1>5
<1>7. /\ DOMAIN placed' = DOMAIN placed \cup {n}
      /\ placed'[n] = [load |-> candidate, end |-> candidate + Size(inputs[n].image),
                       claim |-> FALSE]
      /\ \A k \in DOMAIN placed \ {n} : placed'[k] = placed[k]
  BY <1>6, RecordAddsOne, Zenon
<1>8. m = n /\ placed'[m].load = candidate
  <2>1. m = n
    BY <1>7
  <2>2. placed'[n].load = candidate
    BY <1>7
  <2>3. QED
    BY <2>1, <2>2
<1>9. Passed(n)
  BY <1>4, <1>5, NextIsOne DEF Searched
<1>10. QED
  BY <1>8, <1>9 DEF Passed

\* What the step of a plan that raises says of the module it was about.
GivesUp ==
    stage # "raised" /\ stage' = "raised" =>
        \E m \in Group :
            /\ IsNext(m, Group)
            /\ \A a \in cursor .. Limit - Size(inputs[m].image) :
                  a % Alignment(inputs[m].image) = 0
                  => Collisions(a, a + Size(inputs[m].image)) # {}

\* A search gives up past the last place there could be, having passed them all.
LEMMA PlanGivesUp ==
    ASSUME PlanTypes, Searched, Plan
    PROVE  GivesUp
<1> SUFFICES ASSUME stage # "raised", stage' = "raised"
             PROVE  \E m \in Group :
                       /\ IsNext(m, Group)
                       /\ \A a \in cursor .. Limit - Size(inputs[m].image) :
                             a % Alignment(inputs[m].image) = 0
                             => Collisions(a, a + Size(inputs[m].image)) # {}
  BY DEF GivesUp
<1>1. Turn
  BY DEF Plan, PlaceFixed, PlaceBoot, Search, NextGroup, GoOn
<1>2. PICK m \in Group : IsNext(m, Group) /\ candidate + Size(inputs[m].image) > Limit
  BY <1>1 DEF Turn
<1>3. Passed(m) /\ candidate \in Nat /\ cursor \in Nat
  BY <1>1, <1>2, NextIsOne DEF Turn, Searched, PlanTypes, PlanTypeOK
<1> DEFINE s == Size(inputs[m].image)
<1> DEFINE n == Alignment(inputs[m].image)
<1>4. s \in Nat /\ Limit \in Nat /\ candidate + s > Limit
  BY <1>2, InputTyped, GroupIsOfInputs, SpaceAssumption
<1>5. \A a \in cursor .. candidate - 1 : a % n = 0 => Collisions(a, a + s) # {}
  BY <1>3 DEF Passed
<1> HIDE DEF s, n
<1>6. cursor .. Limit - s \subseteq cursor .. candidate - 1
  BY <1>3, <1>4
<1>7. \A a \in cursor .. Limit - s : a % n = 0 => Collisions(a, a + s) # {}
  BY <1>5, <1>6
<1>8. QED
  BY <1>2, <1>7 DEF s, n

-----------------------------------------------------------------------------
(* The types of a game *)

Analysis == TypeOK /\ PlanTypes /\ Searched

\* What the passes themselves keep, the plan aside.
GameTypes ==
    /\ magic \in Magics
    /\ phase \in {"scan", "first", "plan", "second", "done", "aborted"}
    /\ todo \subseteq Modules /\ units \subseteq Modules /\ trouble \subseteq Modules
    /\ DOMAIN records \subseteq Modules /\ \A m \in DOMAIN records : records[m] \in Record_
    /\ DOMAIN prepared \subseteq Modules /\ \A m \in DOMAIN prepared : prepared[m] \in Images
    /\ DOMAIN recovered \subseteq Modules
    /\ \A m \in DOMAIN recovered : recovered[m] \in Contents
    /\ sidecars \subseteq DOMAIN recovered
    /\ links \subseteq [importer: Modules, exporter: Modules, symbol: Symbols,
                        source: {"database", "module", "unresolved"}]

\* The types are those of the passes and those of the plan.
LEMMA TypesAreTwo == TypeOK <=> GameTypes /\ PlanTypeOK
BY DEF TypeOK, GameTypes

\* A note keeps the types of the records.
LEMMA NoteTyped ==
    ASSUME GameTypes, NEW m \in Modules,
           NEW status \in Analyzed \cup {"needs_decryption", "failed"},
           NEW from \in {"modules", "recovered"}, NEW outcome \in Outcomes \cup {None},
           NEW placed_ \in BOOLEAN, Note(m, status, from, outcome, placed_)
    PROVE  DOMAIN records' \subseteq Modules /\ \A n \in DOMAIN records' : records'[n] \in Record_
<1> DEFINE record == [status |-> status, from |-> from, outcome |-> outcome,
                      placed |-> placed_]
<1>1. record \in Record_
  BY DEF Record_
<1>2. records' = With(records, m, record)
  BY DEF Note
<1> HIDE DEF record
<1>3. /\ DOMAIN records' = DOMAIN records \cup {m}
      /\ records'[m] = record
      /\ \A n \in DOMAIN records \ {m} : records'[n] = records[n]
  BY <1>2 DEF With
<1>4. QED
  BY <1>1, <1>3 DEF GameTypes

\* A failed step keeps the types.
LEMMA FailsTyped ==
    ASSUME GameTypes, NEW m \in Modules,
           NEW from \in {"modules", "recovered"}, NEW outcome \in Outcomes \cup {None},
           NEW placed_ \in BOOLEAN, Fails(m, from, outcome, placed_),
           DOMAIN recovered' \subseteq Modules,
           \A n \in DOMAIN recovered' : recovered'[n] \in Contents,
           sidecars' \subseteq DOMAIN recovered'
    PROVE  GameTypes'
<1>1. DOMAIN records' \subseteq Modules /\ \A n \in DOMAIN records' : records'[n] \in Record_
  BY NoteTyped DEF Fails
<1>2. QED
  BY <1>1 DEF Fails, GameTypes

\* The check of a module alone keeps the types.
LEMMA PrepareTyped ==
    ASSUME GameTypes, NEW m \in Modules, NEW image \in Images,
           NEW from \in {"modules", "recovered"}, NEW outcome \in Outcomes \cup {None},
           Prepare(m, image, from, outcome),
           DOMAIN recovered' \subseteq Modules,
           \A n \in DOMAIN recovered' : recovered'[n] \in Contents,
           sidecars' \subseteq DOMAIN recovered'
    PROVE  GameTypes'
<1>1. CASE Fails(m, from, outcome, FALSE)
  BY <1>1, FailsTyped
<1>2. CASE /\ prepared' = With(prepared, m, image) /\ todo' = todo \ {m}
           /\ UNCHANGED <<magic, phase, records, units, links, trouble, planVars>>
  <2>1. /\ DOMAIN prepared' = DOMAIN prepared \cup {m}
        /\ prepared'[m] = image
        /\ \A n \in DOMAIN prepared \ {m} : prepared'[n] = prepared[n]
    BY <1>2 DEF With
  <2>2. QED
    BY <1>2, <2>1 DEF GameTypes
<1>3. QED
  BY <1>1, <1>2 DEF Prepare

\* A module that is not recovered keeps the types.
LEMMA StaysEncryptedTyped ==
    ASSUME GameTypes, NEW m \in Modules, NEW outcome \in Outcomes \cup {None},
           StaysEncrypted(m, outcome)
    PROVE  GameTypes'
<1>1. DOMAIN records' \subseteq Modules /\ \A n \in DOMAIN records' : records'[n] \in Record_
  BY NoteTyped DEF StaysEncrypted
<1>2. QED
  BY <1>1 DEF StaysEncrypted, GameTypes

\* What a backend answers is an error it may raise or contents it may hand over.
LEMMA AnswersTyped ==
    ASSUME NEW i \in 1 .. Len(Backends), NEW a \in Answers(i)
    PROVE  \/ \E c \in Contents : a = Handed(c)
           \/ \E o \in {"backend_unavailable", "backend_failed", "output_too_large",
                        "output_invalid"} : a = Raised(o)
<1>1. Kinds[i] \in {"external", "prebuilt", "custom"}
  BY BackendsAssumption
<1>2. \A c \in Contents : c.size \in Nat /\ MaxBytes \in Nat
  BY BackendsAssumption DEF Content
<1>3. CASE Kinds[i] = "external"
  <2>1. Answers(i) = {FromTool(end, c) : end \in ToolEnds, c \in Contents}
    BY <1>3 DEF Answers
  <2>2. PICK end \in ToolEnds, c \in Contents : a = FromTool(end, c)
    BY <2>1
  <2>3. CASE end = "cannot_run"
    <3>1. FromTool(end, c) = Raised("backend_unavailable")
      BY <2>3 DEF FromTool
    <3>2. QED
      BY <2>2, <3>1
  <2>4. CASE end \in {"timeout", "exit_code", "no_output"}
    <3>1. FromTool(end, c) = Raised("backend_failed")
      BY <2>4 DEF FromTool
    <3>2. QED
      BY <2>2, <3>1
  <2>5. CASE end = "output" /\ c.size > MaxBytes
    <3>1. ~(c.size <= MaxBytes)
      BY <1>2, <2>5
    <3>2. FromTool(end, c) = Raised("output_too_large")
      BY <2>5, <3>1 DEF FromTool
    <3>3. QED
      BY <2>2, <3>2
  <2>6. CASE end = "output" /\ ~(c.size > MaxBytes)
    <3>1. c.size <= MaxBytes
      BY <1>2, <2>6
    <3>2. FromTool(end, c) = Handed(c)
      BY <2>6, <3>1 DEF FromTool
    <3>3. QED
      BY <2>2, <3>2
  <2>7. QED
    BY <2>3, <2>4, <2>5, <2>6 DEF ToolEnds
<1>4. CASE Kinds[i] = "prebuilt"
  <2>1. Answers(i) = {FromDump(p, m, c) : p \in BOOLEAN, m \in BOOLEAN, c \in Contents}
    BY <1>4 DEF Answers
  <2>2. PICK p \in BOOLEAN, m \in BOOLEAN, c \in Contents : a = FromDump(p, m, c)
    BY <2>1
  <2>3. CASE ~p
    <3>1. FromDump(p, m, c) = Raised("backend_failed")
      BY <2>3 DEF FromDump
    <3>2. QED
      BY <2>2, <3>1
  <2>4. CASE p /\ c.size > MaxBytes
    <3>1. ~(c.size <= MaxBytes)
      BY <1>2, <2>4
    <3>2. FromDump(p, m, c) = Raised("output_too_large")
      BY <2>4, <3>1 DEF FromDump
    <3>3. QED
      BY <2>2, <3>2
  <2>5. CASE p /\ ~(c.size > MaxBytes) /\ ~m
    <3>1. c.size <= MaxBytes
      BY <1>2, <2>5
    <3>2. FromDump(p, m, c) = Raised("output_invalid")
      BY <2>5, <3>1 DEF FromDump
    <3>3. QED
      BY <2>2, <3>2
  <2>6. CASE p /\ ~(c.size > MaxBytes) /\ m
    <3>1. FromDump(p, m, c) = Handed(c)
      BY <2>6 DEF FromDump
    <3>2. QED
      BY <2>2, <3>1
  <2>7. QED
    BY <2>3, <2>4, <2>5, <2>6
<1>5. CASE Kinds[i] = "custom"
  <2>1. Answers(i) = {Handed(c) : c \in Contents} \cup
            {Raised(o) : o \in {"backend_unavailable", "backend_failed",
                                "output_too_large", "output_invalid"}}
    BY <1>5 DEF Answers
  <2>2. QED
    BY <2>1
<1>6. QED
  BY <1>1, <1>3, <1>4, <1>5

\* An outcome is one of those of the provenance; what is verified was handed over.
LEMMA OutcomeTyped ==
    ASSUME NEW i \in 1 .. Len(Backends), NEW a \in Answers(i)
    PROVE  /\ OutcomeOf(a) \in Outcomes
           /\ OutcomeOf(a) = "verified" => a.content \in Contents
<1>1. CASE \E c \in Contents : a = Handed(c)
  <2>1. PICK c \in Contents : a = Handed(c)
    BY <1>1
  <2>2. a.content = c /\ "raised" \notin DOMAIN a
    BY <2>1 DEF Handed
  <2>3. OutcomeOf(a) = Gate(c)
    BY <2>2 DEF OutcomeOf
  <2>4. c.size \in Nat /\ MaxBytes \in Nat
    BY BackendsAssumption DEF Content
  <2>5. Gate(c) \in Outcomes
    <3>1. CASE c.size > MaxBytes
      BY <3>1 DEF Gate, Outcomes
    <3>2. CASE ~(c.size > MaxBytes)
      BY <2>4, <3>2 DEF Gate, Outcomes
    <3>3. QED
      BY <3>1, <3>2
  <2>6. QED
    BY <2>2, <2>3, <2>5
<1>2. CASE \E o \in {"backend_unavailable", "backend_failed", "output_too_large",
                     "output_invalid"} : a = Raised(o)
  <2>1. PICK o \in {"backend_unavailable", "backend_failed", "output_too_large",
                    "output_invalid"} : a = Raised(o)
    BY <1>2
  <2>2. OutcomeOf(a) = o
    BY <2>1 DEF OutcomeOf, Raised
  <2>3. QED
    BY <2>2 DEF Outcomes
<1>3. QED
  BY <1>1, <1>2, AnswersTyped

\* A recovered module keeps the types, whichever of its writes fails.
LEMMA RecoveredTyped ==
    ASSUME GameTypes, NEW m \in Modules, Recovered(m)
    PROVE  GameTypes'
<1>0. PICK i \in 1 .. Len(Backends) : \E a \in Answers(i) :
          OutcomeOf(a) = "verified" /\ Keep(m, a.content)
  BY DEF Recovered, Accepted
<1>1. PICK a \in Answers(i) : OutcomeOf(a) = "verified" /\ Keep(m, a.content)
  BY <1>0
<1>2. a.content \in Contents
  BY <1>1, OutcomeTyped
<1> DEFINE content == a.content
<1>3. content \in Contents /\ Keep(m, content)
  BY <1>1, <1>2
<1> HIDE DEF content
<1>4. "verified" \in Outcomes \cup {None} /\ "recovered" \in {"modules", "recovered"}
  BY DEF Outcomes
<1>5. CASE Fails(m, "recovered", "verified", FALSE) /\ UNCHANGED <<recovered, sidecars>>
  BY <1>4, <1>5, FailsTyped DEF GameTypes
<1>6. ASSUME recovered' = With(recovered, m, content),
             sidecars' = sidecars \/ sidecars' = sidecars \cup {m}
      PROVE  /\ DOMAIN recovered' \subseteq Modules
             /\ \A n \in DOMAIN recovered' : recovered'[n] \in Contents
             /\ sidecars' \subseteq DOMAIN recovered'
  <2>1. /\ DOMAIN recovered' = DOMAIN recovered \cup {m}
        /\ recovered'[m] = content
        /\ \A n \in DOMAIN recovered \ {m} : recovered'[n] = recovered[n]
    BY <1>6 DEF With
  <2>2. QED
    BY <1>3, <1>6, <2>1 DEF GameTypes
<1>7. CASE recovered' = With(recovered, m, content)
           /\ Fails(m, "recovered", "verified", FALSE) /\ UNCHANGED sidecars
  BY <1>4, <1>6, <1>7, FailsTyped
<1>8. ASSUME NEW image \in Images, recovered' = With(recovered, m, content),
             sidecars' = sidecars \cup {m}, Prepare(m, image, "recovered", "verified")
      PROVE  GameTypes'
  BY <1>4, <1>6, <1>8, PrepareTyped
<1>9. QED
  BY <1>3, <1>5, <1>7, <1>8 DEF Keep

\* The rest of the first pass keeps the types.
LEMMA FirstPassTyped ==
    ASSUME GameTypes, NEW m \in Modules, Unreadable(m) \/ Readable(m) \/ NotRecovered(m)
    PROVE  GameTypes'
<1>1. None \in Outcomes \cup {None} /\ "no_backend_accepted" \in Outcomes
  BY DEF Outcomes
<1>2. ASSUME UNCHANGED <<recovered, sidecars>>
      PROVE  /\ DOMAIN recovered' \subseteq Modules
             /\ \A n \in DOMAIN recovered' : recovered'[n] \in Contents
             /\ sidecars' \subseteq DOMAIN recovered'
  BY <1>2 DEF GameTypes
<1>3. CASE Unreadable(m)
  BY <1>1, <1>2, <1>3, FailsTyped DEF Unreadable
<1>4. CASE Readable(m)
  BY <1>1, <1>2, <1>4, PrepareTyped DEF Readable
<1>5. CASE NotRecovered(m)
  <2>1. \E outcome \in Outcomes \cup {None} : StaysEncrypted(m, outcome)
    BY <1>1, <1>5, OutcomeTyped DEF NotRecovered, Accepted
  <2>2. QED
    BY <2>1, StaysEncryptedTyped
<1>6. QED
  BY <1>3, <1>4, <1>5

\* The second pass keeps the types.
LEMMA SecondPassTyped ==
    ASSUME GameTypes, NEW m \in Modules, Disassemble(m) \/ NotDisassembled(m)
    PROVE  GameTypes'
<1>1. /\ From(m) \in {"modules", "recovered"}
      /\ OutcomeFor(m) \in Outcomes \cup {None}
  BY DEF From, OutcomeFor, Outcomes
<1>2. CASE Disassemble(m)
  <2>1. PICK status \in Analyzed : Note(m, status, From(m), OutcomeFor(m), TRUE)
    BY <1>2 DEF Disassemble, Analyzed
  <2>2. DOMAIN records' \subseteq Modules /\ \A n \in DOMAIN records' : records'[n] \in Record_
    BY <1>1, <2>1, NoteTyped
  <2>3. QED
    BY <1>2, <2>2 DEF Disassemble, GameTypes
<1>3. CASE NotDisassembled(m)
  <2>1. /\ DOMAIN recovered' \subseteq Modules
        /\ \A n \in DOMAIN recovered' : recovered'[n] \in Contents
        /\ sidecars' \subseteq DOMAIN recovered'
    BY <1>3 DEF NotDisassembled, GameTypes
  <2>2. QED
    BY <1>1, <1>3, <2>1, FailsTyped DEF NotDisassembled
<1>4. QED
  BY <1>2, <1>3

\* The end of the game keeps the types.
LEMMA AbortTyped ==
    ASSUME GameTypes, Abort PROVE GameTypes'
BY DEF Abort, GameTypes

\* Links are between modules.
LEMMA LinksTyped ==
    ASSUME GameTypes
    PROVE  Links(units) \subseteq [importer: Modules, exporter: Modules, symbol: Symbols,
                                   source: {"database", "module", "unresolved"}]
BY DEF Links, GameTypes

\* What leaves the plan alone leaves its types and its search alone.
LEMMA PlanStays ==
    ASSUME PlanTypes, Searched, UNCHANGED planVars
    PROVE  PlanTypes' /\ Searched'
<1>1. PlanTypes'
  BY DEF planVars, PlanTypes, PlanTypeOK
<1>2. Searched'
  BY DEF planVars, Searched, Passed, Group, IsNext, Boots, Secondaries, Fixed, Collisions,
     Occupied, Overlaps
<1>3. QED
  BY <1>1, <1>2

\* A plan begins with images that have a layout, and nothing placed.
LEMMA PlanBeginsTyped ==
    ASSUME Analysis, PlanBegins
    PROVE  Analysis'
<1>1. GameTypes'
  BY TypesAreTwo DEF Analysis, PlanBegins, GameTypes
<1>2. CASE UNCHANGED planVars
  BY <1>1, <1>2, PlanStays DEF Analysis, PlanTypes, TypeOK, GameTypes
<1>3. ASSUME NEW given, Begin(given),
             given = [m \in DOMAIN prepared |->
                         [image |-> prepared[m], boot |-> Classification(m) = "boot"]]
      PROVE  Analysis'
  <2>1. /\ DOMAIN given = DOMAIN prepared /\ DOMAIN prepared \subseteq Modules
        /\ \A m \in DOMAIN given : /\ given[m].image = prepared[m]
                                   /\ given[m] = [image |-> prepared[m],
                                                  boot |-> Classification(m) = "boot"]
    BY <1>3, TypesAreTwo DEF Analysis, GameTypes
  <2>2. ASSUME NEW m \in DOMAIN given
        PROVE  given[m] \in [image: Images, boot: BOOLEAN]
    <3>1. prepared[m] \in Images
      BY <2>1, TypesAreTwo DEF Analysis, GameTypes
    <3>2. given[m] = [image |-> prepared[m], boot |-> Classification(m) = "boot"]
      BY <2>1
    <3>3. QED
      BY <3>1, <3>2
  <2>3. \A m \in DOMAIN given : HasLayout(given[m].image)
    BY <1>3 DEF Begin, FitsAlone
  <2>4. PlanTypes'
    <3>1. DOMAIN placed = {} /\ UNCHANGED <<placed, cursor, candidate>>
          /\ inputs' = given /\ stage' = "fixed"
      BY <1>3 DEF Analysis, PlanTypes, Begin
    <3>2. PlanTypeOK'
      BY <2>1, <2>2, <3>1 DEF Analysis, PlanTypes, PlanTypeOK
    <3>3. QED
      BY <2>3, <3>1, <3>2 DEF PlanTypes
  <2>5. candidate = -1 /\ UNCHANGED candidate
    BY <1>3 DEF Analysis, Searched, Begin
  <2>6. QED
    BY <1>1, <2>4, <2>5 DEF Analysis, Searched, PlanTypes, TypeOK, GameTypes
<1>4. QED
  BY <1>2, <1>3 DEF PlanBegins

\* The steps other than the plan's.
LEMMA OthersTyped ==
    ASSUME Analysis, UNCHANGED planVars, GameTypes'
    PROVE  Analysis'
BY PlanStays DEF Analysis, PlanTypes, TypeOK, GameTypes

\* Every step keeps the types and what is known of the search.
LEMMA AnalysisKept ==
    ASSUME Analysis, [Next]_vars
    PROVE  Analysis'
<1>1. GameTypes /\ PlanTypes /\ Searched
  BY TypesAreTwo DEF Analysis
<1>2. CASE UNCHANGED vars
  <2>1. GameTypes' /\ UNCHANGED planVars
    BY <1>1, <1>2 DEF vars, gameVars, GameTypes
  <2>2. QED
    BY <2>1, OthersTyped
<1>3. CASE Scan
  <2>1. GameTypes' /\ UNCHANGED planVars
    BY <1>1, <1>3 DEF Scan, GameTypes, Candidates
  <2>2. QED
    BY <2>1, OthersTyped
<1>4. CASE ScanFails \/ PlanRaises \/ EngineMissing \/ \E m \in Modules : Escapes(m)
  <2>1. Abort
    BY <1>4 DEF ScanFails, PlanRaises, EngineMissing, Escapes
  <2>2. GameTypes' /\ UNCHANGED planVars
    BY <1>1, <2>1, AbortTyped DEF Abort
  <2>3. QED
    BY <2>2, OthersTyped
<1>5. ASSUME NEW m \in Modules, Unreadable(m) \/ Readable(m) \/ NotRecovered(m) \/ Recovered(m)
      PROVE  Analysis'
  <2>1. GameTypes'
    BY <1>1, <1>5, FirstPassTyped, RecoveredTyped
  <2>2. UNCHANGED planVars
    BY <1>5 DEF Unreadable, Readable, NotRecovered, Recovered, Fails, Prepare,
       StaysEncrypted, Keep
  <2>3. QED
    BY <2>1, <2>2, OthersTyped
<1>6. CASE PlanBegins
  BY <1>6, PlanBeginsTyped
<1>7. CASE PlanGoesOn
  <2>1. PlanTypes' /\ Searched'
    BY <1>1, <1>7, PlanTyped, SearchedKept DEF PlanGoesOn
  <2>2. GameTypes'
    BY <1>1, <1>7 DEF PlanGoesOn, gameVars, GameTypes
  <2>3. QED
    BY <2>1, <2>2 DEF Analysis, PlanTypes, TypeOK, GameTypes
<1>8. CASE PlanEnds
  <2>1. GameTypes' /\ UNCHANGED planVars
    BY <1>1, <1>8 DEF PlanEnds, GameTypes
  <2>2. QED
    BY <2>1, OthersTyped
<1>9. ASSUME NEW m \in Modules, Disassemble(m) \/ NotDisassembled(m)
      PROVE  Analysis'
  <2>1. GameTypes'
    BY <1>1, <1>9, SecondPassTyped
  <2>2. UNCHANGED planVars
    BY <1>9 DEF Disassemble, NotDisassembled, Fails
  <2>3. QED
    BY <2>1, <2>2, OthersTyped
<1>10. CASE LinkAll
  <2>1. GameTypes'
    BY <1>1, <1>10, LinksTyped, AbortTyped DEF LinkAll, GameTypes
  <2>2. UNCHANGED planVars
    BY <1>10 DEF LinkAll, Abort
  <2>3. QED
    BY <2>1, <2>2, OthersTyped
<1>11. QED
  BY <1>2, <1>3, <1>4, <1>5, <1>6, <1>7, <1>8, <1>9, <1>10 DEF Next

\* They hold before the scan.
LEMMA AnalysisBegins ==
    ASSUME Init PROVE Analysis
<1>1. GameTypes
  BY DEF Init, GameTypes
<1>2. PlanTypes /\ Searched
  BY SpaceAssumption DEF Init, PlanInit, PlanTypes, PlanTypeOK, Searched
<1>3. QED
  BY <1>1, <1>2, TypesAreTwo DEF Analysis, PlanTypes

\* Every record, image, placement and link is one of those the code can write,
\* and every address is a number: the searches for the least and the greatest
\* address, and for the first collision, find one (placement.py, _layout and
\* _overlap).
THEOREM AnalysisTypeCorrect == Spec => []TypeOK
<1>1. Init => Analysis
  BY AnalysisBegins
<1>2. Analysis /\ [Next]_vars => Analysis'
  BY AnalysisKept
<1>3. Analysis => TypeOK
  BY DEF Analysis
<1>4. QED
  BY <1>1, <1>2, <1>3, PTL DEF Spec

\* The passes over the modules leave the plan alone.
LEMMA PassesLeavePlan ==
    ASSUME [Next]_vars, ~PlanGoesOn, ~PlanBegins
    PROVE  UNCHANGED planVars
<1>1. CASE UNCHANGED vars \/ Scan \/ ScanFails \/ PlanEnds \/ PlanRaises \/ EngineMissing
           \/ LinkAll
  BY <1>1 DEF vars, Scan, ScanFails, PlanEnds, PlanRaises, EngineMissing, LinkAll, Abort
<1>2. ASSUME NEW m \in Modules,
             Unreadable(m) \/ Readable(m) \/ NotRecovered(m) \/ Recovered(m)
      PROVE  UNCHANGED planVars
  BY <1>2 DEF Unreadable, Readable, NotRecovered, Recovered, Fails, Prepare,
     StaysEncrypted, Keep
<1>3. ASSUME NEW m \in Modules, Disassemble(m) \/ NotDisassembled(m) \/ Escapes(m)
      PROVE  UNCHANGED planVars
  BY <1>3 DEF Disassemble, NotDisassembled, Escapes, Fails, Abort
<1>4. QED
  BY <1>1, <1>2, <1>3 DEF Next

\* The loop that jumps from the end of one collision to the next aligned
\* address misses no free place: a secondary module goes to the first aligned
\* address at which it collides with nothing, and the search raises only where
\* there is none below the end of the addresses (placement.py, _find_free).
THEOREM PlacesAreFirstFits == Spec => FirstFit
<1>1. Init => Analysis
  BY AnalysisBegins
<1>2. Analysis /\ [Next]_vars => Analysis'
  BY AnalysisKept
<1>3. Analysis /\ [Next]_vars => [TakesFirstFit /\ GivesUp]_planVars
  <2> SUFFICES ASSUME Analysis, [Next]_vars
               PROVE  (TakesFirstFit /\ GivesUp) \/ UNCHANGED planVars
    OBVIOUS
  <2>1. CASE PlanGoesOn
    BY <2>1, PlanTakesFirstFit, PlanGivesUp DEF Analysis, PlanGoesOn
  <2>2. CASE PlanBegins
    BY <2>2 DEF PlanBegins, Begin, TakesFirstFit, GivesUp
  <2>3. CASE ~PlanGoesOn /\ ~PlanBegins
    BY <2>3, PassesLeavePlan
  <2>4. QED
    BY <2>1, <2>2, <2>3
<1>4. [TakesFirstFit /\ GivesUp]_planVars =>
        [/\ \A m \in (DOMAIN placed' \ DOMAIN placed) \cap Secondaries :
               \A a \in cursor .. placed'[m].load - 1 :
                   a % Alignment(inputs[m].image) = 0
                   => Collisions(a, a + Size(inputs[m].image)) # {}
         /\ stage # "raised" /\ stage' = "raised" =>
               \E m \in Group :
                   /\ IsNext(m, Group)
                   /\ \A a \in cursor .. Limit - Size(inputs[m].image) :
                         a % Alignment(inputs[m].image) = 0
                         => Collisions(a, a + Size(inputs[m].image)) # {}]_planVars
  BY DEF TakesFirstFit, GivesUp
<1>5. QED
  BY <1>1, <1>2, <1>3, <1>4, PTL DEF Spec, FirstFit

-----------------------------------------------------------------------------
(* What is left of an analysis *)

PhasesLeft ==
    CASE phase = "scan" -> 4 [] phase = "first" -> 3 [] phase = "plan" -> 2
      [] phase = "second" -> 1 [] OTHER -> 0

StagesLeft ==
    CASE stage = "idle" -> 5 [] stage = "fixed" -> 4 [] stage = "boot" -> 3
      [] stage = "more_boots" -> 2 [] stage = "secondary" -> 1 [] OTHER -> 0

Unplaced == DOMAIN inputs \ DOMAIN placed

\* For the search in progress; one that goes beyond the limit raises next.
AddressesLeft ==
    IF candidate = -1 THEN Limit + 2
    ELSE IF candidate > Limit THEN 0 ELSE Limit + 1 - candidate

Left == <<PhasesLeft, Cardinality(todo), StagesLeft, Cardinality(Unplaced), AddressesLeft>>

\* Of two such counts the first number that differs decides.
Below(a, b) == \E k \in 1 .. 5 : a[k] < b[k] /\ \A l \in 1 .. k - 1 : a[l] = b[l]

\* Where the phase changes it comes nearer to the end.
LEMMA PhaseBelow ==
    ASSUME PhasesLeft' < PhasesLeft
    PROVE  Below(Left', Left)
<1>1. Left'[1] < Left[1]
  BY DEF Left
<1>2. QED
  BY <1>1 DEF Below

\* A module that is taken in a pass is not taken in it again.
LEMMA TodoBelow ==
    ASSUME todo \subseteq Modules, NEW m \in todo, todo' = todo \ {m}, UNCHANGED phase
    PROVE  Below(Left', Left)
<1>1. IsFiniteSet(todo)
  BY ModulesAssumption, FS_Subset
<1>2. Cardinality(todo \ {m}) = Cardinality(todo) - 1 /\ Cardinality(todo) \in Nat
  BY <1>1, FS_RemoveElement, FS_CardinalityType
<1>3. Cardinality(todo') < Cardinality(todo)
  BY <1>2
<1>4. Left'[2] < Left[2] /\ Left'[1] = Left[1]
  BY <1>3 DEF Left, PhasesLeft
<1>5. QED
  BY <1>4 DEF Below

\* In a plan the stage comes nearer to the end, ...
LEMMA StageBelow ==
    ASSUME UNCHANGED <<phase, todo>>, StagesLeft' < StagesLeft
    PROVE  Below(Left', Left)
<1>1. Left'[3] < Left[3] /\ Left'[1] = Left[1] /\ Left'[2] = Left[2]
  BY DEF Left, PhasesLeft
<1>2. \A l \in 1 .. 3 - 1 : Left'[l] = Left[l]
  <2>1. \A l \in 1 .. 3 - 1 : l = 1 \/ l = 2
    OBVIOUS
  <2>2. QED
    BY <1>1, <2>1
<1>3. QED
  BY <1>1, <1>2 DEF Below

\* ... or one more module is placed, ...
LEMMA PlacedBelow ==
    ASSUME PlanTypes, UNCHANGED <<phase, todo, stage, inputs>>,
           NEW m \in Unplaced, DOMAIN placed' = DOMAIN placed \cup {m}
    PROVE  Below(Left', Left)
<1>1. IsFiniteSet(Unplaced)
  BY ModulesAssumption, FS_Subset DEF Unplaced, PlanTypes, PlanTypeOK
<1>2. Cardinality(Unplaced \ {m}) = Cardinality(Unplaced) - 1 /\ Cardinality(Unplaced) \in Nat
  BY <1>1, FS_RemoveElement, FS_CardinalityType
<1>3. Unplaced' = Unplaced \ {m}
  BY DEF Unplaced
<1>4. Cardinality(Unplaced') < Cardinality(Unplaced)
  BY <1>2, <1>3
<1>5. /\ Left'[4] < Left[4] /\ Left'[1] = Left[1] /\ Left'[2] = Left[2]
      /\ Left'[3] = Left[3]
  BY <1>4 DEF Left, PhasesLeft, StagesLeft
<1>6. \A l \in 1 .. 4 - 1 : Left'[l] = Left[l]
  <2>1. \A l \in 1 .. 4 - 1 : l = 1 \/ l = 2 \/ l = 3
    OBVIOUS
  <2>2. QED
    BY <1>5, <2>1
<1>7. QED
  BY <1>5, <1>6 DEF Below

\* ... or the search goes on to a greater address.
LEMMA AddressBelow ==
    ASSUME UNCHANGED <<phase, todo, stage, inputs, placed>>, AddressesLeft' < AddressesLeft
    PROVE  Below(Left', Left)
<1>1. /\ Left'[5] < Left[5] /\ Left'[1] = Left[1] /\ Left'[2] = Left[2]
      /\ Left'[3] = Left[3] /\ Left'[4] = Left[4]
  BY DEF Left, PhasesLeft, StagesLeft, Unplaced
<1>2. \A l \in 1 .. 5 - 1 : Left'[l] = Left[l]
  <2>1. \A l \in 1 .. 5 - 1 : l = 1 \/ l = 2 \/ l = 3 \/ l = 4
    OBVIOUS
  <2>2. QED
    BY <1>1, <2>1
<1>3. QED
  BY <1>1, <1>2 DEF Below

\* The greater an address, the fewer are above it.
LEMMA FewerAbove ==
    ASSUME NEW limit \in Nat, NEW n \in Nat
    PROVE  /\ limit + 1 - n < limit + 2
           /\ \A m, e \in Nat : m < e /\ e <= n => limit + 1 - n < limit + 1 - m
OBVIOUS

\* A turn of the search goes on from a collision to a greater address.
LEMMA TurnBelow ==
    ASSUME PlanTypes, Turn, UNCHANGED <<phase, todo>>
    PROVE  Below(Left', Left)
<1>1. PICK m \in Group :
          LET image == inputs[m].image
              end == candidate + Size(image)
          IN  /\ IsNext(m, Group)
              /\ \/ end > Limit /\ GoOn("raised")
                 \/ /\ end <= Limit /\ Collisions(candidate, end) # {}
                    /\ candidate' = AlignUp(FirstCollision(candidate, end).end,
                                            Alignment(image))
                    /\ UNCHANGED <<inputs, stage, placed, cursor>>
                 \/ /\ end <= Limit /\ Collisions(candidate, end) = {}
                    /\ Record(m, candidate, FALSE)
                    /\ cursor' = end
                    /\ candidate' = -1
                    /\ UNCHANGED <<inputs, stage>>
  BY DEF Turn
<1>2. candidate \in Nat /\ stage \in {"more_boots", "secondary"}
  BY DEF Turn, PlanTypes, PlanTypeOK
<1>3. Size(inputs[m].image) \in Nat /\ Alignment(inputs[m].image) \in Nat \ {0}
  BY InputTyped, GroupIsOfInputs
<1>4. CASE GoOn("raised")
  <2>1. stage' = "raised"
    BY <1>4 DEF GoOn
  <2>2. StagesLeft' < StagesLeft
    BY <1>2, <2>1 DEF StagesLeft
  <2>3. QED
    BY <2>2, StageBelow
<1>5. ASSUME candidate + Size(inputs[m].image) <= Limit,
             Collisions(candidate, candidate + Size(inputs[m].image)) # {},
             candidate' = AlignUp(FirstCollision(candidate,
                                                 candidate + Size(inputs[m].image)).end,
                                  Alignment(inputs[m].image)),
             UNCHANGED <<inputs, stage, placed, cursor>>
      PROVE  Below(Left', Left)
  <2>1. PICK r : r = FirstCollision(candidate, candidate + Size(inputs[m].image))
    OBVIOUS
  <2>2. r \in Placed /\ Overlaps(candidate, candidate + Size(inputs[m].image), r)
    BY <1>5, <2>1, FirstCollides DEF Collisions
  <2>3. r.end \in Nat /\ candidate < r.end
    BY <2>2 DEF Overlaps, Placed
  <2>4. candidate' \in Nat /\ r.end <= candidate'
    BY <1>3, <1>5, <2>1, <2>3, AlignUpIsNext
  <2>5. candidate <= Limit /\ Limit \in Nat
    BY <1>2, <1>3, <1>5, SpaceAssumption
  <2>6. AddressesLeft' < AddressesLeft
    <3>1. candidate # -1 /\ candidate' # -1
      BY <1>2, <2>4
    <3>2. AddressesLeft = Limit + 1 - candidate
      BY <1>2, <2>5, <3>1 DEF AddressesLeft
    <3>3. AddressesLeft' = IF candidate' > Limit THEN 0 ELSE Limit + 1 - candidate'
      BY <3>1, Zenon DEF AddressesLeft
    <3>4. CASE candidate' > Limit
      <4>1. AddressesLeft' = 0
        BY <3>3, <3>4, Zenon
      <4>2. 0 < Limit + 1 - candidate
        BY <1>2, <2>5
      <4>3. QED
        BY <3>2, <4>1, <4>2, Zenon
    <3>5. CASE ~(candidate' > Limit)
      <4>1. AddressesLeft' = Limit + 1 - candidate'
        BY <3>3, <3>5, Zenon
      <4>2. Limit + 1 - candidate' < Limit + 1 - candidate
        BY <1>2, <2>3, <2>4, <2>5, FewerAbove
      <4>3. QED
        BY <3>2, <4>1, <4>2, Zenon
    <3>6. QED
      BY <3>4, <3>5
  <2>7. QED
    BY <1>5, <2>6, AddressBelow
<1>6. ASSUME Record(m, candidate, FALSE), UNCHANGED <<inputs, stage>>
      PROVE  Below(Left', Left)
  <2>1. DOMAIN placed' = DOMAIN placed \cup {m}
    BY <1>6, RecordAddsOne
  <2>2. m \in Unplaced
    BY <1>1, GroupIsOfInputs DEF IsNext, Unplaced
  <2>3. QED
    BY <1>6, <2>1, <2>2, PlacedBelow
<1>7. QED
  BY <1>1, <1>4, <1>5, <1>6

\* Every step of a plan leaves less of it.
LEMMA PlanBelow ==
    ASSUME PlanTypes, Plan, UNCHANGED <<phase, todo>>
    PROVE  Below(Left', Left)
<1>1. CASE PlaceFixed
  <2>1. StagesLeft' < StagesLeft
    BY <1>1 DEF PlaceFixed, StagesLeft
  <2>2. QED
    BY <2>1, StageBelow
<1>2. CASE PlaceBoot
  <2>1. stage = "boot" /\ stage' \in {"secondary", "more_boots"}
    BY <1>2 DEF PlaceBoot, GoOn
  <2>2. StagesLeft' < StagesLeft
    BY <2>1 DEF StagesLeft
  <2>3. QED
    BY <2>2, StageBelow
<1>3. CASE Search
  <2>1. PICK m \in Group : candidate' = AlignUp(cursor, Alignment(inputs[m].image))
    BY <1>3 DEF Search
  <2>2. Alignment(inputs[m].image) \in Nat \ {0} /\ cursor \in Nat
    BY InputTyped, GroupIsOfInputs DEF PlanTypes, PlanTypeOK
  <2>3. candidate' \in Nat /\ candidate = -1
    BY <1>3, <2>1, <2>2, AlignUpIsNext DEF Search
  <2>4. AddressesLeft' < AddressesLeft
    <3>1. candidate' # -1 /\ Limit \in Nat
      BY <2>3, SpaceAssumption
    <3>2. AddressesLeft = Limit + 2
      BY <2>3, Zenon DEF AddressesLeft
    <3>3. AddressesLeft' = IF candidate' > Limit THEN 0 ELSE Limit + 1 - candidate'
      BY <3>1, Zenon DEF AddressesLeft
    <3>4. CASE candidate' > Limit
      <4>1. AddressesLeft' = 0
        BY <3>3, <3>4, Zenon
      <4>2. 0 < Limit + 2
        BY <3>1
      <4>3. QED
        BY <3>2, <4>1, <4>2, Zenon
    <3>5. CASE ~(candidate' > Limit)
      <4>1. AddressesLeft' = Limit + 1 - candidate'
        BY <3>3, <3>5, Zenon
      <4>2. Limit + 1 - candidate' < Limit + 2
        BY <2>3, <3>1, FewerAbove
      <4>3. QED
        BY <3>2, <4>1, <4>2, Zenon
    <3>6. QED
      BY <3>4, <3>5
  <2>5. UNCHANGED <<inputs, stage, placed>>
    BY <1>3 DEF Search
  <2>6. QED
    BY <2>4, <2>5, AddressBelow
<1>4. CASE Turn
  BY <1>4, TurnBelow
<1>5. CASE NextGroup
  <2>1. StagesLeft' < StagesLeft
    BY <1>5 DEF NextGroup, GoOn, StagesLeft
  <2>2. QED
    BY <2>1, StageBelow
<1>6. QED
  BY <1>1, <1>2, <1>3, <1>4, <1>5 DEF Plan

\* In either pass a step is about one module, and takes it off the list.
LEMMA PassTakesOne ==
    ASSUME NEW m \in Modules,
           \/ Unreadable(m) \/ Readable(m) \/ NotRecovered(m) \/ Recovered(m)
           \/ Disassemble(m) \/ NotDisassembled(m)
    PROVE  m \in todo /\ todo' = todo \ {m} /\ UNCHANGED phase
<1>1. m \in todo
  BY DEF Unreadable, Readable, NotRecovered, Recovered, Disassemble, NotDisassembled, IsFirst
<1>2. CASE Unreadable(m) \/ Disassemble(m) \/ NotDisassembled(m)
  BY <1>1, <1>2 DEF Unreadable, Disassemble, NotDisassembled, Fails
<1>3. CASE Readable(m)
  BY <1>1, <1>3 DEF Readable, Prepare, Fails
<1>4. CASE NotRecovered(m)
  <2>1. \E outcome : StaysEncrypted(m, outcome)
    BY <1>4, Zenon DEF NotRecovered
  <2>2. QED
    BY <1>1, <2>1 DEF StaysEncrypted
<1>5. CASE Recovered(m)
  <2>1. \E content : Keep(m, content)
    BY <1>5, Zenon DEF Recovered
  <2>2. QED
    BY <1>1, <2>1 DEF Keep, Prepare, Fails
<1>6. QED
  BY <1>2, <1>3, <1>4, <1>5

\* An analysis cannot go on for ever, whatever the backends answer, whatever
\* fails, and although the search for a free range is a loop without a bound
\* (placement.py, _find_free: while True): every step takes this count of five
\* natural numbers down in their lexicographic order, which is well-founded.
THEOREM AnalysisCountsDown == Spec => [](Left \in [1 .. 5 -> Nat]) /\ [][Below(Left', Left)]_vars
<1>1. Init => Analysis
  BY AnalysisBegins
<1>2. Analysis /\ [Next]_vars => Analysis'
  BY AnalysisKept
<1>3. Analysis => Left \in [1 .. 5 -> Nat]
  <2> SUFFICES ASSUME Analysis PROVE Left \in [1 .. 5 -> Nat]
    OBVIOUS
  <2>1. IsFiniteSet(todo) /\ IsFiniteSet(Unplaced)
    BY ModulesAssumption, FS_Subset DEF Analysis, PlanTypes, PlanTypeOK, TypeOK, Unplaced
  <2>2. Cardinality(todo) \in Nat /\ Cardinality(Unplaced) \in Nat
    BY <2>1, FS_CardinalityType
  <2>3. PhasesLeft \in Nat
    BY DEF PhasesLeft
  <2>4. StagesLeft \in Nat
    BY DEF StagesLeft
  <2>5. AddressesLeft \in Nat
    BY SpaceAssumption DEF AddressesLeft, Analysis, PlanTypes, PlanTypeOK
  <2>6. QED
    BY <2>2, <2>3, <2>4, <2>5 DEF Left
<1>4. Analysis /\ [Next]_vars => [Below(Left', Left)]_vars
  <2> SUFFICES ASSUME Analysis, Next PROVE Below(Left', Left)
    OBVIOUS
  <2>1. CASE Scan \/ ScanFails \/ PlanRaises \/ EngineMissing \/ PlanBegins \/ PlanEnds
             \/ LinkAll \/ \E m \in Modules : Escapes(m)
    <3>1. \/ phase = "scan" /\ phase' \in {"first", "aborted"}
          \/ phase = "first" /\ phase' = "plan"
          \/ phase = "plan" /\ phase' \in {"second", "aborted"}
          \/ phase = "second" /\ phase' \in {"done", "aborted"}
      BY <2>1 DEF Scan, ScanFails, PlanRaises, EngineMissing, PlanBegins, PlanEnds, LinkAll,
         Escapes, Abort
    <3>2. PhasesLeft' < PhasesLeft
      BY <3>1 DEF PhasesLeft
    <3>3. QED
      BY <3>2, PhaseBelow
  <2>2. ASSUME NEW m \in Modules,
               \/ Unreadable(m) \/ Readable(m) \/ NotRecovered(m) \/ Recovered(m)
               \/ Disassemble(m) \/ NotDisassembled(m)
        PROVE  Below(Left', Left)
    <3>1. m \in todo /\ todo' = todo \ {m} /\ UNCHANGED phase
      BY <2>2, PassTakesOne
    <3>2. todo \subseteq Modules
      BY DEF Analysis, TypeOK
    <3>3. QED
      BY <3>1, <3>2, TodoBelow
  <2>3. CASE PlanGoesOn
    BY <2>3, PlanBelow DEF PlanGoesOn, gameVars, Analysis
  <2>4. QED
    BY <2>1, <2>2, <2>3 DEF Next
<1>5. QED
  BY <1>1, <1>2, <1>3, <1>4, PTL DEF Spec
=============================================================================
