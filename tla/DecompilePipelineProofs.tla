----------------------- MODULE DecompilePipelineProofs -----------------------
(***************************************************************************)
(* Proofs about the decompilation pipeline: a history has a best attempt;  *)
(* what a record says of its function agrees with the attempts it holds,   *)
(* and names an exact one as the best for as long as it holds one;         *)
(* where every function has a directory of its own, a record holds the     *)
(* attempts made for its function, and with one run at a time the records  *)
(* implement AttemptLog; no attempt is made twice; a draft is that of the  *)
(* attempt on record; and every step of a run leaves less of it.           *)
(***************************************************************************)
EXTENDS DecompilePipeline, FiniteSetTheorems, WellFoundedInduction, TLAPS

-----------------------------------------------------------------------------
(* The best attempt *)

LEMMA NatMin ==
    ASSUME NEW T, T \subseteq Nat, T # {}
    PROVE  \E x \in T : \A y \in T : x <= y
  <1> DEFINE Less == {ss \in Nat \X Nat : ss[1] < ss[2]}
  <1>1. IsWellFoundedOn(Less, Nat)
    BY NatLessThanWellFounded DEF OpToRel
  <1>2. \E x \in T : \A y \in T : ~ (<<y, x>> \in Less)
    <2> HIDE DEF Less
    <2> QED BY <1>1, WFMin
  <1>3. PICK x \in T : \A y \in T : ~ (<<y, x>> \in Less)
    BY <1>2
  <1>4. \A y \in T : x <= y
    <2> SUFFICES ASSUME NEW y \in T, y < x PROVE FALSE
      OBVIOUS
    <2>1. <<y, x>> \in Less
      OBVIOUS
    <2>2. QED
      BY <2>1, <1>3
  <1>5. QED
    BY <1>4

LEMMA Least ==
    ASSUME NEW D, D # {}, NEW F \in [D -> Nat]
    PROVE  \E d \in D : \A e \in D : F[d] <= F[e]
  <1>1. {F[d] : d \in D} \subseteq Nat /\ {F[d] : d \in D} # {}
    OBVIOUS
  <1>2. \E x \in {F[d] : d \in D} : \A y \in {F[d] : d \in D} : x <= y
    BY <1>1, NatMin
  <1>3. QED
    BY <1>2

\* i comes before j by four keys, and by its number where they are equal.
Before(A, B, C, E, i, j) ==
    /\ A[i] <= A[j]
    /\ A[j] = A[i] => B[i] <= B[j]
    /\ A[j] = A[i] /\ B[j] = B[i] => C[i] <= C[j]
    /\ A[j] = A[i] /\ B[j] = B[i] /\ C[j] = C[i] => E[i] <= E[j]
    /\ A[j] = A[i] /\ B[j] = B[i] /\ C[j] = C[i] /\ E[j] = E[i] => i <= j

\* Of numbered things with four keys, one comes before all others.
LEMMA LexLeast ==
    ASSUME NEW D, D # {}, D \subseteq Nat,
           NEW A \in [D -> Nat], NEW B \in [D -> Nat],
           NEW C \in [D -> Nat], NEW E \in [D -> Nat]
    PROVE  \E i \in D : \A j \in D : Before(A, B, C, E, i, j)
  <1>1. PICK a \in D : \A j \in D : A[a] <= A[j]
    BY Least
  <1> DEFINE DA == {i \in D : A[i] = A[a]}
  <1>2. PICK b \in DA : \A j \in DA : B[b] <= B[j]
    <2>1. [i \in DA |-> B[i]] \in [DA -> Nat] /\ DA # {}
      OBVIOUS
    <2>2. \E d \in DA : \A e \in DA : [i \in DA |-> B[i]][d] <= [i \in DA |-> B[i]][e]
      <3> HIDE DEF DA
      <3> QED BY <2>1, Least
    <2>3. QED
      BY <2>2
  <1> DEFINE DB == {i \in DA : B[i] = B[b]}
  <1>3. PICK c \in DB : \A j \in DB : C[c] <= C[j]
    <2>1. [i \in DB |-> C[i]] \in [DB -> Nat] /\ DB # {}
      BY <1>2
    <2>2. \E d \in DB : \A e \in DB : [i \in DB |-> C[i]][d] <= [i \in DB |-> C[i]][e]
      <3> HIDE DEF DB
      <3> QED BY <2>1, Least
    <2>3. QED
      BY <2>2
  <1> DEFINE DC == {i \in DB : C[i] = C[c]}
  <1>4. PICK e \in DC : \A j \in DC : E[e] <= E[j]
    <2>1. [i \in DC |-> E[i]] \in [DC -> Nat] /\ DC # {}
      BY <1>3
    <2>2. \E d \in DC : \A j \in DC : [i \in DC |-> E[i]][d] <= [i \in DC |-> E[i]][j]
      <3> HIDE DEF DC
      <3> QED BY <2>1, Least
    <2>3. QED
      BY <2>2
  <1> DEFINE DE == {i \in DC : E[i] = E[e]}
  <1>5. PICK i \in DE : \A j \in DE : i <= j
    <2>1. DE \subseteq Nat /\ DE # {}
      BY <1>4
    <2>2. QED
      BY <2>1, NatMin
  <1>6. QED
    <2>1. i \in D
      OBVIOUS
    <2> SUFFICES ASSUME NEW j \in D
                 PROVE  Before(A, B, C, E, i, j)
      BY <2>1
    <2>2. A[i] = A[a] /\ B[i] = B[b] /\ C[i] = C[c] /\ E[i] = E[e]
      OBVIOUS
    <2>3. QED
      BY <1>1, <1>2, <1>3, <1>4, <1>5, <2>2 DEF Before

LEMMA RankIsFour ==
    ASSUME NEW a \in Attempt
    PROVE  /\ Rank(a)[1] \in {0, 1} /\ Rank(a)[2] + 100 \in Nat /\ Rank(a)[2] \in Int
           /\ Rank(a)[3] \in Nat /\ Rank(a)[4] \in Nat
  <1>1. Rank(a)[1] \in {0, 1}
    BY DEF Rank
  <1>2. Rank(a)[2] + 100 \in Nat /\ Rank(a)[2] \in Int
    <2>1. a.percent \in 0 .. 100 \/ a.percent = None
      BY DEF Attempt
    <2>2. Rank(a)[2] = IF a.percent = None THEN 1 ELSE -a.percent
      BY DEF Rank
    <2>3. QED
      BY <2>1, <2>2
  <1>3. Rank(a)[3] \in Nat
    BY DEF Rank, Attempt
  <1>4. Rank(a)[4] \in Nat
    BY DigestAssumption DEF Rank, Attempt
  <1>5. QED
    BY <1>1, <1>2, <1>3, <1>4

\* A history that is not empty has one attempt that ranks best.
LEMMA BestExists ==
    ASSUME NEW h \in Seq(Attempt), h # <<>>
    PROVE  \E i \in DOMAIN h : IsBest(h, i)
  <1> DEFINE D == DOMAIN h
             A == [i \in D |-> Rank(h[i])[1]]
             B == [i \in D |-> Rank(h[i])[2] + 100]
             C == [i \in D |-> Rank(h[i])[3]]
             E == [i \in D |-> Rank(h[i])[4]]
  <1>1. D = 1 .. Len(h) /\ Len(h) \in Nat \ {0} /\ \A i \in D : h[i] \in Attempt
    OBVIOUS
  <1>2. A \in [D -> Nat] /\ B \in [D -> Nat] /\ C \in [D -> Nat] /\ E \in [D -> Nat]
    BY <1>1, RankIsFour
  <1>3. PICK i \in D : \A j \in D : Before(A, B, C, E, i, j)
    <2>1. D # {} /\ \A n \in D : n \in Nat
      <3>1. D = 1 .. Len(h) /\ Len(h) \in Int /\ 1 <= Len(h)
        BY <1>1
      <3> HIDE DEF D
      <3>2. QED
        BY <3>1
    <2> HIDE DEF A, B, C, E, D
    <2>2. D \subseteq Nat
      BY <2>1
    <2>3. QED
      BY <1>2, <2>1, <2>2, LexLeast
  <1>4. ASSUME NEW j \in D PROVE ~Precedes(Rank(h[j]), Rank(h[i]))
    <2> DEFINE r == Rank(h[j])
               q == Rank(h[i])
    <2>1. /\ q[1] <= r[1]
          /\ r[1] = q[1] => q[2] <= r[2]
          /\ r[1] = q[1] /\ r[2] = q[2] => q[3] <= r[3]
          /\ r[1] = q[1] /\ r[2] = q[2] /\ r[3] = q[3] => q[4] <= r[4]
      <3>1. h[i] \in Attempt /\ h[j] \in Attempt
        BY <1>1
      <3>2. r[2] \in Int /\ q[2] \in Int
        BY <3>1, RankIsFour
      <3>3. A[j] = r[1] /\ A[i] = q[1] /\ B[j] = r[2] + 100 /\ B[i] = q[2] + 100
            /\ C[j] = r[3] /\ C[i] = q[3] /\ E[j] = r[4] /\ E[i] = q[4]
        OBVIOUS
      <3> HIDE DEF r, q, A, B, C, E
      <3>4. Before(A, B, C, E, i, j)
        BY <1>3
      <3>5. /\ A[i] <= A[j]
            /\ A[j] = A[i] => B[i] <= B[j]
            /\ A[j] = A[i] /\ B[j] = B[i] => C[i] <= C[j]
            /\ A[j] = A[i] /\ B[j] = B[i] /\ C[j] = C[i] => E[i] <= E[j]
        BY <3>4, Zenon DEF Before
      <3> HIDE DEF D
      <3>6. QED
        BY <3>2, <3>3, <3>5, SMT
    <2>2. /\ r[1] \in Int /\ r[2] \in Int /\ r[3] \in Int /\ r[4] \in Int
          /\ q[1] \in Int /\ q[2] \in Int /\ q[3] \in Int /\ q[4] \in Int
      <3>1. ASSUME NEW a \in Attempt
            PROVE  Rank(a)[1] \in Int /\ Rank(a)[2] \in Int /\ Rank(a)[3] \in Int
                   /\ Rank(a)[4] \in Int
        <4>1. /\ Rank(a)[1] \in {0, 1} /\ Rank(a)[2] \in Int
              /\ Rank(a)[3] \in Nat /\ Rank(a)[4] \in Nat
          BY RankIsFour
        <4>2. QED
          BY <4>1
      <3>2. h[i] \in Attempt /\ h[j] \in Attempt
        BY <1>1
      <3>3. QED
        BY <3>1, <3>2, Zenon
    <2> HIDE DEF r, q
    <2>3. SUFFICES ASSUME NEW k \in 1 .. 4, r[k] < q[k], \A l \in 1 .. k - 1 : r[l] = q[l]
                   PROVE  FALSE
      BY DEF Precedes, r, q
    <2>4. CASE k = 1
      BY <2>1, <2>2, <2>3, <2>4
    <2>5. CASE k = 2
      <3>1. r[1] = q[1]
        BY <2>3, <2>5
      <3>2. QED
        BY <2>1, <2>2, <2>3, <2>5, <3>1
    <2>6. CASE k = 3
      <3>1. r[1] = q[1] /\ r[2] = q[2]
        BY <2>3, <2>6
      <3>2. QED
        BY <2>1, <2>2, <2>3, <2>6, <3>1
    <2>7. CASE k = 4
      <3>1. r[1] = q[1] /\ r[2] = q[2] /\ r[3] = q[3]
        BY <2>3, <2>7
      <3>2. QED
        BY <2>1, <2>2, <2>3, <2>7, <3>1
    <2>8. QED
      BY <2>4, <2>5, <2>6, <2>7
  <1>5. ASSUME NEW j \in D, Rank(h[j]) = Rank(h[i]) PROVE i <= j
    BY <1>3, <1>5 DEF Before
  <1>6. QED
    BY <1>4, <1>5 DEF IsBest

LEMMA BestIsAttempt ==
    ASSUME NEW h \in Seq(Attempt), h # <<>>
    PROVE  /\ \E i \in DOMAIN h : IsBest(h, i) /\ Best(h) = h[i]
           /\ Best(h) \in Attempt
           /\ Best(h) # None
  <1>1. \E i \in DOMAIN h : IsBest(h, i) /\ Best(h) = h[i]
    BY BestExists DEF Best
  <1>2. Best(h) \in Attempt
    BY <1>1
  <1>3. QED
    BY <1>1, <1>2, AttemptAssumption

-----------------------------------------------------------------------------
(* Type correctness *)

\* What the local variables of a run hold at each of its places.
Supplied(r) ==
    /\ r.at # "idle" => r.command \in Commands /\ r.loaded \in [Functions -> State]
    /\ r.at \in {"variant", "decompile", "build", "match"} =>
           r.function \in Functions /\ listing[r.function] \in Listings
    /\ r.at \in {"decompile", "build", "match"} => r.inputs \in Inputs
    /\ r.at \in {"build", "match"} => r.draft \in Drafts

TypeInv == TypeOK /\ \A p \in Processes : Supplied(run[p])

LEMMA IdleIsRun == Idle \in Run /\ Supplied(Idle)
  BY DEF Idle, Run, Supplied

LEMMA LoadType == TypeOK => \A f \in Functions : Load(f) \in State
  <1> SUFFICES ASSUME TypeOK, NEW f \in Functions PROVE Load(f) \in State
    OBVIOUS
  <1>1. Fresh(f) \in State
    BY DEF Fresh, State, Statuses
  <1>2. QED
    BY <1>1, StemAssumption DEF Load, TypeOK

\* A step of one run, whatever it saves.
LEMMA RunStep ==
    ASSUME TypeInv, NEW p \in Processes, NEW r \in Run, Supplied(r),
           run' = [run EXCEPT ![p] = r], UNCHANGED <<listing, edits>>,
           saved' \in [Stems -> State \cup {None}],
           drafts' \in [Inputs -> Drafts \cup {None}]
    PROVE  TypeInv'
  <1>1. TypeOK'
    BY DEF TypeInv, TypeOK
  <1>2. ASSUME NEW q \in Processes PROVE Supplied(run[q])'
    <2>1. run'[q] = r \/ run'[q] = run[q]
      BY DEF TypeInv, TypeOK
    <2>2. QED
      BY <2>1 DEF TypeInv, Supplied
  <1>3. QED
    BY <1>1, <1>2 DEF TypeInv

LEMMA GoesOn ==
    ASSUME NEW c \in Commands, NEW l \in [Functions -> State], NEW t \in SUBSET Functions,
           NEW r, r = [Idle EXCEPT !.at = "next", !.command = c, !.loaded = l, !.todo = t]
    PROVE  r \in Run /\ Supplied(r)
  <1>1. PICK q \in Run : q = Idle
    BY IdleIsRun
  <1>2. r = [q EXCEPT !.at = "next", !.command = c, !.loaded = l, !.todo = t]
    BY <1>1, Zenon
  <1>3. QED
    BY <1>2 DEF Run, Supplied

LEMMA SaveStep ==
    ASSUME TypeInv, NEW p \in Processes, NEW f \in Functions, NEW s \in State,
           run[p].at # "idle", SaveAndGoOn(p, f, s)
    PROVE  TypeInv'
  <1>1. run[p].command \in Commands /\ run[p].loaded \in [Functions -> State]
        /\ run[p].todo \in SUBSET Functions
    BY DEF TypeInv, TypeOK, Supplied, Run
  <1>2. PICK c \in Commands, l \in [Functions -> State], t \in SUBSET Functions :
            c = run[p].command /\ l = run[p].loaded /\ t = run[p].todo \ {f}
    BY <1>1
  <1>3. PICK r : r = [Idle EXCEPT !.at = "next", !.command = c, !.loaded = l, !.todo = t]
    OBVIOUS
  <1>4. run' = [run EXCEPT ![p] = r] /\ UNCHANGED <<listing, edits, drafts>>
    BY <1>2, <1>3, Zenon DEF SaveAndGoOn
  <1>5. saved' \in [Stems -> State \cup {None}]
    BY DEF SaveAndGoOn, TypeInv, TypeOK
  <1>6. r \in Run /\ Supplied(r)
    BY <1>3, GoesOn
  <1>7. QED
    BY <1>4, <1>5, <1>6, RunStep DEF TypeInv, TypeOK

\* An attempt that has ended goes to the end of the run's attempts.
LEMMA FinishedStep ==
    ASSUME TypeInv, NEW p \in Processes, run[p].at \in {"decompile", "build", "match"},
           NEW a \in Attempt, Finished(p, a), UNCHANGED <<saved, drafts, listing, edits>>
    PROVE  TypeInv'
  <1>1. PICK q \in Run : q = run[p] /\ Supplied(q)
    BY DEF TypeInv, TypeOK
  <1>2. PICK v \in Seq({"none", "given", "unreadable"}) :
            v = IF a.exact THEN <<>> ELSE q.variants
    <2>1. <<>> \in Seq({"none", "given", "unreadable"})
      OBVIOUS
    <2>2. q.variants \in Seq({"none", "given", "unreadable"})
      BY DEF Run
    <2>3. QED
      BY <2>1, <2>2, Zenon
  <1>3. PICK r : r = [q EXCEPT !.at = "variant", !.attempts = Append(q.attempts, a),
                               !.variants = v, !.inputs = None, !.draft = None]
    OBVIOUS
  <1>4. run' = [run EXCEPT ![p] = r]
    BY <1>1, <1>2, <1>3, Zenon DEF Finished
  <1>5. r \in Run /\ Supplied(r)
    <2>1. Append(q.attempts, a) \in Seq(Attempt)
      BY DEF Run
    <2>2. QED
      BY <1>1, <1>3, <2>1 DEF Run, Supplied
  <1>6. QED
    BY <1>4, <1>5, RunStep DEF TypeInv, TypeOK

LEMMA FailedIsAttempt ==
    ASSUME NEW i \in Inputs, NEW o \in Outcomes, NEW d \in Drafts \cup {None}
    PROVE  Failed(i, o, d) \in Attempt
  BY DEF Failed, Attempt

LEMMA MatchedIsAttempt ==
    ASSUME NEW i \in Inputs, NEW d \in Drafts, NEW s \in Scores
    PROVE  Matched(i, d, s) \in Attempt
  BY ScoresAssumption DEF Matched, Attempt, Outcomes

LEMMA RecordedIsState ==
    ASSUME NEW f \in Functions, NEW h \in Seq(Attempt)
    PROVE  Recorded(f, h) \in State
  <1>1. Best(h) = None \/ Best(h) \in Attempt
    BY BestIsAttempt DEF Best
  <1>2. StatusOf(Best(h)) \in Statuses
    BY DEF StatusOf, Statuses
  <1>3. QED
    BY <1>1, <1>2 DEF Recorded, State, Attempt

LEMMA InitType == Init => TypeInv
  <1> SUFFICES ASSUME Init PROVE TypeInv
    OBVIOUS
  <1>1. \A p \in Processes : run[p] = Idle
    BY DEF Init
  <1>2. run \in [Processes -> Run]
    BY IdleIsRun DEF Init
  <1>3. TypeOK
    BY <1>2, BoundsAssumption DEF Init, TypeOK
  <1>4. QED
    BY <1>1, <1>3, IdleIsRun DEF TypeInv

LEMMA SelectedType ==
    ASSUME NEW c \in Commands, NEW l
    PROVE  Selected(c, l) \in SUBSET Functions
  BY CommandsAssumption DEF Selected, Command

LEMMA StartType ==
    ASSUME TypeInv, NEW p \in Processes, NEW c \in Commands, Start(p, c)
    PROVE  TypeInv'
  <1>1. PICK l \in [Functions -> State] : l = [f \in Functions |-> Load(f)]
    BY LoadType DEF TypeInv
  <1>2. PICK t \in SUBSET Functions : t = Selected(c, l)
    BY SelectedType
  <1>3. PICK r : r = [Idle EXCEPT !.at = "next", !.command = c, !.loaded = l, !.todo = t]
    OBVIOUS
  <1>4. run' = [run EXCEPT ![p] = r] /\ UNCHANGED <<saved, drafts, listing, edits>>
    BY <1>1, <1>2, <1>3, Zenon DEF Start
  <1>5. r \in Run /\ Supplied(r)
    BY <1>3, GoesOn
  <1>6. QED
    BY <1>4, <1>5, RunStep DEF TypeInv, TypeOK

LEMMA EndType ==
    ASSUME TypeInv, NEW p \in Processes, EndRun(p)
    PROVE  TypeInv'
  BY IdleIsRun, RunStep DEF EndRun, TypeInv, TypeOK

LEMMA UnsupportedType ==
    ASSUME TypeInv, NEW p \in Processes, Unsupported(p) \/ WithoutM2c(p)
    PROVE  TypeInv'
  <1>1. PICK f \in Functions, u \in {"unsupported", "blocked"},
             w \in {"unsupported", "unavailable"} :
            /\ run[p].at # "idle"
            /\ SaveAndGoOn(p, f, [run[p].loaded[f] EXCEPT !.status = u, !.failure = w])
    BY DEF Unsupported, WithoutM2c, IsNext
  <1>2. PICK s \in State : s = run[p].loaded[f]
    BY <1>1 DEF TypeInv, TypeOK, Supplied
  <1>3. PICK t : t = [s EXCEPT !.status = u, !.failure = w]
    OBVIOUS
  <1>4. t \in State
    BY <1>3 DEF State, Statuses
  <1>5. SaveAndGoOn(p, f, t)
    BY <1>1, <1>2, <1>3, Zenon
  <1>6. QED
    BY <1>1, <1>4, <1>5, SaveStep

LEMMA VariantsType ==
    ASSUME NEW c \in Commands
    PROVE  Variants(c) \in Seq({"none", "given", "unreadable"})
  <1>1. c.contexts \in {"none", "given", "unreadable"}
    BY CommandsAssumption DEF Command
  <1>2. <<"none">> \in Seq({"none", "given", "unreadable"})
    OBVIOUS
  <1>3. <<"none", c.contexts>> \in Seq({"none", "given", "unreadable"})
    BY <1>1
  <1>4. QED
    BY <1>2, <1>3, Zenon DEF Variants

LEMMA BeginType ==
    ASSUME TypeInv, NEW p \in Processes, Begin(p)
    PROVE  TypeInv'
  <1>1. PICK f \in Functions :
            /\ IsNext(p, f) /\ listing[f] \in Listings
            /\ run' = [run EXCEPT ![p].at = "variant", ![p].function = f,
                                  ![p].variants = Variants(run[p].command),
                                  ![p].attempts = run[p].loaded[f].history]
            /\ UNCHANGED <<saved, drafts, listing, edits>>
    BY DEF Begin
  <1>2. PICK q \in Run : q = run[p] /\ Supplied(q) /\ q.at = "next"
    BY <1>1 DEF TypeInv, TypeOK, IsNext
  <1>3. PICK h \in Seq(Attempt) : h = q.loaded[f].history
    BY <1>2 DEF Supplied, State
  <1>4. PICK v \in Seq({"none", "given", "unreadable"}) : v = Variants(q.command)
    BY <1>2, VariantsType DEF Supplied
  <1>5. PICK r : r = [q EXCEPT !.at = "variant", !.function = f, !.variants = v,
                               !.attempts = h]
    OBVIOUS
  <1>6. run' = [run EXCEPT ![p] = r]
    BY <1>1, <1>2, <1>3, <1>4, <1>5, Zenon
  <1>7. r \in Run /\ Supplied(r)
    BY <1>1, <1>2, <1>5 DEF Run, Supplied
  <1>8. QED
    BY <1>1, <1>6, <1>7, RunStep DEF TypeInv, TypeOK

\* InputsOf is an attempt's inputs, whatever the variant.
LEMMA InputsType ==
    ASSUME TypeInv, NEW p \in Processes, run[p].at = "variant",
           NEW x \in {"none", "given"}
    PROVE  InputsOf(p, x) \in Inputs /\ Unread(p) \in Inputs
  <1>1. /\ run[p].function \in Functions /\ listing[run[p].function] \in Listings
        /\ run[p].command.tools \in Toolsets
    BY CommandsAssumption DEF TypeInv, Supplied, Command
  <1>2. PICK f \in Functions, l \in Listings, t \in Toolsets :
            f = run[p].function /\ l = listing[f] /\ t = run[p].command.tools
    BY <1>1
  <1>3. InputsOf(p, x) = [function |-> f, listing |-> l, contexts |-> x, tools |-> t]
    BY <1>2, Zenon DEF InputsOf
  <1>4. InputsOf(p, "none") = [function |-> f, listing |-> l, contexts |-> "none", tools |-> t]
    BY <1>2, Zenon DEF InputsOf
  <1>5. [[function |-> f, listing |-> l, contexts |-> "none", tools |-> t]
            EXCEPT !.listing = "unavailable"] \in Inputs
    BY DEF Inputs
  <1>6. Unread(p) \in Inputs
    BY <1>4, <1>5, Zenon DEF Unread
  <1>7. QED
    BY <1>3, <1>6 DEF Inputs

LEMMA AtVariantType ==
    ASSUME TypeInv, NEW p \in Processes, AtVariant(p)
    PROVE  /\ Variant(p) \in {"none", "given", "unreadable"}
           /\ Tail(run[p].variants) \in Seq({"none", "given", "unreadable"})
           /\ run[p].at = "variant" /\ run[p].attempts \in Seq(Attempt)
  <1>1. run[p].variants \in Seq({"none", "given", "unreadable"}) /\ run[p].variants # <<>>
    BY DEF TypeInv, TypeOK, Run, AtVariant
  <1>2. QED
    BY <1>1 DEF AtVariant, Variant, TypeInv, TypeOK, Run

LEMMA UnreadableType ==
    ASSUME TypeInv, NEW p \in Processes, ContextUnreadable(p)
    PROVE  TypeInv'
  <1>1. AtVariant(p)
    BY DEF ContextUnreadable
  <1>2. PICK q \in Run : q = run[p] /\ Supplied(q) /\ q.at = "variant"
    BY <1>1 DEF TypeInv, TypeOK, AtVariant
  <1>3. Failed(Unread(p), "decompilation_failed", None) \in Attempt
    BY <1>1, AtVariantType, InputsType, FailedIsAttempt DEF Outcomes
  <1>4. PICK a \in Seq(Attempt) :
            a = IF Seen(p, Unread(p)) THEN run[p].attempts
                ELSE Append(run[p].attempts, Failed(Unread(p), "decompilation_failed", None))
    <2>1. run[p].attempts \in Seq(Attempt)
      BY <1>1, AtVariantType
    <2>2. Append(run[p].attempts, Failed(Unread(p), "decompilation_failed", None))
          \in Seq(Attempt)
      BY <2>1, <1>3
    <2>3. QED
      BY <2>1, <2>2, Zenon
  <1>5. PICK v \in Seq({"none", "given", "unreadable"}) : v = Tail(run[p].variants)
    BY <1>1, AtVariantType
  <1>6. PICK r : r = [q EXCEPT !.variants = v, !.attempts = a]
    OBVIOUS
  <1>7. run' = [run EXCEPT ![p] = r] /\ UNCHANGED <<saved, drafts, listing, edits>>
    BY <1>2, <1>4, <1>5, <1>6, Zenon DEF ContextUnreadable
  <1>8. r \in Run /\ Supplied(r)
    BY <1>2, <1>6 DEF Run, Supplied
  <1>9. QED
    BY <1>7, <1>8, RunStep DEF TypeInv, TypeOK

LEMMA SkipType ==
    ASSUME TypeInv, NEW p \in Processes, SkipVariant(p)
    PROVE  TypeInv'
  <1>1. AtVariant(p)
    BY DEF SkipVariant
  <1>2. PICK q \in Run : q = run[p] /\ Supplied(q) /\ q.at = "variant"
    BY <1>1 DEF TypeInv, TypeOK, AtVariant
  <1>3. PICK v \in Seq({"none", "given", "unreadable"}) : v = Tail(run[p].variants)
    BY <1>1, AtVariantType
  <1>4. PICK r : r = [q EXCEPT !.variants = v]
    OBVIOUS
  <1>5. run' = [run EXCEPT ![p] = r] /\ UNCHANGED <<saved, drafts, listing, edits>>
    BY <1>2, <1>3, <1>4, Zenon DEF SkipVariant
  <1>6. r \in Run /\ Supplied(r)
    BY <1>2, <1>4 DEF Run, Supplied
  <1>7. QED
    BY <1>5, <1>6, RunStep DEF TypeInv, TypeOK

LEMMA TryType ==
    ASSUME TypeInv, NEW p \in Processes, TryVariant(p)
    PROVE  TypeInv'
  <1>1. AtVariant(p) /\ Variant(p) # "unreadable"
    BY DEF TryVariant
  <1>2. PICK q \in Run : q = run[p] /\ Supplied(q) /\ q.at = "variant"
    BY <1>1 DEF TypeInv, TypeOK, AtVariant
  <1>3. PICK v \in Seq({"none", "given", "unreadable"}) : v = Tail(run[p].variants)
    BY <1>1, AtVariantType
  <1>4. PICK i \in Inputs : i = InputsOf(p, Variant(p))
    BY <1>1, <1>2, AtVariantType, InputsType
  <1>5. PICK r : r = [q EXCEPT !.at = "decompile", !.variants = v, !.inputs = i]
    OBVIOUS
  <1>6. run' = [run EXCEPT ![p] = r] /\ UNCHANGED <<saved, drafts, listing, edits>>
    BY <1>2, <1>3, <1>4, <1>5, Zenon DEF TryVariant
  <1>7. r \in Run /\ Supplied(r)
    BY <1>2, <1>5 DEF Run, Supplied
  <1>8. QED
    BY <1>6, <1>7, RunStep DEF TypeInv, TypeOK

LEMMA DecompileType ==
    ASSUME TypeInv, NEW p \in Processes, Decompile(p)
    PROVE  TypeInv'
  <1>1. PICK q \in Run : q = run[p] /\ Supplied(q) /\ q.at = "decompile"
    BY DEF TypeInv, TypeOK, Decompile
  <1>2. ASSUME NEW d \in Drafts, drafts' = [drafts EXCEPT ![run[p].inputs] = d],
               run' = [run EXCEPT ![p].at = "build", ![p].draft = d],
               UNCHANGED <<saved, listing, edits>>
        PROVE  TypeInv'
    <2>1. PICK r : r = [q EXCEPT !.at = "build", !.draft = d]
      OBVIOUS
    <2>2. run' = [run EXCEPT ![p] = r]
      BY <1>1, <1>2, <2>1, Zenon
    <2>3. r \in Run /\ Supplied(r)
      BY <1>1, <2>1 DEF Run, Supplied
    <2>4. drafts' \in [Inputs -> Drafts \cup {None}]
      BY <1>2 DEF TypeInv, TypeOK
    <2>5. QED
      BY <1>2, <2>2, <2>3, <2>4, RunStep DEF TypeInv, TypeOK
  <1>3. ASSUME Finished(p, Failed(run[p].inputs, "decompilation_failed", None)),
               UNCHANGED <<saved, drafts, listing, edits>>
        PROVE  TypeInv'
    <2>1. Failed(run[p].inputs, "decompilation_failed", None) \in Attempt
      BY <1>1, FailedIsAttempt DEF Supplied, Outcomes
    <2>2. QED
      BY <1>1, <1>3, <2>1, FinishedStep
  <1>4. QED
    BY <1>2, <1>3 DEF Decompile

LEMMA BuildType ==
    ASSUME TypeInv, NEW p \in Processes, Build(p)
    PROVE  TypeInv'
  <1>1. PICK q \in Run : q = run[p] /\ Supplied(q) /\ q.at = "build"
    BY DEF TypeInv, TypeOK, Build
  <1>2. ASSUME run' = [run EXCEPT ![p].at = "match"] PROVE TypeInv'
    <2>1. PICK r : r = [q EXCEPT !.at = "match"]
      OBVIOUS
    <2>2. run' = [run EXCEPT ![p] = r] /\ UNCHANGED <<saved, drafts, listing, edits>>
      BY <1>1, <1>2, <2>1, Zenon DEF Build
    <2>3. r \in Run /\ Supplied(r)
      BY <1>1, <2>1 DEF Run, Supplied
    <2>4. QED
      BY <2>2, <2>3, RunStep DEF TypeInv, TypeOK
  <1>3. ASSUME Finished(p, Failed(run[p].inputs, "build_failed", run[p].draft))
        PROVE  TypeInv'
    <2>1. Failed(run[p].inputs, "build_failed", run[p].draft) \in Attempt
      BY <1>1, FailedIsAttempt DEF Supplied, Outcomes
    <2>2. QED
      BY <1>1, <1>3, <2>1, FinishedStep DEF Build
  <1>4. QED
    BY <1>2, <1>3 DEF Build

LEMMA MatchType ==
    ASSUME TypeInv, NEW p \in Processes, Match(p)
    PROVE  TypeInv'
  <1>1. /\ run[p].at = "match" /\ run[p].inputs \in Inputs /\ run[p].draft \in Drafts
    BY DEF TypeInv, Supplied, Match
  <1>2. ASSUME NEW s \in Scores, Finished(p, Matched(run[p].inputs, run[p].draft, s))
        PROVE  TypeInv'
    BY <1>1, <1>2, MatchedIsAttempt, FinishedStep DEF Match
  <1>3. ASSUME Finished(p, Failed(run[p].inputs, "match_failed", run[p].draft))
        PROVE  TypeInv'
    <2>1. Failed(run[p].inputs, "match_failed", run[p].draft) \in Attempt
      BY <1>1, FailedIsAttempt DEF Outcomes
    <2>2. QED
      BY <1>1, <1>3, <2>1, FinishedStep DEF Match
  <1>4. QED
    BY <1>2, <1>3 DEF Match

LEMMA BlockedType ==
    ASSUME TypeInv, NEW p \in Processes, Blocked(p)
    PROVE  TypeInv'
  <1>1. run[p].function \in Functions /\ run[p].attempts \in Seq(Attempt)
    BY DEF TypeInv, TypeOK, Run, Supplied, Blocked
  <1>2. PICK s \in State : s = run[p].loaded[run[p].function]
    BY <1>1 DEF TypeInv, Supplied, Blocked
  <1>3. PICK h \in Seq(Attempt) : h = run[p].attempts
    BY <1>1
  <1>4. PICK t : t = [s EXCEPT !.status = "blocked", !.failure = "unavailable",
                               !.history = h]
    OBVIOUS
  <1>5. t \in State
    BY <1>4 DEF State, Statuses
  <1>6. SaveAndGoOn(p, run[p].function, t)
    BY <1>2, <1>3, <1>4, Zenon DEF Blocked
  <1>7. run[p].at # "idle"
    BY DEF Blocked
  <1>8. QED
    BY <1>1, <1>5, <1>6, <1>7, SaveStep

LEMMA FinishType ==
    ASSUME TypeInv, NEW p \in Processes, Finish(p)
    PROVE  TypeInv'
  <1>1. run[p].function \in Functions /\ run[p].attempts \in Seq(Attempt)
        /\ run[p].at # "idle"
    BY DEF TypeInv, TypeOK, Run, Supplied, Finish
  <1>2. QED
    BY <1>1, RecordedIsState, SaveStep DEF Finish

LEMMA ReanalyzeType ==
    ASSUME TypeInv, Reanalyze
    PROVE  TypeInv'
  <1>1. TypeOK'
    BY BoundsAssumption DEF TypeInv, TypeOK, Reanalyze
  <1>2. ASSUME NEW p \in Processes PROVE Supplied(run[p])'
    BY DEF Supplied, Reanalyze
  <1>3. QED
    BY <1>1, <1>2 DEF TypeInv

LEMMA StutterType ==
    ASSUME TypeInv, UNCHANGED vars
    PROVE  TypeInv'
  BY DEF TypeInv, TypeOK, Supplied, vars

LEMMA TypeStep == TypeInv /\ [Next]_vars => TypeInv'
  <1> SUFFICES ASSUME TypeInv, [Next]_vars PROVE TypeInv'
    OBVIOUS
  <1>1. ASSUME NEW p \in Processes, StartSome(p) PROVE TypeInv'
    BY <1>1, StartType DEF StartSome
  <1>2. ASSUME NEW p \in Processes, Step(p) PROVE TypeInv'
    BY <1>2, EndType, UnsupportedType, BeginType, UnreadableType, SkipType, TryType,
       DecompileType, BuildType, MatchType, BlockedType, FinishType
       DEF Step, Done, Raises
  <1>3. ASSUME NEW p \in Processes, Kill(p) PROVE TypeInv'
    BY <1>3, EndType DEF Kill
  <1>4. CASE Reanalyze
    BY <1>4, ReanalyzeType
  <1>5. CASE UNCHANGED vars
    BY <1>5, StutterType
  <1>6. QED
    BY <1>1, <1>2, <1>3, <1>4, <1>5 DEF Next

LEMMA TypeInvariant == Spec => []TypeInv
  BY InitType, TypeStep, PTL DEF Spec

\* Every variable has its type in every state: a record holds only attempts
\* that were made, a run has at each of its steps what the step works on.
THEOREM PipelineTypeCorrect == Spec => []TypeOK
  <1>1. TypeInv => TypeOK
    BY DEF TypeInv
  <1>2. QED
    BY <1>1, TypeInvariant, PTL

-----------------------------------------------------------------------------
(* What a record says agrees with the attempts it holds *)

Agrees(s) ==
    s.status \notin {"pending", "unsupported"} /\ s.failure # "unavailable" =>
        /\ s.status = StatusOf(Best(s.history))
        /\ s.best = IF s.history = <<>> THEN None ELSE Best(s.history).inputs

\* Of every record on disk, whichever function's it is.
RecordsAgree == \A s \in Stems : saved[s] # None => Agrees(saved[s])

LEMMA RecordedAgrees ==
    ASSUME NEW f \in Functions, NEW h \in Seq(Attempt)
    PROVE  Agrees(Recorded(f, h))
  <1>1. Best(h) = None <=> h = <<>>
    BY BestIsAttempt DEF Best
  <1>2. QED
    BY <1>1 DEF Agrees, Recorded

LEMMA SaveAgrees ==
    ASSUME TypeInv, RecordsAgree, NEW p \in Processes, NEW f, NEW s, Agrees(s),
           SaveAndGoOn(p, f, s)
    PROVE  RecordsAgree'
  <1>1. ASSUME NEW t \in Stems PROVE saved'[t] = s \/ saved'[t] = saved[t]
    BY DEF SaveAndGoOn, TypeInv, TypeOK
  <1>2. QED
    BY <1>1 DEF RecordsAgree

\* Every step that writes no record.
LEMMA KeptRecordsAgree ==
    ASSUME RecordsAgree, saved' = saved
    PROVE  RecordsAgree'
  BY DEF RecordsAgree

LEMMA AgreesStep == TypeInv /\ RecordsAgree /\ [Next]_vars => RecordsAgree'
  <1> SUFFICES ASSUME TypeInv, RecordsAgree, [Next]_vars PROVE RecordsAgree'
    OBVIOUS
  <1>1. ASSUME NEW p \in Processes, Unsupported(p) \/ WithoutM2c(p) PROVE RecordsAgree'
    <2>1. PICK f \in Functions, u \in {"unsupported", "blocked"},
               w \in {"unsupported", "unavailable"} :
              /\ run[p].at # "idle" /\ (u = "unsupported" \/ w = "unavailable")
              /\ SaveAndGoOn(p, f, [run[p].loaded[f] EXCEPT !.status = u, !.failure = w])
      BY <1>1 DEF Unsupported, WithoutM2c, IsNext
    <2>2. PICK s \in State : s = run[p].loaded[f]
      BY <2>1 DEF TypeInv, Supplied
    <2>3. PICK t : t = [s EXCEPT !.status = u, !.failure = w]
      OBVIOUS
    <2>4. t.status = u /\ t.failure = w
      BY <2>3 DEF State
    <2>5. SaveAndGoOn(p, f, t)
      BY <2>1, <2>2, <2>3, Zenon
    <2>6. QED
      BY <2>1, <2>4, <2>5, SaveAgrees DEF Agrees
  <1>2. ASSUME NEW p \in Processes, Blocked(p) PROVE RecordsAgree'
    <2>1. PICK s \in State : s = run[p].loaded[run[p].function]
      BY <1>2 DEF TypeInv, Supplied, Blocked
    <2>2. PICK t : t = [s EXCEPT !.status = "blocked", !.failure = "unavailable",
                                 !.history = run[p].attempts]
      OBVIOUS
    <2>3. t.failure = "unavailable"
      BY <2>2 DEF State
    <2>4. SaveAndGoOn(p, run[p].function, t)
      BY <1>2, <2>1, <2>2, Zenon DEF Blocked
    <2>5. QED
      BY <2>3, <2>4, SaveAgrees DEF Agrees
  <1>3. ASSUME NEW p \in Processes, Finish(p) PROVE RecordsAgree'
    <2>1. run[p].function \in Functions /\ run[p].attempts \in Seq(Attempt)
      BY <1>3 DEF TypeInv, TypeOK, Run, Supplied, Finish
    <2>2. QED
      BY <1>3, <2>1, RecordedAgrees, SaveAgrees DEF Finish
  <1>4. ASSUME NEW p \in Processes,
               StartSome(p) \/ Done(p) \/ Raises(p) \/ Begin(p) \/ ContextUnreadable(p)
               \/ SkipVariant(p) \/ TryVariant(p) \/ Decompile(p) \/ Build(p) \/ Match(p)
               \/ Kill(p)
        PROVE  RecordsAgree'
    <2>1. saved' = saved
      BY <1>4 DEF StartSome, Start, Done, Raises, EndRun, Begin, ContextUnreadable,
         SkipVariant, TryVariant, Decompile, Build, Match, Kill
    <2>2. QED
      BY <2>1, KeptRecordsAgree
  <1>5. CASE Reanalyze
    BY <1>5, KeptRecordsAgree DEF Reanalyze
  <1>6. CASE UNCHANGED vars
    BY <1>6, KeptRecordsAgree DEF vars
  <1>7. QED
    BY <1>1, <1>2, <1>3, <1>4, <1>5, <1>6 DEF Next, Step

LEMMA AgreesInvariant == Spec => []RecordsAgree
  <1>1. Init => RecordsAgree
    BY DEF Init, RecordsAgree
  <1>2. QED
    BY <1>1, TypeInvariant, AgreesStep, PTL DEF Spec

-----------------------------------------------------------------------------
(* Each function its own record *)

Working == {"variant", "decompile", "build", "match"}

OthersStay(p) == \A q \in Processes \ {p} : run'[q] = run[q]

Stays(p) == /\ run'[p].function = run[p].function /\ run'[p].loaded = run[p].loaded
            /\ run'[p].todo = run[p].todo /\ run'[p].command = run[p].command

\* A step of a run between two records that adds no attempt: it may begin one
\* that is not on record, or is forced, and go on with it.
Keeps(p) ==
    /\ run'[p].attempts = run[p].attempts
    /\ \/ run[p].at = "variant" /\ run'[p].at = "variant" /\ drafts' = drafts
       \/ /\ run[p].at = "variant" /\ run'[p].at = "decompile" /\ drafts' = drafts
          /\ run'[p].inputs.function = run[p].function
          /\ Seen(p, run'[p].inputs) => run[p].command.force
       \/ /\ run[p].at = "decompile" /\ run'[p].at = "build"
          /\ run'[p].inputs = run[p].inputs
          /\ drafts' = [drafts EXCEPT ![run[p].inputs] = run'[p].draft]
       \/ /\ run[p].at = "build" /\ run'[p].at = "match" /\ drafts' = drafts
          /\ run'[p].inputs = run[p].inputs /\ run'[p].draft = run[p].draft

\* One that adds an attempt: that which it was making, or one without a draft.
Adds(p, a) ==
    /\ run'[p].attempts = Append(run[p].attempts, a)
    /\ run'[p].at = "variant" /\ drafts' = drafts
    /\ \/ /\ run[p].at = "variant" /\ a.inputs.function = run[p].function
          /\ ~Seen(p, a.inputs) /\ a.draft = None
       \/ /\ run[p].at # "variant" /\ a.inputs = run[p].inputs
          /\ a.draft = None \/ (run[p].at # "decompile" /\ a.draft = run[p].draft)

\* It goes on with a variant that is left, and an exact attempt leaves none.
ExactEnds(p) ==
    /\ run[p].at = "variant" => run[p].variants # <<>>
    /\ \/ run'[p].attempts = run[p].attempts
       \/ \E a \in Attempt :
             /\ run'[p].attempts = Append(run[p].attempts, a)
             /\ a.exact => a.percent = 100 /\ run'[p].at = "variant" /\ run'[p].variants = <<>>

Works(p) ==
    /\ run[p].at \in Working /\ run'[p].at \in Working
    /\ Stays(p) /\ OthersStay(p) /\ saved' = saved
    /\ Keeps(p) \/ \E a \in Attempt : Adds(p, a)
    /\ ExactEnds(p)

\* The best and its percentage are those loaded, unless the run has tried all
\* variants.
BestSaved(p, f, s) ==
    \/ /\ s.history = run[p].loaded[f].history /\ s.best = run[p].loaded[f].best
       /\ s.percent = run[p].loaded[f].percent
    \/ /\ run[p].at \in Working \ {"variant"} /\ f = run[p].function
       /\ s.history = run[p].attempts /\ s.best = run[p].loaded[f].best
       /\ s.percent = run[p].loaded[f].percent
    \/ run[p].at \in Working /\ f = run[p].function /\ s = Recorded(f, run[p].attempts)

\* A step of a run that writes a record: of what it has loaded, with the
\* status changed, or of the attempts it has made.
Saves(p, f, s) ==
    /\ run[p].at # "idle" /\ run'[p].at = "next"
    /\ run'[p].loaded = run[p].loaded /\ run'[p].todo = run[p].todo \ {f}
    /\ OthersStay(p) /\ drafts' = drafts
    /\ saved' = [saved EXCEPT ![Stem[s.function]] = s]
    /\ s.failure = "unavailable" => s.status = "blocked"
    /\ s.function \in {f, run[p].loaded[f].function}
    /\ \/ /\ f \in run[p].todo
          /\ s.history = run[p].loaded[f].history /\ s.best = run[p].loaded[f].best
       \/ /\ run[p].at \in Working /\ f = run[p].function /\ s.history = run[p].attempts
          /\ \/ s.best = run[p].loaded[f].best
             \/ s.best = IF s.history = <<>> THEN None ELSE Best(s.history).inputs
    /\ BestSaved(p, f, s)

\* A step in which a run starts, begins with a function, or ends.
Starts(p) ==
    /\ run[p].at = "idle" /\ run'[p].at = "next"
    /\ run'[p].loaded = [f \in Functions |-> Load(f)]
    /\ OthersStay(p) /\ UNCHANGED <<saved, drafts>>

Begins(p, f) ==
    /\ run[p].at = "next" /\ f \in run[p].todo
    /\ run'[p].at = "variant" /\ run'[p].function = f
    /\ run'[p].attempts = run[p].loaded[f].history
    /\ run'[p].loaded = run[p].loaded /\ run'[p].todo = run[p].todo
    /\ OthersStay(p) /\ UNCHANGED <<saved, drafts>>

Ends(p) == run'[p].at = "idle" /\ OthersStay(p) /\ UNCHANGED <<saved, drafts>>

-----------------------------------------------------------------------------
(* What the actions do *)

LEMMA SaveEffect ==
    ASSUME TypeInv, NEW p \in Processes, NEW f \in Functions, NEW s \in State,
           SaveAndGoOn(p, f, s)
    PROVE  /\ run'[p].at = "next" /\ run'[p].loaded = run[p].loaded
           /\ run'[p].todo = run[p].todo \ {f} /\ OthersStay(p)
           /\ saved' = [saved EXCEPT ![Stem[s.function]] = s] /\ drafts' = drafts
  <1>1. PICK q \in Run : q = Idle
    BY IdleIsRun
  <1>2. PICK r : r = [q EXCEPT !.at = "next", !.command = run[p].command,
                               !.loaded = run[p].loaded, !.todo = run[p].todo \ {f}]
    OBVIOUS
  <1>3. r.at = "next" /\ r.loaded = run[p].loaded /\ r.todo = run[p].todo \ {f}
    <2>1. PICK c, l, t : c = run[p].command /\ l = run[p].loaded /\ t = run[p].todo \ {f}
      OBVIOUS
    <2>2. r = [q EXCEPT !.at = "next", !.command = c, !.loaded = l, !.todo = t]
      BY <1>2, <2>1, Zenon
    <2>3. r.at = "next" /\ r.loaded = l /\ r.todo = t
      BY <2>2 DEF Run
    <2>4. QED
      BY <2>1, <2>3
  <1>4. run' = [run EXCEPT ![p] = r]
    BY <1>1, <1>2, Zenon DEF SaveAndGoOn
  <1>5. QED
    BY <1>3, <1>4 DEF OthersStay, TypeInv, TypeOK, SaveAndGoOn

LEMMA FinishedEffect ==
    ASSUME TypeInv, NEW p \in Processes, NEW a \in Attempt, Finished(p, a)
    PROVE  /\ run'[p].at = "variant" /\ Stays(p) /\ OthersStay(p)
           /\ run'[p].attempts = Append(run[p].attempts, a)
           /\ a.exact => run'[p].variants = <<>>
  <1>1. PICK q \in Run : q = run[p]
    BY DEF TypeInv, TypeOK
  <1>2. PICK v, h : /\ v = (IF a.exact THEN <<>> ELSE q.variants)
                    /\ h = Append(q.attempts, a)
    OBVIOUS
  <1>3. PICK r : r = [q EXCEPT !.at = "variant", !.attempts = h,
                               !.variants = v, !.inputs = None, !.draft = None]
    OBVIOUS
  <1>4. run' = [run EXCEPT ![p] = r]
    BY <1>1, <1>2, <1>3, Zenon DEF Finished
  <1>5. /\ r.at = "variant" /\ r.attempts = h /\ r.function = q.function
        /\ r.loaded = q.loaded /\ r.todo = q.todo /\ r.command = q.command
        /\ r.variants = v
    BY <1>3 DEF Run
  <1>6. QED
    BY <1>1, <1>2, <1>4, <1>5 DEF Stays, OthersStay, TypeInv, TypeOK

LEMMA UnsupportedSaves ==
    ASSUME TypeInv, NEW p \in Processes, Unsupported(p) \/ WithoutM2c(p)
    PROVE  \E f \in Functions, s \in State : Saves(p, f, s)
  <1>1. PICK f \in Functions, u \in {"unsupported", "blocked"},
             w \in {"unsupported", "unavailable"} :
            /\ run[p].at # "idle" /\ f \in run[p].todo
            /\ w = "unavailable" => u = "blocked"
            /\ SaveAndGoOn(p, f, [run[p].loaded[f] EXCEPT !.status = u, !.failure = w])
    BY DEF Unsupported, WithoutM2c, IsNext
  <1>2. PICK l \in State : l = run[p].loaded[f]
    BY <1>1 DEF TypeInv, Supplied
  <1>3. PICK s : s = [l EXCEPT !.status = u, !.failure = w]
    OBVIOUS
  <1>4. /\ s \in State /\ s.status = u /\ s.failure = w /\ s.history = l.history
        /\ s.best = l.best /\ s.function = l.function /\ s.percent = l.percent
    BY <1>3 DEF State, Statuses
  <1>5. SaveAndGoOn(p, f, s)
    BY <1>1, <1>2, <1>3, Zenon
  <1>6. Saves(p, f, s)
    <2>1. BestSaved(p, f, s)
      BY <1>2, <1>4 DEF BestSaved
    <2>2. QED
      BY <1>1, <1>2, <1>4, <1>5, <2>1, SaveEffect DEF Saves
  <1>7. QED
    BY <1>4, <1>6

LEMMA BlockedSaves ==
    ASSUME TypeInv, NEW p \in Processes, Blocked(p)
    PROVE  \E f \in Functions, s \in State : Saves(p, f, s)
  <1>1. PICK f \in Functions :
            /\ f = run[p].function /\ run[p].at \in Working
            /\ run[p].at \in Working \ {"variant"}
    BY DEF TypeInv, Supplied, Blocked, Working
  <1>2. PICK l \in State : l = run[p].loaded[f]
    BY <1>1 DEF TypeInv, Supplied, Blocked
  <1>3. PICK h \in Seq(Attempt) : h = run[p].attempts
    BY DEF TypeInv, TypeOK, Run
  <1>4. PICK s : s = [l EXCEPT !.status = "blocked", !.failure = "unavailable",
                               !.history = h]
    OBVIOUS
  <1>5. /\ s \in State /\ s.status = "blocked" /\ s.history = h
        /\ s.best = l.best /\ s.function = l.function /\ s.percent = l.percent
    BY <1>4 DEF State, Statuses
  <1>6. SaveAndGoOn(p, f, s)
    BY <1>1, <1>2, <1>3, <1>4, Zenon DEF Blocked
  <1>7. /\ run'[p].at = "next" /\ run'[p].loaded = run[p].loaded
        /\ run'[p].todo = run[p].todo \ {f} /\ OthersStay(p)
        /\ saved' = [saved EXCEPT ![Stem[s.function]] = s] /\ drafts' = drafts
    BY <1>5, <1>6, SaveEffect, Zenon
  <1>8. run[p].at # "idle" /\ s.function \in {f, run[p].loaded[f].function}
    BY <1>1, <1>2, <1>5 DEF Working
  <1>9. s.history = run[p].attempts /\ s.best = run[p].loaded[f].best
        /\ BestSaved(p, f, s)
    BY <1>1, <1>2, <1>3, <1>5 DEF BestSaved
  <1>10. Saves(p, f, s)
    BY <1>1, <1>5, <1>7, <1>8, <1>9, Zenon DEF Saves
  <1>11. QED
    BY <1>5, <1>10

LEMMA FinishSaves ==
    ASSUME TypeInv, NEW p \in Processes, Finish(p)
    PROVE  \E f \in Functions, s \in State : Saves(p, f, s)
  <1>1. PICK f \in Functions, h \in Seq(Attempt) :
            f = run[p].function /\ h = run[p].attempts /\ run[p].at \in Working
    BY DEF TypeInv, TypeOK, Run, Supplied, Finish, Working
  <1>2. PICK s \in State : s = Recorded(f, h)
    BY RecordedIsState
  <1>3. SaveAndGoOn(p, f, s)
    BY <1>1, <1>2 DEF Finish
  <1>4. /\ s.function = f /\ s.history = h /\ s.failure # "unavailable"
        /\ s.best = IF Best(h) = None THEN None ELSE Best(h).inputs
    BY <1>2, UnsetAssumption DEF Recorded
  <1>5. Best(h) = None <=> h = <<>>
    BY BestIsAttempt DEF Best
  <1>6. Saves(p, f, s)
    <2>1. BestSaved(p, f, s)
      BY <1>1, <1>2 DEF BestSaved
    <2>2. QED
      BY <1>1, <1>3, <1>4, <1>5, <2>1, SaveEffect DEF Saves, Working
  <1>7. QED
    BY <1>6

LEMMA SaveActions ==
    ASSUME TypeInv, NEW p \in Processes,
           Unsupported(p) \/ WithoutM2c(p) \/ Blocked(p) \/ Finish(p)
    PROVE  \E f \in Functions, s \in State : Saves(p, f, s)
  BY UnsupportedSaves, BlockedSaves, FinishSaves

LEMMA UnreadableWorks ==
    ASSUME TypeInv, NEW p \in Processes, ContextUnreadable(p)
    PROVE  Works(p)
  <1>1. AtVariant(p) /\ run[p].at = "variant"
    BY DEF ContextUnreadable, AtVariant
  <1>2. PICK a \in Attempt : /\ a = Failed(Unread(p), "decompilation_failed", None)
                             /\ a.inputs.function = run[p].function
                             /\ a.inputs = Unread(p) /\ a.draft = None
                             /\ a.exact = FALSE
    <2>1. Failed(Unread(p), "decompilation_failed", None) \in Attempt
      BY <1>1, AtVariantType, InputsType, FailedIsAttempt DEF Outcomes
    <2>2. Unread(p).function = run[p].function
      <3>1. PICK i : i = [function |-> run[p].function,
                          listing |-> listing[run[p].function],
                          contexts |-> "none", tools |-> run[p].command.tools]
        OBVIOUS
      <3>2. i \in Inputs
        BY <1>1, <3>1, InputsType DEF InputsOf
      <3>3. Unread(p) = [i EXCEPT !.listing = "unavailable"]
        BY <3>1, Zenon DEF Unread, InputsOf
      <3>4. QED
        BY <3>1, <3>2, <3>3 DEF Inputs
    <2>3. /\ Failed(Unread(p), "decompilation_failed", None).inputs = Unread(p)
          /\ Failed(Unread(p), "decompilation_failed", None).draft = None
          /\ Failed(Unread(p), "decompilation_failed", None).exact = FALSE
      BY DEF Failed
    <2>4. QED
      BY <2>1, <2>2, <2>3, Zenon
  <1>3. PICK q \in Run : q = run[p]
    BY DEF TypeInv, TypeOK
  <1>4. PICK h : h = IF Seen(p, Unread(p)) THEN run[p].attempts
                     ELSE Append(run[p].attempts,
                                 Failed(Unread(p), "decompilation_failed", None))
    OBVIOUS
  <1>5. h = run[p].attempts \/ (h = Append(run[p].attempts, a) /\ ~Seen(p, a.inputs))
    BY <1>2, <1>4, Zenon
  <1>6. PICK v : v = Tail(run[p].variants)
    OBVIOUS
  <1>7. PICK r : r = [q EXCEPT !.variants = v, !.attempts = h]
    OBVIOUS
  <1>8. run' = [run EXCEPT ![p] = r] /\ UNCHANGED <<saved, drafts>>
    BY <1>3, <1>4, <1>6, <1>7, Zenon DEF ContextUnreadable
  <1>9. r.at = q.at /\ r.function = q.function /\ r.loaded = q.loaded /\ r.todo = q.todo
        /\ r.command = q.command /\ r.attempts = h
    BY <1>7 DEF Run
  <1>10. run'[p] = r /\ OthersStay(p)
    BY <1>8 DEF OthersStay, TypeInv, TypeOK
  <1>11. Keeps(p) \/ Adds(p, a)
    BY <1>1, <1>2, <1>3, <1>5, <1>8, <1>9, <1>10 DEF Keeps, Adds
  <1>12. ExactEnds(p)
    BY <1>1, <1>2, <1>5, <1>9, <1>10 DEF ExactEnds, AtVariant
  <1>13. QED
    BY <1>1, <1>3, <1>8, <1>9, <1>10, <1>11, <1>12 DEF Works, Stays, Working

LEMMA VariantWorks ==
    ASSUME TypeInv, NEW p \in Processes, SkipVariant(p) \/ TryVariant(p)
    PROVE  Works(p)
  <1>1. AtVariant(p) /\ run[p].at = "variant"
    BY DEF SkipVariant, TryVariant, AtVariant
  <1>2. PICK q \in Run : q = run[p]
    BY DEF TypeInv, TypeOK
  <1>3. PICK v, i : v = Tail(run[p].variants) /\ i = InputsOf(p, Variant(p))
    OBVIOUS
  <1>4. i.function = run[p].function
    BY <1>3 DEF InputsOf
  <1>5. CASE SkipVariant(p)
    <2>1. PICK r : r = [q EXCEPT !.variants = v]
      OBVIOUS
    <2>2. run' = [run EXCEPT ![p] = r] /\ UNCHANGED <<saved, drafts>>
      BY <1>2, <1>3, <1>5, <2>1, Zenon DEF SkipVariant
    <2>3. r.at = q.at /\ r.function = q.function /\ r.loaded = q.loaded
          /\ r.todo = q.todo /\ r.attempts = q.attempts /\ r.command = q.command
      BY <2>1 DEF Run
    <2>4. run'[p] = r /\ OthersStay(p)
      BY <2>2 DEF OthersStay, TypeInv, TypeOK
    <2>5. ExactEnds(p)
      BY <1>1, <1>2, <2>3, <2>4 DEF ExactEnds, AtVariant
    <2>6. QED
      BY <1>1, <1>2, <2>2, <2>3, <2>4, <2>5 DEF Works, Keeps, Stays, Working
  <1>6. CASE TryVariant(p)
    <2>1. PICK r : r = [q EXCEPT !.at = "decompile", !.variants = v, !.inputs = i]
      OBVIOUS
    <2>2. run' = [run EXCEPT ![p] = r] /\ UNCHANGED <<saved, drafts>>
      BY <1>2, <1>3, <1>6, <2>1, Zenon DEF TryVariant
    <2>3. r.at = "decompile" /\ r.function = q.function /\ r.loaded = q.loaded
          /\ r.todo = q.todo /\ r.attempts = q.attempts /\ r.inputs = i
          /\ r.command = q.command
      BY <2>1 DEF Run
    <2>4. run'[p] = r /\ OthersStay(p)
      BY <2>2 DEF OthersStay, TypeInv, TypeOK
    <2>5. Seen(p, i) => run[p].command.force
      BY <1>3, <1>6, Zenon DEF TryVariant, Repeats
    <2>6. Keeps(p)
      BY <1>1, <1>2, <1>4, <2>2, <2>3, <2>4, <2>5 DEF Keeps
    <2>7. ExactEnds(p)
      BY <1>1, <1>2, <2>3, <2>4 DEF ExactEnds, AtVariant
    <2>8. QED
      BY <1>1, <1>2, <2>2, <2>3, <2>4, <2>6, <2>7 DEF Works, Stays, Working
  <1>7. QED
    BY <1>5, <1>6

LEMMA FinishedWorks ==
    ASSUME TypeInv, NEW p \in Processes, run[p].at \in Working \ {"variant"},
           NEW a \in Attempt, a.inputs = run[p].inputs,
           a.draft = None \/ (run[p].at # "decompile" /\ a.draft = run[p].draft),
           a.exact => a.percent = 100, Finished(p, a), UNCHANGED <<saved, drafts>>
    PROVE  Works(p)
  <1>1. ExactEnds(p)
    BY FinishedEffect DEF ExactEnds
  <1>2. QED
    BY <1>1, FinishedEffect DEF Works, Adds, Working

LEMMA DecompileWorks ==
    ASSUME TypeInv, NEW p \in Processes, Decompile(p)
    PROVE  Works(p)
  <1>1. PICK q \in Run : q = run[p] /\ Supplied(q) /\ q.at = "decompile"
    BY DEF TypeInv, TypeOK, Decompile
  <1>2. ASSUME NEW d \in Drafts, run' = [run EXCEPT ![p].at = "build", ![p].draft = d],
               drafts' = [drafts EXCEPT ![run[p].inputs] = d]
        PROVE  Works(p)
    <2>1. PICK r : r = [q EXCEPT !.at = "build", !.draft = d]
      OBVIOUS
    <2>2. run' = [run EXCEPT ![p] = r]
      BY <1>1, <1>2, <2>1, Zenon
    <2>3. r.at = "build" /\ r.function = q.function /\ r.loaded = q.loaded
          /\ r.todo = q.todo /\ r.attempts = q.attempts /\ r.inputs = q.inputs
          /\ r.draft = d /\ r.command = q.command
      BY <2>1 DEF Run
    <2>4. run'[p] = r /\ OthersStay(p) /\ saved' = saved
      BY <2>2 DEF OthersStay, TypeInv, TypeOK, Decompile
    <2>5. ExactEnds(p)
      BY <1>1, <2>3, <2>4 DEF ExactEnds
    <2>6. QED
      BY <1>1, <1>2, <2>3, <2>4, <2>5 DEF Works, Keeps, Stays, Working
  <1>3. ASSUME Finished(p, Failed(run[p].inputs, "decompilation_failed", None)),
               drafts' = drafts
        PROVE  Works(p)
    <2>1. PICK a \in Attempt : a = Failed(run[p].inputs, "decompilation_failed", None)
      BY <1>1, FailedIsAttempt DEF Supplied, Outcomes
    <2>2. a.inputs = run[p].inputs /\ a.draft = None /\ a.exact = FALSE
      BY <2>1 DEF Failed
    <2>3. QED
      BY <1>1, <1>3, <2>1, <2>2, FinishedWorks DEF Working, Decompile
  <1>4. QED
    BY <1>2, <1>3 DEF Decompile

LEMMA BuildWorks ==
    ASSUME TypeInv, NEW p \in Processes, Build(p)
    PROVE  Works(p)
  <1>1. PICK q \in Run : q = run[p] /\ Supplied(q) /\ q.at = "build"
    BY DEF TypeInv, TypeOK, Build
  <1>2. ASSUME run' = [run EXCEPT ![p].at = "match"] PROVE Works(p)
    <2>1. PICK r : r = [q EXCEPT !.at = "match"]
      OBVIOUS
    <2>2. run' = [run EXCEPT ![p] = r]
      BY <1>1, <1>2, <2>1, Zenon
    <2>3. r.at = "match" /\ r.function = q.function /\ r.loaded = q.loaded
          /\ r.todo = q.todo /\ r.attempts = q.attempts /\ r.inputs = q.inputs
          /\ r.draft = q.draft /\ r.command = q.command
      BY <2>1 DEF Run
    <2>4. run'[p] = r /\ OthersStay(p) /\ UNCHANGED <<saved, drafts>>
      BY <2>2 DEF OthersStay, TypeInv, TypeOK, Build
    <2>5. ExactEnds(p)
      BY <1>1, <2>3, <2>4 DEF ExactEnds
    <2>6. QED
      BY <1>1, <2>3, <2>4, <2>5 DEF Works, Keeps, Stays, Working
  <1>3. ASSUME Finished(p, Failed(run[p].inputs, "build_failed", run[p].draft))
        PROVE  Works(p)
    <2>1. PICK a \in Attempt : a = Failed(run[p].inputs, "build_failed", run[p].draft)
      BY <1>1, FailedIsAttempt DEF Supplied, Outcomes
    <2>2. a.inputs = run[p].inputs /\ a.draft = run[p].draft /\ a.exact = FALSE
      BY <2>1 DEF Failed
    <2>3. QED
      BY <1>1, <1>3, <2>1, <2>2, FinishedWorks DEF Working, Build
  <1>4. QED
    BY <1>2, <1>3 DEF Build

LEMMA MatchWorks ==
    ASSUME TypeInv, NEW p \in Processes, Match(p)
    PROVE  Works(p)
  <1>1. /\ run[p].at = "match" /\ run[p].inputs \in Inputs /\ run[p].draft \in Drafts
        /\ UNCHANGED <<saved, drafts>>
    BY DEF TypeInv, Supplied, Match
  <1>2. ASSUME NEW a \in Attempt, a.inputs = run[p].inputs, a.draft = run[p].draft,
               a.exact => a.percent = 100, Finished(p, a)
        PROVE  Works(p)
    BY <1>1, <1>2, FinishedWorks DEF Working
  <1>3. ASSUME NEW s \in Scores, Finished(p, Matched(run[p].inputs, run[p].draft, s))
        PROVE  Works(p)
    <2>1. PICK a \in Attempt : a = Matched(run[p].inputs, run[p].draft, s)
      BY <1>1, MatchedIsAttempt
    <2>2. a.inputs = run[p].inputs /\ a.draft = run[p].draft /\ (a.exact => a.percent = 100)
      BY <2>1, ScoresAssumption DEF Matched
    <2>3. QED
      BY <1>2, <1>3, <2>1, <2>2
  <1>4. ASSUME Finished(p, Failed(run[p].inputs, "match_failed", run[p].draft))
        PROVE  Works(p)
    <2>1. PICK a \in Attempt : a = Failed(run[p].inputs, "match_failed", run[p].draft)
      BY <1>1, FailedIsAttempt DEF Outcomes
    <2>2. a.inputs = run[p].inputs /\ a.draft = run[p].draft /\ a.exact = FALSE
      BY <2>1 DEF Failed
    <2>3. QED
      BY <1>2, <1>4, <2>1, <2>2
  <1>5. QED
    BY <1>3, <1>4 DEF Match

LEMMA BeginEffect ==
    ASSUME TypeInv, NEW p \in Processes, Begin(p)
    PROVE  \E f \in Functions : Begins(p, f)
  <1>1. PICK f \in Functions :
            /\ IsNext(p, f)
            /\ run' = [run EXCEPT ![p].at = "variant", ![p].function = f,
                                  ![p].variants = Variants(run[p].command),
                                  ![p].attempts = run[p].loaded[f].history]
            /\ UNCHANGED <<saved, drafts>>
    BY DEF Begin
  <1>2. PICK q \in Run : q = run[p]
    BY DEF TypeInv, TypeOK
  <1>3. PICK v, h : v = Variants(run[p].command) /\ h = run[p].loaded[f].history
    OBVIOUS
  <1>4. PICK r : r = [q EXCEPT !.at = "variant", !.function = f, !.variants = v,
                               !.attempts = h]
    OBVIOUS
  <1>5. run' = [run EXCEPT ![p] = r]
    BY <1>1, <1>2, <1>3, <1>4, Zenon
  <1>6. r.at = "variant" /\ r.function = f /\ r.loaded = q.loaded /\ r.todo = q.todo
        /\ r.attempts = h
    BY <1>4 DEF Run
  <1>7. QED
    BY <1>1, <1>2, <1>3, <1>5, <1>6 DEF Begins, OthersStay, IsNext, TypeInv, TypeOK

LEMMA StartEffect ==
    ASSUME TypeInv, NEW p \in Processes, StartSome(p)
    PROVE  Starts(p)
  <1>1. PICK c \in Commands : Start(p, c)
    BY DEF StartSome
  <1>2. PICK q \in Run : q = Idle
    BY IdleIsRun
  <1>3. PICK l, t : l = [f \in Functions |-> Load(f)] /\ t = Selected(c, l)
    OBVIOUS
  <1>4. PICK r : r = [q EXCEPT !.at = "next", !.command = c, !.loaded = l, !.todo = t]
    OBVIOUS
  <1>5. /\ run' = [run EXCEPT ![p] = r] /\ UNCHANGED <<saved, drafts>>
        /\ run[p].at = "idle"
    BY <1>1, <1>2, <1>3, <1>4, Zenon DEF Start
  <1>6. r.at = "next" /\ r.loaded = l
    BY <1>4 DEF Run
  <1>7. QED
    BY <1>3, <1>5, <1>6 DEF Starts, OthersStay, TypeInv, TypeOK

LEMMA EndEffect ==
    ASSUME TypeInv, NEW p \in Processes, EndRun(p)
    PROVE  Ends(p)
  BY DEF Ends, EndRun, OthersStay, TypeInv, TypeOK, Idle

\* A step that no run makes: nothing, or a new analysis, which drops all drafts.
Rests ==
    /\ saved' = saved /\ run' = run
    /\ \/ drafts' = drafts
       \/ /\ \A p \in Processes : run[p].at = "idle"
          /\ \A i \in Inputs : drafts'[i] = None

LEMMA StepKinds ==
    ASSUME TypeInv, [Next]_vars
    PROVE  \/ Rests
           \/ \E p \in Processes :
                 \/ Starts(p) \/ Ends(p) \/ Works(p)
                 \/ \E f \in Functions : Begins(p, f)
                 \/ \E f \in Functions, s \in State : Saves(p, f, s)
  <1> DEFINE Goal(p) == \/ Starts(p) \/ Ends(p) \/ Works(p)
                        \/ \E f \in Functions : Begins(p, f)
                        \/ \E f \in Functions, s \in State : Saves(p, f, s)
  <1>1. ASSUME NEW p \in Processes, StartSome(p) PROVE Goal(p)
    BY <1>1, StartEffect
  <1>2. ASSUME NEW p \in Processes, Done(p) \/ Raises(p) \/ Kill(p) PROVE Goal(p)
    <2>1. EndRun(p)
      BY <1>2 DEF Done, Raises, Kill
    <2>2. QED
      BY <2>1, EndEffect
  <1>3. ASSUME NEW p \in Processes, Begin(p) PROVE Goal(p)
    BY <1>3, BeginEffect
  <1>4. ASSUME NEW p \in Processes,
               ContextUnreadable(p) \/ SkipVariant(p) \/ TryVariant(p) PROVE Goal(p)
    BY <1>4, UnreadableWorks, VariantWorks
  <1>5. ASSUME NEW p \in Processes, Decompile(p) \/ Build(p) \/ Match(p) PROVE Goal(p)
    BY <1>5, DecompileWorks, BuildWorks, MatchWorks
  <1>6. ASSUME NEW p \in Processes,
               Unsupported(p) \/ WithoutM2c(p) \/ Blocked(p) \/ Finish(p) PROVE Goal(p)
    BY <1>6, SaveActions
  <1>7. ASSUME Reanalyze PROVE Rests
    BY <1>7 DEF Reanalyze, Rests
  <1>8. ASSUME UNCHANGED vars PROVE Rests
    BY <1>8 DEF vars, Rests
  <1> HIDE DEF Goal
  <1>9. ASSUME NEW p \in Processes, StartSome(p) \/ Step(p) \/ Kill(p) PROVE Goal(p)
    BY <1>1, <1>2, <1>3, <1>4, <1>5, <1>6, <1>9 DEF Step
  <1>10. Rests \/ \E p \in Processes : Goal(p)
    BY <1>7, <1>8, <1>9 DEF Next
  <1>11. QED
    BY <1>10 DEF Goal

-----------------------------------------------------------------------------
(* Every attempt was made for the function whose record holds it *)

\* No two functions share a record: the stems of the analysed modules'
\* functions differ (two names of a module may map to one, and then not).
OwnRecords == \A f, g \in Functions : Stem[f] = Stem[g] => f = g

Owned(s, f) ==
    /\ s.function = f
    /\ \A i \in DOMAIN s.history : s.history[i].inputs.function = f
    /\ s.failure = "unavailable" => s.status = "blocked"

RunOwned(r) ==
    /\ r.at # "idle" => \A f \in Functions : Owned(r.loaded[f], f)
    /\ r.at \in Working =>
          \A i \in DOMAIN r.attempts : r.attempts[i].inputs.function = r.function

\* What a run is making is an attempt for the function it is at.
InputsOwned ==
    \A p \in Processes : run[p].at \in Working \ {"variant"} =>
        run[p].inputs.function = run[p].function

RecordsOwned ==
    /\ \A f \in Functions : Owned(Load(f), f)
    /\ \A p \in Processes : RunOwned(run[p])
    /\ InputsOwned

LEMMA SavedIsLoaded ==
    ASSUME OwnRecords, TypeInv, NEW s \in State, NEW f \in Functions, s.function = f,
           saved' = [saved EXCEPT ![Stem[s.function]] = s]
    PROVE  Load(f)' = s /\ \A g \in Functions \ {f} : Load(g)' = Load(g)
  <1>1. saved'[Stem[f]] = s /\ s # None
    BY StemAssumption, StateAssumption DEF TypeInv, TypeOK
  <1>2. \A g \in Functions \ {f} : saved'[Stem[g]] = saved[Stem[g]]
    BY StemAssumption DEF OwnRecords, TypeInv, TypeOK
  <1>3. QED
    BY <1>1, <1>2 DEF Load

LEMMA KeptIsLoaded == saved' = saved => \A f \in Functions : Load(f)' = Load(f)
  BY DEF Load

LEMMA OwnedInit == Init => RecordsOwned
  <1> SUFFICES ASSUME Init PROVE RecordsOwned
    OBVIOUS
  <1>1. ASSUME NEW f \in Functions PROVE Owned(Load(f), f)
    <2>1. Load(f) = Fresh(f)
      BY StemAssumption DEF Init, Load
    <2>2. QED
      BY <2>1, UnsetAssumption DEF Fresh, Owned
  <1>2. \A p \in Processes : run[p].at = "idle"
    BY DEF Init, Idle
  <1>3. QED
    BY <1>1, <1>2 DEF RecordsOwned, RunOwned, InputsOwned, Working

\* Only the run of p and what it saves can disturb the invariant.
LEMMA OwnedFrame ==
    ASSUME RecordsOwned, NEW p \in Processes, OthersStay(p),
           \A f \in Functions : Owned(Load(f), f)', RunOwned(run[p])',
           run'[p].at \in Working \ {"variant"} => run'[p].inputs.function = run'[p].function
    PROVE  RecordsOwned'
  <1>1. ASSUME NEW q \in Processes \ {p} PROVE RunOwned(run[q])'
    BY DEF OthersStay, RecordsOwned, RunOwned
  <1>2. InputsOwned'
    BY DEF OthersStay, RecordsOwned, InputsOwned
  <1>3. QED
    BY <1>1, <1>2 DEF RecordsOwned

LEMMA OwnedStep == OwnRecords /\ TypeInv /\ RecordsOwned /\ [Next]_vars => RecordsOwned'
  <1> SUFFICES ASSUME OwnRecords, TypeInv, RecordsOwned, [Next]_vars PROVE RecordsOwned'
    OBVIOUS
  <1>1. saved' = saved => \A f \in Functions : Owned(Load(f), f)'
    BY DEF RecordsOwned, Load
  <1>2. ASSUME NEW p \in Processes, Starts(p) PROVE RecordsOwned'
    <2>1. RunOwned(run[p])'
      BY <1>2 DEF Starts, RunOwned, RecordsOwned, Working
    <2>2. QED
      BY <1>1, <1>2, <2>1, OwnedFrame DEF Starts, Working
  <1>3. ASSUME NEW p \in Processes, Ends(p) PROVE RecordsOwned'
    <2>1. RunOwned(run[p])'
      BY <1>3 DEF Ends, RunOwned, Working
    <2>2. QED
      BY <1>1, <1>3, <2>1, OwnedFrame DEF Ends, Working
  <1>4. ASSUME NEW p \in Processes, NEW f \in Functions, Begins(p, f) PROVE RecordsOwned'
    <2>1. \A g \in Functions : Owned(run[p].loaded[g], g)
      BY <1>4 DEF Begins, RunOwned, RecordsOwned
    <2>2. /\ run'[p].loaded = run[p].loaded /\ run'[p].function = f
          /\ run'[p].attempts = run[p].loaded[f].history
      BY <1>4 DEF Begins
    <2>3. \A i \in DOMAIN run'[p].attempts :
             run'[p].attempts[i].inputs.function = run'[p].function
      <3>1. \A i \in DOMAIN run[p].loaded[f].history :
               run[p].loaded[f].history[i].inputs.function = f
        BY <2>1, Zenon DEF Owned
      <3>2. QED
        BY <2>2, <3>1
    <2>4. \A g \in Functions : Owned(run'[p].loaded[g], g)
      BY <2>1, <2>2
    <2>5. RunOwned(run[p])'
      BY <2>3, <2>4 DEF RunOwned, Owned
    <2>6. QED
      BY <1>1, <1>4, <2>5, OwnedFrame DEF Begins, Working
  <1>5. ASSUME NEW p \in Processes, Works(p) PROVE RecordsOwned'
    <2>1. RunOwned(run[p])
      BY DEF RecordsOwned
    <2>2. ASSUME NEW i \in DOMAIN run'[p].attempts
          PROVE  run'[p].attempts[i].inputs.function = run'[p].function
      <3>1. run[p].attempts \in Seq(Attempt) /\ run'[p].function = run[p].function
        BY <1>5 DEF TypeInv, TypeOK, Run, Works, Stays
      <3>2. CASE run'[p].attempts = run[p].attempts
        BY <1>5, <2>1, <3>1, <3>2 DEF RunOwned, Works
      <3>3. ASSUME NEW a \in Attempt, Adds(p, a)
            PROVE  run'[p].attempts[i].inputs.function = run'[p].function
        <4>1. run'[p].attempts[i] = a \/
              (i \in DOMAIN run[p].attempts /\ run'[p].attempts[i] = run[p].attempts[i])
          BY <3>1, <3>3 DEF Adds
        <4>2. a.inputs.function = run[p].function
          BY <1>5, <3>3 DEF Adds, Works, Working, RecordsOwned, InputsOwned
        <4>3. QED
          BY <1>5, <2>1, <3>1, <4>1, <4>2 DEF RunOwned, Works
      <3>4. QED
        BY <1>5, <3>2, <3>3 DEF Works, Keeps
    <2>3. RunOwned(run[p])'
      BY <1>5, <2>1, <2>2 DEF Works, Stays, RunOwned, Working
    <2>4. QED
      BY <1>1, <1>5, <2>3, OwnedFrame
         DEF Works, Keeps, Adds, Stays, Working, RecordsOwned, InputsOwned
  <1>6. ASSUME NEW p \in Processes, NEW f \in Functions, NEW s \in State, Saves(p, f, s)
        PROVE  RecordsOwned'
    <2>1. RunOwned(run[p])
      BY DEF RecordsOwned
    <2>2. Owned(s, f)
      <3>1. run[p].at # "idle" /\ s.function \in {f, run[p].loaded[f].function}
            /\ (s.failure = "unavailable" => s.status = "blocked")
        BY <1>6, Zenon DEF Saves
      <3>2. Owned(run[p].loaded[f], f)
        BY <2>1, <3>1 DEF RunOwned
      <3>3. \A i \in DOMAIN s.history : s.history[i].inputs.function = f
        <4>1. CASE s.history = run[p].loaded[f].history
          BY <3>2, <4>1 DEF Owned
        <4>2. CASE run[p].at \in Working /\ f = run[p].function /\ s.history = run[p].attempts
          BY <2>1, <4>2 DEF RunOwned
        <4>3. QED
          BY <1>6, <4>1, <4>2, Zenon DEF Saves
      <3>4. s.function = f
        BY <3>1, <3>2 DEF Owned
      <3>5. QED
        BY <3>1, <3>3, <3>4 DEF Owned
    <2>3. \A g \in Functions : Owned(Load(g), g)'
      <3>1. Load(f)' = s /\ \A g \in Functions \ {f} : Load(g)' = Load(g)
        BY <1>6, <2>2, SavedIsLoaded DEF Saves, Owned
      <3>2. QED
        BY <2>2, <3>1 DEF RecordsOwned, Owned
    <2>4. RunOwned(run[p])'
      BY <1>6, <2>1 DEF Saves, RunOwned, Working
    <2>5. QED
      BY <1>6, <2>3, <2>4, OwnedFrame DEF Saves, Working
  <1>7. CASE Rests
    BY <1>1, <1>7 DEF Rests, RecordsOwned, RunOwned, InputsOwned
  <1>8. QED
    BY <1>2, <1>3, <1>4, <1>5, <1>6, <1>7, StepKinds

LEMMA LoadAgrees ==
    ASSUME RecordsAgree, NEW f \in Functions
    PROVE  Agrees(Load(f))
  <1>1. CASE saved[Stem[f]] = None
    BY <1>1 DEF Load, Fresh, Agrees
  <1>2. CASE saved[Stem[f]] # None
    BY <1>2, StemAssumption DEF Load, RecordsAgree
  <1>3. QED
    BY <1>1, <1>2

LEMMA OwnedIsExact == TypeInv /\ RecordsAgree /\ RecordsOwned => ExactIsOwn
  <1> SUFFICES ASSUME TypeInv, RecordsAgree, RecordsOwned,
                      NEW f \in Functions, Load(f).status = "matched_exact"
               PROVE  \E i \in DOMAIN History(f) :
                          History(f)[i].exact /\ History(f)[i].inputs.function = f
    BY DEF ExactIsOwn
  <1>1. Load(f).failure # "unavailable"
    BY DEF RecordsOwned, Owned
  <1>2. StatusOf(Best(History(f))) = "matched_exact"
    BY <1>1, LoadAgrees DEF Agrees, History
  <1>3. Best(History(f)) # None /\ Best(History(f)).exact
    BY <1>2 DEF StatusOf
  <1>4. History(f) \in Seq(Attempt) /\ History(f) # <<>>
    BY <1>3, LoadType DEF TypeInv, History, State, Best
  <1>5. QED
    BY <1>3, <1>4, BestIsAttempt DEF RecordsOwned, Owned, History

LEMMA OwnedInvariant ==
    ASSUME OwnRecords
    PROVE  Spec => []RecordsOwned
  <1>1. TypeInv /\ RecordsOwned /\ [Next]_vars => RecordsOwned'
    BY OwnedStep
  <1>2. QED
    BY <1>1, OwnedInit, TypeInvariant, PTL DEF Spec

\* Where no two functions share a record, a function counts as matched only
\* by an exact attempt that was made for it, with any number of runs at once.
THEOREM ExactIsAlwaysOwn ==
    ASSUME OwnRecords
    PROVE  Spec => []ExactIsOwn
  BY OwnedInvariant, TypeInvariant, AgreesInvariant, OwnedIsExact, PTL

-----------------------------------------------------------------------------
(* The records implement the log of attempts *)

OneRun == \A p, q \in Processes : p = q

\* What a run has loaded of the functions it has still to do is what is on
\* record, and the attempts it has made extend that.
RunKept(r) ==
    /\ r.at # "idle" => \A f \in r.todo : r.loaded[f] = Load(f)
    /\ r.at \in Working =>
          /\ r.function \in r.todo
          /\ Log!Extends(r.attempts, r.loaded[r.function].history)

RecordsKept ==
    /\ \A f \in Functions : History(f) = <<>> => Load(f).best = None
    /\ \A p \in Processes : RunKept(run[p])

\* The log ranks attempts as the pipeline does.
LEMMA LogBest ==
    ASSUME NEW h
    PROVE  Log!Best(h) = Best(h)
  BY DEF Best, IsBest, Precedes, Rank, Log!Best, Log!IsBest, Log!Precedes, Log!Rank

LEMMA ExtendsItself ==
    ASSUME NEW h \in Seq(Attempt)
    PROVE  Log!Extends(h, h)
  BY DEF Log!Extends

LEMMA AppendExtends ==
    ASSUME NEW h \in Seq(Attempt), NEW k \in Seq(Attempt), NEW a \in Attempt,
           Log!Extends(k, h)
    PROVE  Log!Extends(Append(k, a), h)
  BY DEF Log!Extends

LEMMA KeptInit == Init => RecordsKept
  <1> SUFFICES ASSUME Init PROVE RecordsKept
    OBVIOUS
  <1>1. \A f \in Functions : Load(f).best = None
    BY StemAssumption DEF Init, Load, Fresh
  <1>2. \A p \in Processes : run[p].at = "idle"
    BY DEF Init, Idle
  <1>3. QED
    BY <1>1, <1>2 DEF RecordsKept, RunKept, Working

\* A step that writes no record keeps them if it does so in its own run.
LEMMA KeptFrame ==
    ASSUME OneRun, RecordsKept, NEW p \in Processes, saved' = saved, RunKept(run[p])'
    PROVE  RecordsKept' /\ UNCHANGED Log!logVars
  <1>1. \A f \in Functions : Load(f)' = Load(f)
    BY KeptIsLoaded
  <1>2. RecordsKept'
    BY <1>1 DEF RecordsKept, OneRun, History
  <1>3. UNCHANGED Log!logVars
    BY <1>1 DEF Log!logVars, History
  <1>4. QED
    BY <1>2, <1>3

LEMMA SaveKeeps ==
    ASSUME OwnRecords, OneRun, TypeInv, TypeInv', RecordsOwned, RecordsKept,
           NEW p \in Processes, NEW f \in Functions, NEW s \in State, Saves(p, f, s)
    PROVE  RecordsKept' /\ [Log!LogNext]_(Log!logVars)
  <1>1. s.function = f /\ run[p].todo \subseteq Functions
    <2>1. run[p].at # "idle" /\ s.function \in {f, run[p].loaded[f].function}
      BY Zenon DEF Saves
    <2>2. run[p].loaded[f].function = f
      <3>1. RunOwned(run[p])
        BY DEF RecordsOwned
      <3>2. Owned(run[p].loaded[f], f)
        BY <2>1, <3>1, Zenon DEF RunOwned
      <3>3. QED
        BY <3>2, Zenon DEF Owned
    <2>3. run[p].todo \subseteq Functions
      BY DEF TypeInv, TypeOK, Run
    <2>4. QED
      BY <2>1, <2>2, <2>3
  <1>2. Load(f)' = s /\ \A g \in Functions \ {f} : Load(g)' = Load(g)
    BY <1>1, SavedIsLoaded DEF Saves
  <1>3. RunKept(run[p])
    BY DEF RecordsKept
  <1>4. Load(f) \in State
    BY LoadType DEF TypeInv
  <1>5. /\ run[p].loaded[f] = Load(f)
        /\ \/ s.history = History(f) /\ s.best = Load(f).best
           \/ /\ Log!Extends(s.history, History(f))
              /\ \/ s.best = Load(f).best
                 \/ s.best = IF s.history = <<>> THEN None ELSE Best(s.history).inputs
    BY <1>3 DEF Saves, RunKept, History
  <1>6. s.history = <<>> /\ Log!Extends(s.history, History(f)) => History(f) = <<>>
    BY <1>4 DEF Log!Extends, History, State
  <1>7. History(f) = <<>> => Load(f).best = None
    BY DEF RecordsKept
  <1>8. RecordsKept'
    <2>1. ASSUME NEW g \in Functions, History(g)' = <<>> PROVE (Load(g).best)' = None
      <3>1. CASE g = f
        BY <1>2, <1>5, <1>6, <1>7, <2>1, <3>1 DEF History
      <3>2. CASE g # f
        BY <1>2, <2>1, <3>2 DEF History, RecordsKept
      <3>3. QED
        BY <3>1, <3>2
    <2>2. RunKept(run[p])'
      BY <1>1, <1>2, <1>3 DEF Saves, RunKept, Working
    <2>3. QED
      BY <2>1, <2>2 DEF RecordsKept, OneRun
  <1>9. [Log!LogNext]_(Log!logVars)
    <2>1. ASSUME NEW g \in Functions \ {f}
          PROVE  History(g)' = History(g) /\ (Load(g).best)' = Load(g).best
      BY <1>2 DEF History
    <2>2. History(f)' = s.history /\ (Load(f).best)' = s.best
      BY <1>2 DEF History
    <2>3. CASE s.history = History(f) /\ s.best = Load(f).best
      BY <2>1, <2>2, <2>3 DEF Log!logVars
    <2>4. CASE /\ Log!Extends(s.history, History(f))
               /\ s.best = Load(f).best \/ (s.history # <<>> /\ s.best = Best(s.history).inputs)
      <3>1. Log!Record(f)
        BY <2>1, <2>2, <2>4, LogBest DEF Log!Record
      <3>2. QED
        BY <3>1 DEF Log!LogNext
    <2>5. QED
      BY <1>5, <1>6, <1>7, <2>3, <2>4
  <1>10. QED
    BY <1>8, <1>9

LEMMA KeptStep ==
    OwnRecords /\ OneRun /\ TypeInv /\ TypeInv' /\ RecordsOwned /\ RecordsKept /\ [Next]_vars
    => RecordsKept' /\ [Log!LogNext]_(Log!logVars)
  <1> SUFFICES ASSUME OwnRecords, OneRun, TypeInv, TypeInv', RecordsOwned, RecordsKept,
                      [Next]_vars
               PROVE  RecordsKept' /\ [Log!LogNext]_(Log!logVars)
    OBVIOUS
  <1>1. ASSUME NEW p \in Processes, saved' = saved, RunKept(run[p])'
        PROVE  RecordsKept' /\ [Log!LogNext]_(Log!logVars)
    BY <1>1, KeptFrame
  <1>2. ASSUME NEW p \in Processes, Starts(p) PROVE RunKept(run[p])'
    <2>1. run'[p].todo \subseteq Functions
      BY DEF TypeInv, TypeOK, Run
    <2>2. \A f \in Functions : run'[p].loaded[f] = Load(f)'
      BY <1>2, KeptIsLoaded DEF Starts
    <2>3. QED
      BY <1>2, <2>1, <2>2 DEF Starts, RunKept, Working
  <1>3. ASSUME NEW p \in Processes, Ends(p) PROVE RunKept(run[p])'
    BY <1>3 DEF Ends, RunKept, Working
  <1>4. ASSUME NEW p \in Processes, NEW f \in Functions, Begins(p, f)
        PROVE  RunKept(run[p])'
    <2>1. run[p].todo \subseteq Functions /\ RunKept(run[p]) /\ run[p].at = "next"
      BY <1>4 DEF TypeInv, TypeOK, Run, Begins, RecordsKept
    <2>2. \A g \in run[p].todo : run[p].loaded[g] = Load(g)'
      BY <1>4, <2>1, KeptIsLoaded DEF Begins, RunKept
    <2>3. run[p].loaded[f].history \in Seq(Attempt)
      BY <2>1 DEF TypeInv, Supplied, State
    <2>4. Log!Extends(run[p].loaded[f].history, run[p].loaded[f].history)
      BY <2>3, ExtendsItself
    <2>5. QED
      BY <1>4, <2>2, <2>4 DEF Begins, RunKept
  <1>5. ASSUME NEW p \in Processes, Works(p) PROVE RunKept(run[p])'
    <2>1. /\ run[p].todo \subseteq Functions /\ RunKept(run[p])
          /\ run[p].at \in Working /\ run[p].at # "idle"
      BY <1>5 DEF TypeInv, TypeOK, Run, Works, RecordsKept, Working
    <2>2. \A g \in run[p].todo : run[p].loaded[g] = Load(g)'
      BY <1>5, <2>1, KeptIsLoaded DEF Works, RunKept
    <2>3. run[p].function \in Functions /\ run[p].attempts \in Seq(Attempt)
      BY <2>1 DEF TypeInv, TypeOK, Run, Supplied, Working
    <2>4. run[p].loaded[run[p].function].history \in Seq(Attempt)
      BY <2>1, <2>3 DEF TypeInv, Supplied, State
    <2>5. Log!Extends(run'[p].attempts, run[p].loaded[run[p].function].history)
      BY <1>5, <2>1, <2>3, <2>4, AppendExtends DEF Works, Keeps, Adds, RunKept
    <2>6. QED
      BY <1>5, <2>1, <2>2, <2>5 DEF Works, Stays, RunKept
  <1>6. CASE Rests
    <2>1. \A f \in Functions : Load(f)' = Load(f)
      BY <1>6, KeptIsLoaded DEF Rests
    <2>2. \A p \in Processes : run[p].todo \subseteq Functions
      BY DEF TypeInv, TypeOK, Run
    <2>3. RecordsKept'
      BY <1>6, <2>1, <2>2 DEF Rests, RecordsKept, RunKept, History
    <2>4. UNCHANGED Log!logVars
      BY <2>1 DEF Log!logVars, History
    <2>5. QED
      BY <2>3, <2>4
  <1>7. QED
    BY <1>1, <1>2, <1>3, <1>4, <1>5, <1>6, SaveKeeps, StepKinds
       DEF Starts, Ends, Begins, Works

LEMMA KeptInvariant ==
    ASSUME OwnRecords, OneRun
    PROVE  Spec => []RecordsKept
  <1>1. TypeInv /\ TypeInv' /\ RecordsOwned /\ RecordsKept /\ [Next]_vars => RecordsKept'
    BY KeptStep
  <1>2. QED
    BY <1>1, KeptInit, OwnedInvariant, TypeInvariant, PTL DEF Spec

\* Where no two functions share a record and one run goes on at a time, the
\* records implement the log of AttemptLog: whatever ends a run, and wherever
\* the modules are analysed again, attempts are appended and never removed or
\* rewritten, and the best on record gives way only to the best of them all.
THEOREM RecordsImplementTheLog ==
    ASSUME OwnRecords, OneRun
    PROVE  Spec => AttemptsAreKept
  <1>1. TypeInv /\ TypeInv' /\ RecordsOwned /\ RecordsKept /\ [Next]_vars
        => [Log!LogNext]_(Log!logVars)
    BY KeptStep
  <1>2. Init => Log!LogInit
    BY StemAssumption DEF Init, Log!LogInit, History, Load, Fresh
  <1>3. QED
    BY <1>1, <1>2, OwnedInvariant, KeptInvariant, TypeInvariant, PTL
       DEF Spec, AttemptsAreKept, Log!LogSpec

-----------------------------------------------------------------------------
(* An exact attempt on record stays its best *)

Sound(h) == \A i \in DOMAIN h : h[i].exact => h[i].percent = 100

HasExact(h) == \E i \in DOMAIN h : h[i].exact

ExactKept(s) ==
    /\ Sound(s.history)
    /\ HasExact(s.history) =>
          /\ s.percent = 100
          /\ \E i \in DOMAIN s.history : s.history[i].exact /\ s.history[i].inputs = s.best

\* Until all variants of a function are tried, or left, the exact attempts of
\* a run are those it has loaded.
RunExact(r) ==
    /\ r.at # "idle" => \A f \in Functions : ExactKept(r.loaded[f])
    /\ r.at \in Working =>
          LET history == r.loaded[r.function].history IN
          /\ Sound(r.attempts)
          /\ Log!Extends(r.attempts, history)
          /\ r.at # "variant" \/ r.variants # <<>> =>
                \A i \in DOMAIN r.attempts : r.attempts[i].exact => i \in DOMAIN history

RecordsExact ==
    /\ \A s \in Stems : saved[s] # None => ExactKept(saved[s])
    /\ \A p \in Processes : RunExact(run[p])

LEMMA LoadExact ==
    ASSUME RecordsExact, NEW f \in Functions
    PROVE  ExactKept(Load(f))
  <1>1. CASE saved[Stem[f]] = None
    BY <1>1 DEF Load, Fresh, ExactKept, Sound, HasExact
  <1>2. CASE saved[Stem[f]] # None
    BY <1>2, StemAssumption DEF Load, RecordsExact
  <1>3. QED
    BY <1>1, <1>2

\* An exact attempt comes before every other.
LEMMA ExactPrecedes ==
    ASSUME NEW a \in Attempt, NEW b \in Attempt, a.exact, ~b.exact
    PROVE  Precedes(Rank(a), Rank(b))
  <1>1. Rank(a)[1] = 0 /\ Rank(b)[1] = 1
    BY DEF Rank
  <1>2. QED
    BY <1>1 DEF Precedes

LEMMA RecordedExact ==
    ASSUME NEW f \in Functions, NEW h \in Seq(Attempt), Sound(h)
    PROVE  ExactKept(Recorded(f, h))
  <1>1. Recorded(f, h).history = h
    BY DEF Recorded
  <1>2. ASSUME HasExact(h)
        PROVE  /\ Recorded(f, h).percent = 100
               /\ \E i \in DOMAIN h : h[i].exact /\ h[i].inputs = Recorded(f, h).best
    <2>1. PICK j \in DOMAIN h : h[j].exact
      BY <1>2 DEF HasExact
    <2>2. h # <<>>
      BY <2>1
    <2>3. PICK i \in DOMAIN h : IsBest(h, i) /\ Best(h) = h[i]
      BY <2>2, BestIsAttempt
    <2>4. h[i] \in Attempt /\ h[j] \in Attempt /\ Best(h) # None
      BY <2>2, BestIsAttempt
    <2>5. h[i].exact
      BY <2>1, <2>3, <2>4, ExactPrecedes DEF IsBest
    <2>6. Recorded(f, h).percent = h[i].percent /\ Recorded(f, h).best = h[i].inputs
      BY <2>3, <2>4 DEF Recorded
    <2>7. QED
      BY <2>3, <2>5, <2>6 DEF Sound
  <1>3. QED
    BY <1>1, <1>2 DEF ExactKept

\* A run that finds a tool missing saves its attempts with the best it loaded.
LEMMA BlockedExact ==
    ASSUME NEW l \in State, NEW s \in State, ExactKept(l), Sound(s.history),
           Log!Extends(s.history, l.history),
           s.best = l.best, s.percent = l.percent,
           \A i \in DOMAIN s.history : s.history[i].exact => i \in DOMAIN l.history
    PROVE  ExactKept(s)
  <1>1. l.history \in Seq(Attempt) /\ s.history \in Seq(Attempt)
    BY DEF State
  <1>2. ASSUME NEW i \in DOMAIN l.history
        PROVE  i \in DOMAIN s.history /\ s.history[i] = l.history[i]
    BY <1>1 DEF Log!Extends
  <1>3. ASSUME HasExact(s.history)
        PROVE  /\ s.percent = 100
               /\ \E i \in DOMAIN s.history : s.history[i].exact /\ s.history[i].inputs = s.best
    <2>1. HasExact(l.history)
      BY <1>2, <1>3 DEF HasExact
    <2>2. PICK i \in DOMAIN l.history : l.history[i].exact /\ l.history[i].inputs = l.best
      BY <2>1 DEF ExactKept
    <2>3. l.percent = 100
      BY <2>1 DEF ExactKept
    <2>4. QED
      BY <1>2, <2>2, <2>3
  <1>4. QED
    BY <1>3 DEF ExactKept

\* What is saved keeps to it.
LEMMA SaveExact ==
    ASSUME TypeInv, NEW p \in Processes, RunExact(run[p]), run[p].at # "idle",
           NEW f \in Functions, NEW s \in State, BestSaved(p, f, s)
    PROVE  ExactKept(s)
  <1>1. ExactKept(run[p].loaded[f]) /\ run[p].loaded[f] \in State
    BY DEF RunExact, TypeInv, Supplied
  <1>2. CASE /\ s.history = run[p].loaded[f].history /\ s.best = run[p].loaded[f].best
             /\ s.percent = run[p].loaded[f].percent
    BY <1>1, <1>2 DEF ExactKept
  <1>3. CASE /\ run[p].at \in Working \ {"variant"} /\ f = run[p].function
             /\ s.history = run[p].attempts /\ s.best = run[p].loaded[f].best
             /\ s.percent = run[p].loaded[f].percent
    <2>1. /\ Sound(s.history) /\ Log!Extends(s.history, run[p].loaded[f].history)
          /\ \A i \in DOMAIN s.history :
                s.history[i].exact => i \in DOMAIN run[p].loaded[f].history
      BY <1>3 DEF RunExact
    <2>2. QED
      BY <1>1, <1>3, <2>1, BlockedExact
  <1>4. CASE run[p].at \in Working /\ f = run[p].function /\ s = Recorded(f, run[p].attempts)
    <2>1. Sound(run[p].attempts) /\ run[p].attempts \in Seq(Attempt)
      BY <1>4 DEF RunExact, TypeInv, TypeOK, Run
    <2>2. QED
      BY <1>4, <2>1, RecordedExact
  <1>5. QED
    BY <1>2, <1>3, <1>4 DEF BestSaved

LEMMA WorkExact ==
    ASSUME TypeInv, NEW p \in Processes, RunExact(run[p]), Works(p)
    PROVE  RunExact(run[p])'
  <1> DEFINE history == run[p].loaded[run[p].function].history
  <1>1. /\ run[p].at \in Working /\ run'[p].at \in Working /\ run[p].at # "idle"
        /\ run'[p].loaded = run[p].loaded /\ run'[p].function = run[p].function
        /\ run[p].at = "variant" => run[p].variants # <<>>
    BY DEF Works, Stays, Working, ExactEnds
  <1>2. /\ run[p].function \in Functions /\ run[p].attempts \in Seq(Attempt)
        /\ history \in Seq(Attempt)
    <2>1. run[p].function \in Functions /\ run[p].attempts \in Seq(Attempt)
      BY <1>1 DEF TypeInv, TypeOK, Run, Supplied, Working
    <2>2. QED
      BY <1>1, <2>1 DEF TypeInv, Supplied, State
  <1>3. /\ Sound(run[p].attempts) /\ Log!Extends(run[p].attempts, history)
        /\ \A i \in DOMAIN run[p].attempts :
              run[p].attempts[i].exact => i \in DOMAIN history
        /\ \A f \in Functions : ExactKept(run[p].loaded[f])
    BY <1>1 DEF RunExact
  <1> HIDE DEF history
  <1>4. /\ Sound(run'[p].attempts) /\ Log!Extends(run'[p].attempts, history)
        /\ run'[p].at # "variant" \/ run'[p].variants # <<>> =>
              \A i \in DOMAIN run'[p].attempts :
                  run'[p].attempts[i].exact => i \in DOMAIN history
    <2>1. CASE run'[p].attempts = run[p].attempts
      BY <1>3, <2>1
    <2>2. ASSUME NEW a \in Attempt, run'[p].attempts = Append(run[p].attempts, a),
                 a.exact => /\ a.percent = 100
                            /\ run'[p].at = "variant" /\ run'[p].variants = <<>>
          PROVE  /\ Sound(run'[p].attempts) /\ Log!Extends(run'[p].attempts, history)
                 /\ run'[p].at # "variant" \/ run'[p].variants # <<>> =>
                       \A i \in DOMAIN run'[p].attempts :
                           run'[p].attempts[i].exact => i \in DOMAIN history
      <3>1. ASSUME NEW i \in DOMAIN run'[p].attempts
            PROVE  run'[p].attempts[i] = a \/
                   (i \in DOMAIN run[p].attempts /\ run'[p].attempts[i] = run[p].attempts[i])
        BY <1>2, <2>2
      <3>2. Sound(run'[p].attempts)
        BY <1>3, <2>2, <3>1 DEF Sound
      <3>3. Log!Extends(run'[p].attempts, history)
        BY <1>2, <1>3, <2>2, AppendExtends
      <3>4. run'[p].at # "variant" \/ run'[p].variants # <<>> =>
               \A i \in DOMAIN run'[p].attempts :
                   run'[p].attempts[i].exact => i \in DOMAIN history
        BY <1>3, <2>2, <3>1
      <3>5. QED
        BY <3>2, <3>3, <3>4
    <2>3. QED
      BY <2>1, <2>2 DEF Works, ExactEnds
  <1>5. run'[p].loaded[run'[p].function].history = history
    BY <1>1 DEF history
  <1>6. \A f \in Functions : ExactKept(run'[p].loaded[f])
    BY <1>1, <1>3
  <1>7. QED
    BY <1>4, <1>5, <1>6 DEF RunExact

LEMMA ExactStep == TypeInv /\ RecordsExact /\ [Next]_vars => RecordsExact'
  <1> SUFFICES ASSUME TypeInv, RecordsExact, [Next]_vars
               PROVE  RecordsExact'
    OBVIOUS
  <1>1. ASSUME NEW p \in Processes, OthersStay(p), RunExact(run[p])',
               \A s \in Stems : saved'[s] # None => ExactKept(saved'[s])
        PROVE  RecordsExact'
    BY <1>1 DEF OthersStay, RecordsExact, RunExact
  <1>2. ASSUME saved' = saved
        PROVE  \A s \in Stems : saved'[s] # None => ExactKept(saved'[s])
    BY <1>2 DEF RecordsExact
  <1>3. ASSUME NEW p \in Processes, Starts(p) PROVE RecordsExact'
    <2>1. RunExact(run[p])'
      BY <1>3, LoadExact DEF Starts, RunExact, Working
    <2>2. QED
      BY <1>1, <1>2, <1>3, <2>1 DEF Starts
  <1>4. ASSUME NEW p \in Processes, Ends(p) PROVE RecordsExact'
    <2>1. RunExact(run[p])'
      BY <1>4 DEF Ends, RunExact, Working
    <2>2. QED
      BY <1>1, <1>2, <1>4, <2>1 DEF Ends
  <1>5. ASSUME NEW p \in Processes, NEW f \in Functions, Begins(p, f) PROVE RecordsExact'
    <2>1. /\ run'[p].loaded = run[p].loaded /\ run'[p].function = f
          /\ run'[p].attempts = run[p].loaded[f].history /\ run[p].at # "idle"
      BY <1>5 DEF Begins
    <2>2. \A g \in Functions : ExactKept(run[p].loaded[g])
      BY <2>1 DEF RunExact, RecordsExact
    <2>3. run[p].loaded[f].history \in Seq(Attempt)
      BY <2>1 DEF TypeInv, Supplied, State
    <2>4. Sound(run[p].loaded[f].history)
          /\ Log!Extends(run[p].loaded[f].history, run[p].loaded[f].history)
      BY <2>2, <2>3, ExtendsItself DEF ExactKept
    <2>5. RunExact(run[p])'
      BY <2>1, <2>2, <2>4 DEF RunExact
    <2>6. QED
      BY <1>1, <1>2, <1>5, <2>5 DEF Begins
  <1>6. ASSUME NEW p \in Processes, Works(p) PROVE RecordsExact'
    <2>1. RunExact(run[p])'
      BY <1>6, WorkExact DEF RecordsExact
    <2>2. QED
      BY <1>1, <1>2, <1>6, <2>1 DEF Works
  <1>7. ASSUME NEW p \in Processes, NEW f \in Functions, NEW s \in State, Saves(p, f, s)
        PROVE  RecordsExact'
    <2>1. RunExact(run[p])
      BY DEF RecordsExact
    <2>2. RunExact(run[p])'
      BY <1>7, <2>1 DEF Saves, RunExact, Working
    <2>3. ExactKept(s)
      BY <1>7, <2>1, SaveExact DEF Saves
    <2>4. \A t \in Stems : saved'[t] = s \/ saved'[t] = saved[t]
      BY <1>7 DEF Saves, TypeInv, TypeOK
    <2>5. QED
      BY <1>1, <1>7, <2>2, <2>3, <2>4 DEF Saves, RecordsExact
  <1>8. CASE Rests
    BY <1>8 DEF Rests, RecordsExact, RunExact
  <1>9. QED
    BY <1>3, <1>4, <1>5, <1>6, <1>7, <1>8, StepKinds

LEMMA ExactInvariant == Spec => []RecordsExact
  <1>1. Init => RecordsExact
    BY DEF Init, Idle, RecordsExact, RunExact, Working
  <1>2. TypeInv /\ RecordsExact /\ [Next]_vars => RecordsExact'
    BY ExactStep
  <1>3. QED
    BY <1>1, <1>2, TypeInvariant, PTL DEF Spec

\* A record that holds an exact attempt names an exact one as its best, at 100
\* percent: though a run that finds a tool missing saves the attempts it has
\* made beside the best it loaded, with any number of runs at once, ended
\* anywhere, with or without --force, and functions that share a record.
THEOREM ExactIsAlwaysBest == Spec => []ExactIsBest
  <1>1. RecordsExact => ExactIsBest
    BY LoadExact DEF ExactIsBest, ExactKept, HasExact
  <1>2. QED
    BY <1>1, ExactInvariant, PTL

NeverForced == \A c \in Commands : ~c.force

-----------------------------------------------------------------------------
(* No attempt is made twice *)

Distinct(h) == \A i, j \in DOMAIN h : h[i].inputs = h[j].inputs => i = j

\* What a run is making is not among the attempts it has made.
RunDistinct(r) ==
    /\ r.at # "idle" => \A f \in Functions : Distinct(r.loaded[f].history)
    /\ r.at \in Working => Distinct(r.attempts)
    /\ r.at \in Working \ {"variant"} =>
          \A i \in DOMAIN r.attempts : r.attempts[i].inputs # r.inputs

RecordsDistinct ==
    /\ \A s \in Stems : saved[s] # None => Distinct(saved[s].history)
    /\ \A p \in Processes : RunDistinct(run[p])

LEMMA LoadDistinct ==
    ASSUME RecordsDistinct, NEW f \in Functions
    PROVE  Distinct(Load(f).history)
  <1>1. CASE saved[Stem[f]] = None
    BY <1>1 DEF Load, Fresh, Distinct
  <1>2. CASE saved[Stem[f]] # None
    BY <1>2, StemAssumption DEF Load, RecordsDistinct
  <1>3. QED
    BY <1>1, <1>2

LEMMA AppendDistinct ==
    ASSUME NEW h \in Seq(Attempt), NEW a \in Attempt, Distinct(h),
           \A i \in DOMAIN h : h[i].inputs # a.inputs
    PROVE  Distinct(Append(h, a))
  <1> SUFFICES ASSUME NEW i \in DOMAIN Append(h, a), NEW j \in DOMAIN Append(h, a),
                      Append(h, a)[i].inputs = Append(h, a)[j].inputs
               PROVE  i = j
    BY DEF Distinct
  <1>1. ASSUME NEW k \in DOMAIN Append(h, a)
        PROVE  \/ k \in DOMAIN h /\ Append(h, a)[k] = h[k]
               \/ k = Len(h) + 1 /\ Append(h, a)[k] = a
    OBVIOUS
  <1>2. QED
    BY <1>1 DEF Distinct

LEMMA UnseenDiffers ==
    ASSUME TypeInv, NEW p \in Processes, NEW x, ~Seen(p, x)
    PROVE  \A i \in DOMAIN run[p].attempts : run[p].attempts[i].inputs # x
  BY DEF Seen

LEMMA DistinctStep == NeverForced /\ TypeInv /\ RecordsDistinct /\ [Next]_vars => RecordsDistinct'
  <1> SUFFICES ASSUME NeverForced, TypeInv, RecordsDistinct, [Next]_vars
               PROVE  RecordsDistinct'
    OBVIOUS
  <1>1. ASSUME NEW p \in Processes, OthersStay(p), RunDistinct(run[p])',
               \A s \in Stems : saved'[s] # None => Distinct(saved'[s].history)
        PROVE  RecordsDistinct'
    BY <1>1 DEF OthersStay, RecordsDistinct, RunDistinct
  <1>2. ASSUME saved' = saved
        PROVE  \A s \in Stems : saved'[s] # None => Distinct(saved'[s].history)
    BY <1>2 DEF RecordsDistinct
  <1>3. ASSUME NEW p \in Processes, Starts(p) PROVE RecordsDistinct'
    <2>1. RunDistinct(run[p])'
      BY <1>3, LoadDistinct DEF Starts, RunDistinct, Working
    <2>2. QED
      BY <1>1, <1>2, <1>3, <2>1 DEF Starts
  <1>4. ASSUME NEW p \in Processes, Ends(p) PROVE RecordsDistinct'
    <2>1. RunDistinct(run[p])'
      BY <1>4 DEF Ends, RunDistinct, Working
    <2>2. QED
      BY <1>1, <1>2, <1>4, <2>1 DEF Ends
  <1>5. ASSUME NEW p \in Processes, NEW f \in Functions, Begins(p, f) PROVE RecordsDistinct'
    <2>1. RunDistinct(run[p])'
      BY <1>5 DEF Begins, RunDistinct, RecordsDistinct, Working
    <2>2. QED
      BY <1>1, <1>2, <1>5, <2>1 DEF Begins
  <1>6. ASSUME NEW p \in Processes, Works(p) PROVE RecordsDistinct'
    <2>1. RunDistinct(run[p]) /\ run[p].attempts \in Seq(Attempt) /\ ~run[p].command.force
      BY <1>6 DEF RecordsDistinct, TypeInv, TypeOK, Run, Supplied, Works, Working, NeverForced
    <2>2. ASSUME NEW a \in Attempt, Adds(p, a) PROVE RunDistinct(run[p])'
      <3>1. \A i \in DOMAIN run[p].attempts : run[p].attempts[i].inputs # a.inputs
        BY <1>6, <2>1, <2>2, UnseenDiffers DEF Adds, Works, Working, RunDistinct
      <3>2. Distinct(run'[p].attempts)
        BY <1>6, <2>1, <2>2, <3>1, AppendDistinct DEF Adds, Works, RunDistinct
      <3>3. QED
        BY <1>6, <2>1, <2>2, <3>2 DEF Adds, Works, Stays, Working, RunDistinct
    <2>3. RunDistinct(run[p])'
      <3>1. CASE Keeps(p)
        <4>1. run'[p].at # "variant" =>
                \A i \in DOMAIN run[p].attempts : run[p].attempts[i].inputs # run'[p].inputs
          BY <1>6, <2>1, <3>1, UnseenDiffers DEF Keeps, Works, Working, RunDistinct
        <4>2. QED
          BY <1>6, <2>1, <3>1, <4>1 DEF Keeps, Works, Stays, Working, RunDistinct
      <3>2. QED
        BY <1>6, <2>2, <3>1 DEF Works
    <2>4. QED
      BY <1>1, <1>2, <1>6, <2>3 DEF Works
  <1>7. ASSUME NEW p \in Processes, NEW f \in Functions, NEW s \in State, Saves(p, f, s)
        PROVE  RecordsDistinct'
    <2>1. RunDistinct(run[p])
      BY DEF RecordsDistinct
    <2>2. RunDistinct(run[p])'
      BY <1>7, <2>1 DEF Saves, RunDistinct, Working
    <2>3. Distinct(s.history)
      BY <1>7, <2>1 DEF Saves, RunDistinct
    <2>4. \A t \in Stems : saved'[t] = s \/ saved'[t] = saved[t]
      BY <1>7 DEF Saves, TypeInv, TypeOK
    <2>5. QED
      BY <1>1, <1>7, <2>2, <2>3, <2>4 DEF Saves, RecordsDistinct
  <1>8. CASE Rests
    BY <1>8 DEF Rests, RecordsDistinct, RunDistinct
  <1>9. QED
    BY <1>3, <1>4, <1>5, <1>6, <1>7, <1>8, StepKinds

LEMMA DistinctInvariant ==
    ASSUME NeverForced
    PROVE  Spec => []RecordsDistinct
  <1>1. Init => RecordsDistinct
    BY DEF Init, Idle, RecordsDistinct, RunDistinct, Working
  <1>2. TypeInv /\ RecordsDistinct /\ [Next]_vars => RecordsDistinct'
    BY DistinctStep
  <1>3. QED
    BY <1>1, <1>2, TypeInvariant, PTL DEF Spec

\* Without --force no record holds two attempts of one identity: with any
\* number of runs at once, ended anywhere, and functions that share a record.
THEOREM NoAttemptIsMadeTwice == Spec => []NoAttemptTwice
  <1>1. ASSUME NeverForced PROVE Spec => []NoAttemptTwice
    <2>1. RecordsDistinct => NoAttemptTwice
      BY LoadDistinct DEF NoAttemptTwice, History, Distinct
    <2>2. QED
      BY <1>1, <2>1, DistinctInvariant, PTL
  <1>2. ASSUME ~NeverForced PROVE Spec => []NoAttemptTwice
    <2>1. NoAttemptTwice
      BY <1>2 DEF NoAttemptTwice, NeverForced
    <2>2. QED
      BY <2>1, PTL
  <1>3. QED
    BY <1>1, <1>2

-----------------------------------------------------------------------------
(* A draft on disk is that of the attempt on record *)

Fits(h) == \A i \in DOMAIN h :
    h[i].draft # None => drafts[h[i].inputs] \in {h[i].draft, None}

\* So it is with the attempts of a run, and with the draft it works on.
RunFits(r) ==
    /\ r.at \in Working => Fits(r.attempts)
    /\ r.at \in {"build", "match"} => drafts[r.inputs] = r.draft

DraftsFit ==
    /\ \A f \in Functions : Fits(History(f))
    /\ \A p \in Processes : RunFits(run[p])

LEMMA AttemptInputs ==
    ASSUME NEW h \in Seq(Attempt), NEW i \in DOMAIN h
    PROVE  h[i].inputs \in Inputs
  <1>1. h[i] \in Attempt
    OBVIOUS
  <1>2. QED
    BY <1>1 DEF Attempt

\* A new draft is that of no attempt on record.
LEMMA DraftIsNew ==
    ASSUME TypeInv, RecordsOwned, RecordsKept, RecordsDistinct, NEW p \in Processes,
           run[p].at = "decompile", NEW f \in Functions, NEW i \in DOMAIN History(f)
    PROVE  History(f)[i].inputs # run[p].inputs
  <1>1. /\ RunOwned(run[p]) /\ RunKept(run[p]) /\ RunDistinct(run[p])
        /\ run[p].inputs.function = run[p].function /\ Owned(Load(f), f)
    BY DEF RecordsOwned, InputsOwned, RecordsKept, RecordsDistinct, Working
  <1>2. CASE f # run[p].function
    BY <1>1, <1>2 DEF Owned, History
  <1>3. CASE f = run[p].function
    <2>1. Log!Extends(run[p].attempts, History(f))
      BY <1>1, <1>3 DEF RunKept, History, Working
    <2>2. History(f) \in Seq(Attempt) /\ run[p].attempts \in Seq(Attempt)
      BY LoadType DEF TypeInv, TypeOK, Run, History, State
    <2>3. i \in DOMAIN run[p].attempts /\ run[p].attempts[i] = History(f)[i]
      BY <2>1, <2>2 DEF Log!Extends
    <2>4. QED
      BY <1>1, <2>3 DEF RunDistinct, Working
  <1>4. QED
    BY <1>2, <1>3

LEMMA FitsStep ==
    OwnRecords /\ OneRun /\ NeverForced /\ TypeInv /\ RecordsOwned /\ RecordsKept
        /\ RecordsDistinct /\ DraftsFit /\ [Next]_vars
    => DraftsFit'
  <1> SUFFICES ASSUME OwnRecords, OneRun, NeverForced, TypeInv, RecordsOwned, RecordsKept,
                      RecordsDistinct, DraftsFit, [Next]_vars
               PROVE  DraftsFit'
    OBVIOUS
  <1>1. ASSUME NEW p \in Processes, RunFits(run[p])', \A f \in Functions : Fits(History(f))'
        PROVE  DraftsFit'
    BY <1>1 DEF OneRun, DraftsFit
  <1>2. ASSUME UNCHANGED <<saved, drafts>> PROVE \A f \in Functions : Fits(History(f))'
    BY <1>2 DEF DraftsFit, Fits, History, Load
  <1>3. ASSUME NEW p \in Processes, Starts(p) \/ Ends(p) PROVE DraftsFit'
    <2>1. RunFits(run[p])' /\ UNCHANGED <<saved, drafts>>
      BY <1>3 DEF Starts, Ends, RunFits, Working
    <2>2. QED
      BY <1>1, <1>2, <2>1
  <1>4. ASSUME NEW p \in Processes, NEW f \in Functions, Begins(p, f) PROVE DraftsFit'
    <2>1. run'[p].attempts = History(f)
      BY <1>4 DEF Begins, RecordsKept, RunKept, History
    <2>2. RunFits(run[p])'
      BY <1>4, <2>1 DEF Begins, RunFits, DraftsFit, Fits
    <2>3. QED
      BY <1>1, <1>2, <1>4, <2>2 DEF Begins
  <1>5. ASSUME NEW p \in Processes, Works(p) PROVE DraftsFit'
    <2>1. /\ RunFits(run[p]) /\ RunDistinct(run[p]) /\ run[p].attempts \in Seq(Attempt)
          /\ Fits(run[p].attempts)
      BY <1>5 DEF DraftsFit, RecordsDistinct, TypeInv, TypeOK, Run, RunFits, Works
    <2>2. CASE run[p].at = "decompile" /\ run'[p].at = "build"
      <3>1. /\ drafts' = [drafts EXCEPT ![run[p].inputs] = run'[p].draft]
            /\ run'[p].inputs = run[p].inputs /\ run'[p].attempts = run[p].attempts
            /\ run[p].inputs \in Inputs /\ saved' = saved
        BY <1>5, <2>2 DEF Works, Keeps, Adds, TypeInv, Supplied
      <3>2. drafts'[run[p].inputs] = run'[p].draft
            /\ \A x \in Inputs \ {run[p].inputs} : drafts'[x] = drafts[x]
        BY <3>1 DEF TypeInv, TypeOK
      <3>3. ASSUME NEW h \in Seq(Attempt), Fits(h),
                   \A i \in DOMAIN h : h[i].inputs # run[p].inputs
            PROVE  \A i \in DOMAIN h :
                       h[i].draft # None => drafts'[h[i].inputs] \in {h[i].draft, None}
        <4>1. \A i \in DOMAIN h : h[i].inputs \in Inputs
          BY AttemptInputs
        <4>2. QED
          BY <3>2, <3>3, <4>1 DEF Fits
      <3>4. Fits(run[p].attempts)'
        BY <2>1, <2>2, <3>1, <3>3 DEF Fits, RunDistinct, Working
      <3>5. RunFits(run[p])'
        BY <2>2, <3>1, <3>2, <3>4 DEF RunFits
      <3>6. ASSUME NEW f \in Functions PROVE Fits(History(f))'
        <4>1. History(f) \in Seq(Attempt)
          BY LoadType DEF TypeInv, History, State
        <4>2. \A i \in DOMAIN History(f) : History(f)[i].inputs # run[p].inputs
          BY <2>2, DraftIsNew
        <4>3. History(f)' = History(f)
          BY <3>1 DEF History, Load
        <4>4. QED
          BY <3>3, <4>1, <4>2, <4>3 DEF DraftsFit, Fits
      <3>7. QED
        BY <1>1, <3>5, <3>6
    <2>3. CASE ~(run[p].at = "decompile" /\ run'[p].at = "build")
      <3>1. UNCHANGED <<saved, drafts>>
        BY <1>5, <2>3 DEF Works, Keeps, Adds
      <3>2. ASSUME NEW a \in Attempt, Adds(p, a) PROVE Fits(run'[p].attempts)
        <4>1. a.draft = None \/ drafts[a.inputs] = a.draft
          BY <1>5, <2>1, <3>2 DEF Adds, Works, Working, RunFits
        <4>2. run'[p].attempts = Append(run[p].attempts, a)
          BY <3>2 DEF Adds
        <4>3. ASSUME NEW i \in DOMAIN run'[p].attempts
              PROVE  run'[p].attempts[i] = a \/
                     (i \in DOMAIN run[p].attempts /\ run'[p].attempts[i] = run[p].attempts[i])
          BY <2>1, <4>2
        <4>4. QED
          BY <2>1, <4>1, <4>3 DEF Fits
      <3>3. Fits(run'[p].attempts)
        BY <1>5, <2>1, <3>2 DEF Works, Keeps
      <3>4. RunFits(run[p])'
        BY <1>5, <2>1, <2>3, <3>1, <3>3 DEF Works, Keeps, Adds, RunFits, Fits
      <3>5. QED
        BY <1>1, <1>2, <3>1, <3>4
    <2>4. QED
      BY <2>2, <2>3
  <1>6. ASSUME NEW p \in Processes, NEW f \in Functions, NEW s \in State, Saves(p, f, s)
        PROVE  DraftsFit'
    <2>1. s.function = f
      BY <1>6 DEF Saves, RecordsOwned, RunOwned, Owned
    <2>2. Load(f)' = s /\ \A g \in Functions \ {f} : Load(g)' = Load(g)
      BY <1>6, <2>1, SavedIsLoaded DEF Saves
    <2>3. Fits(s.history)
      BY <1>6 DEF Saves, RecordsKept, RunKept, DraftsFit, RunFits, History
    <2>4. drafts' = drafts
      BY <1>6 DEF Saves
    <2>5. ASSUME NEW g \in Functions PROVE Fits(History(g))'
      <3>1. CASE g = f
        BY <2>2, <2>3, <2>4, <3>1 DEF History, Fits
      <3>2. CASE g # f
        BY <2>2, <2>4, <3>2 DEF History, Fits, DraftsFit
      <3>3. QED
        BY <3>1, <3>2
    <2>6. RunFits(run[p])'
      BY <1>6 DEF Saves, RunFits, Working
    <2>7. QED
      BY <1>1, <2>5, <2>6
  <1>7. CASE Rests
    <2>1. CASE drafts' = drafts
      BY <1>7, <2>1 DEF Rests, DraftsFit, RunFits, Fits, History, Load
    <2>2. CASE /\ \A p \in Processes : run[p].at = "idle"
               /\ \A i \in Inputs : drafts'[i] = None
      <3>1. \A f \in Functions : History(f) \in Seq(Attempt)
        BY LoadType DEF TypeInv, History, State
      <3>2. \A f \in Functions : \A i \in DOMAIN History(f) : History(f)[i].inputs \in Inputs
        BY <3>1, AttemptInputs
      <3>3. \A f \in Functions : Fits(History(f))'
        BY <1>7, <2>2, <3>2 DEF Rests, Fits, History, Load
      <3>4. \A p \in Processes : RunFits(run[p])'
        BY <1>7, <2>2 DEF Rests, RunFits, Working
      <3>5. QED
        BY <3>3, <3>4 DEF DraftsFit
    <2>3. QED
      BY <1>7, <2>1, <2>2 DEF Rests
  <1>8. QED
    BY <1>3, <1>4, <1>5, <1>6, <1>7, StepKinds

\* Without --force, one run at a time, and a record for every function: a draft
\* on disk is the one its recorded attempt was hashed and scored with, or it was
\* removed by a new analysis.
THEOREM DraftsAreThoseOnRecord ==
    ASSUME OwnRecords, OneRun
    PROVE  Spec => []DraftsMatchRecords
  <1>1. ASSUME NeverForced PROVE Spec => []DraftsMatchRecords
    <2>1. Spec => []RecordsDistinct
      BY <1>1, DistinctInvariant
    <2>2. Init => DraftsFit
      <3>1. \A f \in Functions : Init => History(f) = <<>>
        BY StemAssumption DEF Init, History, Load, Fresh
      <3>2. QED
        BY <3>1 DEF Init, Idle, DraftsFit, Fits, RunFits, Working
    <2>3. TypeInv /\ RecordsOwned /\ RecordsKept /\ RecordsDistinct /\ DraftsFit /\ [Next]_vars
          => DraftsFit'
      BY <1>1, FitsStep
    <2>4. DraftsFit => DraftsMatchRecords
      BY DEF DraftsFit, Fits, DraftsMatchRecords
    <2>5. QED
      BY <2>1, <2>2, <2>3, <2>4, TypeInvariant, OwnedInvariant, KeptInvariant, PTL DEF Spec
  <1>2. ASSUME ~NeverForced PROVE Spec => []DraftsMatchRecords
    <2>1. DraftsMatchRecords
      BY <1>2 DEF DraftsMatchRecords, NeverForced
    <2>2. QED
      BY <2>1, PTL
  <1>3. QED
    BY <1>1, <1>2

-----------------------------------------------------------------------------
(* What is left of a run *)

AttemptLeft(at) ==
    CASE at = "decompile" -> 3 [] at = "build" -> 2 [] at = "match" -> 1 [] OTHER -> 0

RunLeft(r) == <<Cardinality(r.todo), IF r.at = "next" THEN 1 ELSE 0, Len(r.variants),
                AttemptLeft(r.at)>>

\* The function a run works on is one of those it has still to take.
AtOne(r) == r.at \in Working => r.function \in r.todo
AllAtOne == \A p \in Processes : AtOne(run[p])

LEMMA AtOneStep == TypeInv /\ AllAtOne /\ [Next]_vars => AllAtOne'
  <1> SUFFICES ASSUME TypeInv, AllAtOne, [Next]_vars PROVE AllAtOne'
    OBVIOUS
  <1>1. ASSUME NEW p \in Processes, OthersStay(p), AtOne(run'[p]) PROVE AllAtOne'
    <2>1. ASSUME NEW q \in Processes PROVE AtOne(run'[q])
      <3>1. CASE q = p
        BY <1>1, <3>1
      <3>2. CASE q # p
        <4>1. run'[q] = run[q] /\ AtOne(run[q])
          BY <1>1, <3>2 DEF OthersStay, AllAtOne
        <4>2. QED
          BY <4>1
      <3>3. QED
        BY <3>1, <3>2
    <2>2. QED
      BY <2>1 DEF AllAtOne, AtOne
  <1>2. CASE Rests
    BY <1>2 DEF Rests, AllAtOne, AtOne
  <1>3. ASSUME NEW p \in Processes, Starts(p) \/ Ends(p) PROVE AllAtOne'
    <2>1. OthersStay(p) /\ run'[p].at \notin Working
      BY <1>3 DEF Starts, Ends, Working
    <2>2. QED
      BY <1>1, <2>1 DEF AtOne
  <1>4. ASSUME NEW p \in Processes, Works(p) PROVE AllAtOne'
    <2>1. run[p].at \in Working /\ Stays(p) /\ OthersStay(p)
      BY <1>4 DEF Works
    <2>2. run[p].function \in run[p].todo
      BY <2>1 DEF AllAtOne, AtOne
    <2>3. AtOne(run'[p])
      BY <2>1, <2>2 DEF AtOne, Stays
    <2>4. QED
      BY <1>1, <2>1, <2>3
  <1>5. ASSUME NEW p \in Processes, NEW f \in Functions, Begins(p, f) PROVE AllAtOne'
    <2>1. OthersStay(p) /\ run'[p].function \in run'[p].todo
      BY <1>5 DEF Begins
    <2>2. QED
      BY <1>1, <2>1 DEF AtOne
  <1>6. ASSUME NEW p \in Processes, NEW f \in Functions, NEW s \in State, Saves(p, f, s)
        PROVE  AllAtOne'
    <2>1. OthersStay(p) /\ run'[p].at = "next"
      BY <1>6 DEF Saves
    <2>2. QED
      BY <1>1, <2>1 DEF AtOne, Working
  <1>7. QED
    BY <1>2, <1>3, <1>4, <1>5, <1>6, StepKinds

LEMMA AtOneInvariant == Spec => []AllAtOne
  <1>1. Init => AllAtOne
    BY DEF Init, Idle, AllAtOne, AtOne, Working
  <1>2. QED
    BY <1>1, AtOneStep, TypeInvariant, PTL DEF Spec

\* What is left of a run are four natural numbers.
LEMMA LeftTyped ==
    ASSUME TypeInv, NEW p \in Processes
    PROVE  /\ RunLeft(run[p]) \in [1 .. 4 -> Nat]
           /\ IsFiniteSet(run[p].todo) /\ Cardinality(run[p].todo) \in Nat
           /\ run[p].variants \in Seq({"none", "given", "unreadable"})
  <1>1. run[p].todo \subseteq Functions
        /\ run[p].variants \in Seq({"none", "given", "unreadable"})
    BY DEF TypeInv, TypeOK, Run
  <1>2. IsFiniteSet(run[p].todo)
    BY <1>1, FunctionsAssumption, FS_Subset
  <1>3. Cardinality(run[p].todo) \in Nat
    BY <1>2, FS_CardinalityType
  <1>4. Len(run[p].variants) \in Nat
    BY <1>1
  <1>5. AttemptLeft(run[p].at) \in Nat
    BY DEF AttemptLeft
  <1>6. RunLeft(run[p]) \in [1 .. 4 -> Nat]
    BY <1>3, <1>4, <1>5 DEF RunLeft
  <1>7. QED
    BY <1>1, <1>2, <1>3, <1>6

\* A function that is done with is not taken again in a run.
LEMMA FewerFunctions ==
    ASSUME TypeInv, NEW p \in Processes, NEW f \in run[p].todo,
           run'[p].todo \subseteq run[p].todo \ {f}
    PROVE  Precedes(RunLeft(run'[p]), RunLeft(run[p]))
  <1>1. IsFiniteSet(run[p].todo) /\ Cardinality(run[p].todo) \in Nat
    BY LeftTyped
  <1>2. /\ IsFiniteSet(run[p].todo \ {f})
        /\ Cardinality(run[p].todo \ {f}) = Cardinality(run[p].todo) - 1
    BY <1>1, FS_RemoveElement
  <1>3. IsFiniteSet(run'[p].todo) /\ Cardinality(run'[p].todo) <= Cardinality(run[p].todo \ {f})
    BY <1>2, FS_Subset
  <1>4. Cardinality(run'[p].todo) \in Nat
    BY <1>3, FS_CardinalityType
  <1>5. Cardinality(run'[p].todo) < Cardinality(run[p].todo)
    BY <1>1, <1>2, <1>3, <1>4
  <1>6. RunLeft(run'[p])[1] < RunLeft(run[p])[1]
    BY <1>5 DEF RunLeft
  <1>7. QED
    BY <1>6 DEF Precedes

\* A run goes from choosing a function to working on it.
LEMMA Chosen ==
    ASSUME NEW p \in Processes, run'[p].todo = run[p].todo,
           run[p].at = "next", run'[p].at # "next"
    PROVE  Precedes(RunLeft(run'[p]), RunLeft(run[p]))
  <1>1. RunLeft(run'[p])[1] = RunLeft(run[p])[1] /\ RunLeft(run'[p])[2] < RunLeft(run[p])[2]
    BY DEF RunLeft
  <1>2. QED
    BY <1>1 DEF Precedes

\* A context is tried once.
LEMMA FewerVariants ==
    ASSUME TypeInv, NEW p \in Processes, run'[p].todo = run[p].todo,
           run[p].at \in Working, run'[p].at \in Working,
           run[p].variants # <<>>, run'[p].variants = Tail(run[p].variants)
    PROVE  Precedes(RunLeft(run'[p]), RunLeft(run[p]))
  <1>1. run[p].variants \in Seq({"none", "given", "unreadable"})
    BY LeftTyped
  <1>2. Len(run'[p].variants) < Len(run[p].variants)
    BY <1>1
  <1>3. /\ RunLeft(run'[p])[1] = RunLeft(run[p])[1] /\ RunLeft(run'[p])[2] = RunLeft(run[p])[2]
        /\ RunLeft(run'[p])[3] < RunLeft(run[p])[3]
    BY <1>2 DEF RunLeft, Working
  <1>4. QED
    BY <1>3 DEF Precedes

\* An attempt goes on from tool to tool, or ends.
LEMMA FewerTools ==
    ASSUME TypeInv, NEW p \in Processes, run'[p].todo = run[p].todo,
           run[p].at \in Working, run'[p].at \in Working,
           run'[p].variants \in {run[p].variants, <<>>},
           AttemptLeft(run'[p].at) < AttemptLeft(run[p].at)
    PROVE  Precedes(RunLeft(run'[p]), RunLeft(run[p]))
  <1>1. run[p].variants \in Seq({"none", "given", "unreadable"})
    BY LeftTyped
  <1>2. RunLeft(run'[p])[1] = RunLeft(run[p])[1] /\ RunLeft(run'[p])[2] = RunLeft(run[p])[2]
    BY DEF RunLeft, Working
  <1>3. RunLeft(run'[p])[3] = Len(run'[p].variants) /\ RunLeft(run[p])[3] = Len(run[p].variants)
    BY DEF RunLeft
  <1>4. CASE Len(run[p].variants) = Len(run'[p].variants)
    <2>1. RunLeft(run'[p])[3] = RunLeft(run[p])[3] /\ RunLeft(run'[p])[4] < RunLeft(run[p])[4]
      BY <1>4 DEF RunLeft
    <2>2. \A j \in 1 .. 4 - 1 : RunLeft(run'[p])[j] = RunLeft(run[p])[j]
      <3>1. \A j \in 1 .. 4 - 1 : j = 1 \/ j = 2 \/ j = 3
        OBVIOUS
      <3>2. QED
        BY <1>2, <2>1, <3>1
    <2>3. QED
      BY <2>1, <2>2 DEF Precedes
  <1>5. CASE Len(run[p].variants) # Len(run'[p].variants)
    <2>1. run'[p].variants = <<>>
      BY <1>5
    <2>2. Len(run'[p].variants) < Len(run[p].variants)
      BY <1>1, <1>5, <2>1
    <2>3. QED
      BY <1>2, <1>3, <2>2 DEF Precedes
  <1>6. QED
    BY <1>4, <1>5

\* The steps that deal with a context take it off the list.
LEMMA VariantTaken ==
    ASSUME TypeInv, NEW p \in Processes,
           ContextUnreadable(p) \/ SkipVariant(p) \/ TryVariant(p)
    PROVE  run[p].variants # <<>> /\ run'[p].variants = Tail(run[p].variants)
  <1>1. PICK q \in Run : q = run[p]
    BY DEF TypeInv, TypeOK
  <1>2. run[p].variants # <<>>
    BY DEF ContextUnreadable, SkipVariant, TryVariant, AtVariant
  <1>3. PICK v, h, i : /\ v = Tail(run[p].variants)
                       /\ h = IF Seen(p, Unread(p)) THEN run[p].attempts
                              ELSE Append(run[p].attempts,
                                          Failed(Unread(p), "decompilation_failed", None))
                       /\ i = InputsOf(p, Variant(p))
    OBVIOUS
  <1>4. CASE ContextUnreadable(p)
    <2>1. PICK r : r = [q EXCEPT !.variants = v, !.attempts = h]
      OBVIOUS
    <2>2. run' = [run EXCEPT ![p] = r]
      BY <1>1, <1>3, <1>4, <2>1, Zenon DEF ContextUnreadable
    <2>3. r.variants = v
      BY <2>1 DEF Run
    <2>4. run'[p] = r
      BY <2>2 DEF TypeInv, TypeOK
    <2>5. run'[p].variants = v
      BY <2>3, <2>4, Zenon
    <2>6. QED
      BY <1>2, <1>3, <2>5, Zenon
  <1>5. CASE SkipVariant(p)
    <2>1. PICK r : r = [q EXCEPT !.variants = v]
      OBVIOUS
    <2>2. run' = [run EXCEPT ![p] = r]
      BY <1>1, <1>3, <1>5, <2>1, Zenon DEF SkipVariant
    <2>3. r.variants = v
      BY <2>1 DEF Run
    <2>4. run'[p] = r
      BY <2>2 DEF TypeInv, TypeOK
    <2>5. run'[p].variants = v
      BY <2>3, <2>4, Zenon
    <2>6. QED
      BY <1>2, <1>3, <2>5, Zenon
  <1>6. CASE TryVariant(p)
    <2>1. PICK r : r = [q EXCEPT !.at = "decompile", !.variants = v, !.inputs = i]
      OBVIOUS
    <2>2. run' = [run EXCEPT ![p] = r]
      BY <1>1, <1>3, <1>6, <2>1, Zenon DEF TryVariant
    <2>3. r.variants = v
      BY <2>1 DEF Run
    <2>4. run'[p] = r
      BY <2>2 DEF TypeInv, TypeOK
    <2>5. run'[p].variants = v
      BY <2>3, <2>4, Zenon
    <2>6. QED
      BY <1>2, <1>3, <2>5, Zenon
  <1>7. QED
    BY <1>4, <1>5, <1>6

\* An attempt that ends leaves the contexts to try, or none.
LEMMA FinishedLeaves ==
    ASSUME TypeInv, NEW p \in Processes, NEW a, Finished(p, a)
    PROVE  run'[p].at = "variant" /\ run'[p].variants \in {run[p].variants, <<>>}
  <1>1. PICK q \in Run : q = run[p]
    BY DEF TypeInv, TypeOK
  <1>2. PICK v, h : /\ v = (IF a.exact THEN <<>> ELSE q.variants)
                    /\ h = Append(q.attempts, a)
    OBVIOUS
  <1>3. PICK r : r = [q EXCEPT !.at = "variant", !.attempts = h,
                               !.variants = v, !.inputs = None, !.draft = None]
    OBVIOUS
  <1>4. run' = [run EXCEPT ![p] = r]
    BY <1>1, <1>2, <1>3, Zenon DEF Finished
  <1>5. r.at = "variant" /\ r.variants = v
    BY <1>3 DEF Run
  <1>6. run'[p] = r
    BY <1>4 DEF TypeInv, TypeOK
  <1>7. v \in {q.variants, <<>>}
    BY <1>2, Zenon
  <1>8. QED
    BY <1>1, <1>5, <1>6, <1>7

\* A tool that is done leaves less of the attempt.
LEMMA ToolDone ==
    ASSUME TypeInv, NEW p \in Processes, Decompile(p) \/ Build(p) \/ Match(p)
    PROVE  /\ run'[p].variants \in {run[p].variants, <<>>}
           /\ AttemptLeft(run'[p].at) < AttemptLeft(run[p].at)
  <1>1. PICK q \in Run : q = run[p]
    BY DEF TypeInv, TypeOK
  <1>2. ASSUME NEW a, Finished(p, a)
        PROVE  /\ run'[p].variants \in {run[p].variants, <<>>}
               /\ AttemptLeft(run'[p].at) < AttemptLeft(run[p].at)
    <2>1. run'[p].at = "variant" /\ run'[p].variants \in {run[p].variants, <<>>}
      BY <1>2, FinishedLeaves
    <2>2. run[p].at \in {"decompile", "build", "match"}
      BY DEF Decompile, Build, Match
    <2>3. QED
      BY <2>1, <2>2 DEF AttemptLeft
  <1>3. ASSUME NEW d, run' = [run EXCEPT ![p].at = "build", ![p].draft = d],
               run[p].at = "decompile"
        PROVE  /\ run'[p].variants \in {run[p].variants, <<>>}
               /\ AttemptLeft(run'[p].at) < AttemptLeft(run[p].at)
    <2>1. PICK r : r = [q EXCEPT !.at = "build", !.draft = d]
      OBVIOUS
    <2>2. run' = [run EXCEPT ![p] = r]
      BY <1>1, <1>3, <2>1, Zenon
    <2>3. r.at = "build" /\ r.variants = q.variants
      BY <2>1 DEF Run
    <2>4. run'[p] = r
      BY <2>2 DEF TypeInv, TypeOK
    <2>5. QED
      BY <1>1, <1>3, <2>3, <2>4 DEF AttemptLeft
  <1>4. ASSUME run' = [run EXCEPT ![p].at = "match"], run[p].at = "build"
        PROVE  /\ run'[p].variants \in {run[p].variants, <<>>}
               /\ AttemptLeft(run'[p].at) < AttemptLeft(run[p].at)
    <2>1. PICK r : r = [q EXCEPT !.at = "match"]
      OBVIOUS
    <2>2. run' = [run EXCEPT ![p] = r]
      BY <1>1, <1>4, <2>1, Zenon
    <2>3. r.at = "match" /\ r.variants = q.variants
      BY <2>1 DEF Run
    <2>4. run'[p] = r
      BY <2>2 DEF TypeInv, TypeOK
    <2>5. QED
      BY <1>1, <1>4, <2>3, <2>4 DEF AttemptLeft
  <1>5. CASE Decompile(p)
    <2>1. \/ \E d : run' = [run EXCEPT ![p].at = "build", ![p].draft = d]
          \/ \E a : Finished(p, a)
      BY <1>5, Zenon DEF Decompile
    <2>2. run[p].at = "decompile"
      BY <1>5 DEF Decompile
    <2>3. QED
      BY <1>2, <1>3, <2>1, <2>2
  <1>6. CASE Build(p)
    <2>1. run' = [run EXCEPT ![p].at = "match"] \/ \E a : Finished(p, a)
      BY <1>6, Zenon DEF Build
    <2>2. run[p].at = "build"
      BY <1>6 DEF Build
    <2>3. QED
      BY <1>2, <1>4, <2>1, <2>2
  <1>7. CASE Match(p)
    <2>1. \E a : Finished(p, a)
      BY <1>7, Zenon DEF Match
    <2>2. QED
      BY <1>2, <2>1
  <1>8. QED
    BY <1>5, <1>6, <1>7

\* Every step of a run leaves less of it.
LEMMA StepLeaves ==
    ASSUME TypeInv, AllAtOne, NEW p \in Processes, Step(p) \/ Kill(p)
    PROVE  OthersStay(p) /\ Precedes(RunLeft(run'[p]), RunLeft(run[p]))
  <1>1. AtOne(run[p])
    BY DEF AllAtOne
  <1>2. CASE Done(p) \/ Raises(p) \/ Kill(p)
    <2>1. EndRun(p) /\ run[p].at # "idle" /\ Ends(p)
      BY <1>2, EndEffect DEF Done, Raises, Kill, IsNext
    <2>2. run'[p].todo = {} /\ run'[p].at = "idle" /\ OthersStay(p)
      BY <2>1 DEF EndRun, Ends, Idle, TypeInv, TypeOK
    <2>3. CASE run[p].todo = {}
      <3>1. run[p].at = "next"
        BY <1>1, <2>1, <2>3 DEF AtOne, Working, TypeInv, TypeOK, Run
      <3>2. QED
        BY <2>2, <2>3, <3>1, Chosen
    <2>4. CASE run[p].todo # {}
      <3>1. PICK f \in run[p].todo : TRUE
        BY <2>4
      <3>2. QED
        BY <2>2, <3>1, FewerFunctions
    <2>5. QED
      BY <2>3, <2>4
  <1>3. CASE Begin(p)
    <2>1. PICK f \in Functions : Begins(p, f)
      BY <1>3, BeginEffect
    <2>2. /\ run'[p].todo = run[p].todo /\ run[p].at = "next" /\ run'[p].at = "variant"
          /\ OthersStay(p)
      BY <2>1 DEF Begins
    <2>3. QED
      BY <2>2, Chosen
  <1>4. CASE ContextUnreadable(p) \/ SkipVariant(p) \/ TryVariant(p)
    <2>1. Works(p)
      BY <1>4, UnreadableWorks, VariantWorks
    <2>2. /\ run'[p].todo = run[p].todo /\ run[p].at \in Working /\ run'[p].at \in Working
          /\ OthersStay(p)
      BY <2>1 DEF Works, Stays
    <2>3. run[p].variants # <<>> /\ run'[p].variants = Tail(run[p].variants)
      BY <1>4, VariantTaken
    <2>4. QED
      BY <2>2, <2>3, FewerVariants
  <1>5. CASE Decompile(p) \/ Build(p) \/ Match(p)
    <2>1. Works(p)
      BY <1>5, DecompileWorks, BuildWorks, MatchWorks
    <2>2. /\ run'[p].todo = run[p].todo /\ run[p].at \in Working /\ run'[p].at \in Working
          /\ OthersStay(p)
      BY <2>1 DEF Works, Stays
    <2>3. /\ run'[p].variants \in {run[p].variants, <<>>}
          /\ AttemptLeft(run'[p].at) < AttemptLeft(run[p].at)
      BY <1>5, ToolDone
    <2>4. QED
      BY <2>2, <2>3, FewerTools
  <1>6. CASE Unsupported(p) \/ WithoutM2c(p) \/ Blocked(p) \/ Finish(p)
    <2>1. PICK f \in Functions, s \in State : Saves(p, f, s)
      BY <1>6, SaveActions
    <2>2. /\ run'[p].todo = run[p].todo \ {f} /\ OthersStay(p)
          /\ f \in run[p].todo \/ (run[p].at \in Working /\ f = run[p].function)
      BY <2>1, Zenon DEF Saves
    <2>3. f \in run[p].todo
      BY <1>1, <2>2 DEF AtOne
    <2>4. QED
      BY <2>2, <2>3, FewerFunctions
  <1>7. QED
    BY <1>2, <1>3, <1>4, <1>5, <1>6 DEF Step

\* A run of decompile-workspace ends by itself, whatever the tools answer and
\* however many functions, contexts and runs there are: every step of a run
\* takes this count of four natural numbers down in their lexicographic order,
\* which is well-founded, and leaves the other runs where they are (cli.py, the
\* loop over the selected functions; orchestrator.py, run_function).
THEOREM RunsCountDown ==
    Spec => /\ [](\A p \in Processes : RunLeft(run[p]) \in [1 .. 4 -> Nat])
            /\ [][\A p \in Processes : Step(p) \/ Kill(p) =>
                     OthersStay(p) /\ Precedes(RunLeft(run'[p]), RunLeft(run[p]))]_vars
  <1>1. TypeInv => \A p \in Processes : RunLeft(run[p]) \in [1 .. 4 -> Nat]
    BY LeftTyped
  <1>2. TypeInv /\ AllAtOne => \A p \in Processes : Step(p) \/ Kill(p) =>
                     OthersStay(p) /\ Precedes(RunLeft(run'[p]), RunLeft(run[p]))
    BY StepLeaves
  <1>3. QED
    BY <1>1, <1>2, TypeInvariant, AtOneInvariant, PTL
=============================================================================
