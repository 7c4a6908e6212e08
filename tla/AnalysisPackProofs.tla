-------------------------- MODULE AnalysisPackProofs --------------------------
(***************************************************************************)
(* Proofs about analysis packs: what is in a pack is what its manifest     *)
(* names, within the budget, and whole, whatever is edited, prepared or    *)
(* analyzed at any time and wherever a call ends; unless, of the first, an *)
(* analysis replaces the bytes after their digest was checked.             *)
(***************************************************************************)
EXTENDS AnalysisPack, SequenceTheorems, TLAPS

-----------------------------------------------------------------------------
(* Types *)

Work == {"json", "verify", "window", "full"}

\* A call is about a file that has been analyzed.
Supplied == call # Idle => analysis \in Analyzed

TypeInv == TypeOK /\ Supplied

LEMMA StepsTyped ==
    ASSUME NEW kind \in Kinds
    PROVE  Steps(kind) \in Seq(Work)
  <1>1. CASE kind = "module"
    <2>1. Steps(kind) = <<"json", "json", "verify", "full">>
      BY <1>1 DEF Steps
    <2>2. QED
      BY <2>1 DEF Work
  <1>2. CASE kind = "function"
    <2>1. Steps(kind) = <<"json", "json", "verify", "window", "json">>
      BY <1>2 DEF Steps
    <2>2. QED
      BY <2>1 DEF Work
  <1>3. CASE kind = "resource"
    <2>1. Steps(kind) = <<"json", "verify", "window", "full", "json">>
      BY <1>3 DEF Steps
    <2>2. QED
      BY <2>1 DEF Work
  <1>4. QED
    BY <1>1, <1>2, <1>3 DEF Kinds

Running == {"gather", "fit", "write", "replace"}

\* A call that is not idle has its parts.
LEMMA InCall ==
    ASSUME TypeInv
    PROVE  /\ call.at \in Running => call \in Call /\ call # Idle /\ analysis \in Analyzed
           /\ call # Idle => call.at \in Running \cup {"over"}
           /\ call.at \notin Running => call \in Over \cup {Idle}
           /\ call = Idle => call.at = "idle"
  BY DEF TypeInv, TypeOK, Supplied, Call, Over, Idle, Running

LEMMA CallChanges ==
    ASSUME NEW c \in Call, NEW todo \in Seq(Work), NEW artifacts \in Seq(Artifact),
           NEW of \in SUBSET Contents, NEW at \in Running
    PROVE  /\ [c EXCEPT !.todo = todo, !.artifacts = artifacts, !.of = of] \in Call
           /\ [c EXCEPT !.artifacts = artifacts] \in Call
           /\ [c EXCEPT !.at = at] \in Call
           /\ [c EXCEPT !.late = TRUE] \in Call
  BY DEF Call, Work, Running

LEMMA Typed ==
    ASSUME NEW kind \in {"json", "window", "full"}, NEW size \in Nat,
           NEW artifacts \in Seq(Artifact)
    PROVE  Append(artifacts, [kind |-> kind, size |-> size]) \in Seq(Artifact)
  BY DEF Artifact

LEMMA GoTyped ==
    ASSUME TypeInv, call.at = "gather", call.todo # <<>>, NEW artifacts \in Seq(Artifact),
           NEW of \in SUBSET Contents, Go(artifacts, of)
    PROVE  TypeInv'
  <1>1. call \in Call /\ analysis \in Analyzed
    BY InCall DEF Running
  <1>2. Tail(call.todo) \in Seq(Work)
    BY <1>1 DEF Call, Work
  <1>3. call' \in Call /\ call'.at = "gather"
    <2>1. call' \in Call
      BY <1>1, <1>2, CallChanges DEF Go, Running
    <2>2. call'.at = "gather"
      BY <1>1 DEF Go, Call
    <2>3. QED
      BY <2>1, <2>2
  <1>4. QED
    BY <1>1, <1>3 DEF Go, TypeInv, TypeOK, Supplied, files

LEMMA OverTyped ==
    ASSUME TypeInv, call.at \in {"gather", "fit"}, NEW artifacts \in Seq(Artifact),
           OverBudget(artifacts)
    PROVE  TypeInv'
  <1>1. call \in Call /\ analysis \in Analyzed
    BY InCall DEF Running
  <1>2. call' \in Over /\ call'.at = "over"
    BY <1>1 DEF OverBudget, Over, Call
  <1>3. QED
    BY <1>1, <1>2 DEF OverBudget, TypeInv, TypeOK, Supplied, files

LEMMA ReadingTyped ==
    ASSUME TypeInv, call.at = "gather"
    PROVE  call.of \in SUBSET Contents /\ Reading \in SUBSET Contents
  BY InCall DEF Running, Call, Reading, Analyzed

LEMMA AddTyped ==
    ASSUME TypeInv, call.at = "gather", call.todo # <<>>,
           NEW kind \in {"json", "window", "full"}, NEW size \in Nat,
           NEW of \in SUBSET Contents, Add(kind, size, of)
    PROVE  TypeInv'
  <1>1. call.artifacts \in Seq(Artifact)
    BY InCall DEF Call, Running
  <1>2. QED
    BY <1>1, Typed, GoTyped, OverTyped DEF Add

LEMMA Removed ==
    ASSUME NEW S, NEW q \in Seq(S), NEW i \in 1 .. Len(q)
    PROVE  /\ RemoveAt(q, i) \in Seq(S) /\ Len(RemoveAt(q, i)) = Len(q) - 1
           /\ \A j \in 1 .. Len(q) - 1 : RemoveAt(q, i)[j] = IF j < i THEN q[j] ELSE q[j + 1]
  <1> DEFINE a == SubSeq(q, 1, i - 1)  b == SubSeq(q, i + 1, Len(q))
  <1>0. Len(q) \in Nat
    OBVIOUS
  <1>1. /\ a \in Seq(S) /\ Len(a) = i - 1
        /\ \A j \in 1 .. i - 1 : a[j] = q[j]
    OBVIOUS
  <1>2. /\ b \in Seq(S) /\ Len(b) = Len(q) - i
        /\ \A j \in 1 .. Len(q) - i : b[j] = q[j + i]
    OBVIOUS
  <1> HIDE DEF a, b
  <1>3. /\ a \o b \in Seq(S) /\ Len(a \o b) = Len(a) + Len(b)
        /\ \A j \in 1 .. Len(a) : (a \o b)[j] = a[j]
        /\ \A j \in 1 .. Len(b) : (a \o b)[Len(a) + j] = b[j]
    <2>1. /\ a \o b \in Seq(S) /\ Len(a \o b) = Len(a) + Len(b)
          /\ \A j \in 1 .. Len(a) + Len(b) :
                (a \o b)[j] = IF j <= Len(a) THEN a[j] ELSE b[j - Len(a)]
      BY <1>1, <1>2, ConcatProperties
    <2>2. Len(a) \in Nat /\ Len(b) \in Nat
      BY <1>1, <1>2
    <2>3. ASSUME NEW j \in 1 .. Len(a) PROVE (a \o b)[j] = a[j]
      BY <2>1, <2>2
    <2>4. ASSUME NEW j \in 1 .. Len(b) PROVE (a \o b)[Len(a) + j] = b[j]
      <3>1. /\ Len(a) + j \in 1 .. Len(a) + Len(b) /\ ~(Len(a) + j <= Len(a))
            /\ (Len(a) + j) - Len(a) = j
        BY <2>2
      <3>2. QED
        BY <2>1, <3>1
    <2>5. QED
      BY <2>1, <2>3, <2>4
  <1>4. RemoveAt(q, i) = a \o b
    BY DEF RemoveAt, a, b
  <1>5. Len(a \o b) = Len(q) - 1
    BY <1>0, <1>1, <1>2, <1>3
  <1>6. ASSUME NEW j \in 1 .. Len(q) - 1, j < i PROVE (a \o b)[j] = q[j]
    <2>1. j \in 1 .. Len(a) /\ j \in 1 .. i - 1
      BY <1>0, <1>1, <1>6
    <2>2. QED
      BY <1>1, <1>3, <2>1
  <1>7. ASSUME NEW j \in 1 .. Len(q) - 1, ~(j < i) PROVE (a \o b)[j] = q[j + 1]
    <2> DEFINE k == j - (i - 1)
    <2>1. k \in 1 .. Len(b) /\ k \in 1 .. Len(q) - i /\ Len(a) + k = j /\ k + i = j + 1
      BY <1>0, <1>1, <1>2, <1>7
    <2> HIDE DEF k
    <2>2. QED
      BY <1>2, <1>3, <2>1
  <1>8. QED
    BY <1>3, <1>4, <1>5, <1>6, <1>7

LEMMA MadeTyped ==
    ASSUME TypeInv, call.at = "write"
    PROVE  Made \in Pack
  <1>1. call \in Call
    BY InCall DEF Running
  <1>2. ManifestSize(call.artifacts) \in Nat
    <2>1. Len(call.artifacts) + 1 \in Nat
      BY <1>1 DEF Call
    <2>2. \A m, n \in Nat : m * n \in Nat
      OBVIOUS
    <2>3. QED
      BY <2>1, <2>2, PackAssumption DEF ManifestSize
  <1>3. QED
    BY <1>1, <1>2 DEF Made, Pack, Call

LEMMA AnalyzeTyped ==
    ASSUME TypeInv, Analyze
    PROVE  TypeInv'
  <1>1. analysis' \in Analyzed
    BY DEF Analyze, Analyzed, TypeInv, TypeOK
  <1>2. CASE Checked
    <2>1. call \in Call /\ call.at = "gather"
      BY <1>2, InCall DEF Checked, Running
    <2>2. call' \in Call /\ call'.at = "gather"
      BY <1>2, <2>1, CallChanges DEF Analyze, Call
    <2>3. QED
      BY <1>1, <2>1, <2>2 DEF Analyze, TypeInv, TypeOK, Supplied
  <1>3. CASE ~Checked
    BY <1>1, <1>3 DEF Analyze, TypeInv, TypeOK, Supplied
  <1>4. QED
    BY <1>2, <1>3

LEMMA TypeStep == TypeInv /\ [Next]_vars => TypeInv'
  <1> SUFFICES ASSUME TypeInv, [Next]_vars PROVE TypeInv'
    OBVIOUS
  <1>0. TypeOK /\ Supplied /\ Idle.at = "idle"
    BY DEF TypeInv, Idle
  <1>1. CASE Edit \/ Prepare
    BY <1>0, <1>1 DEF Edit, Prepare, TypeInv, TypeOK, Supplied
  <1>2. CASE Select
    <2>1. PICK kind \in Kinds, budget \in Budgets, window \in Windows :
              call' = [at |-> "gather", kind |-> kind, budget |-> budget, window |-> window,
                       record |-> manifest, status |-> analysis.status,
                       todo |-> Steps(kind), artifacts |-> <<>>, of |-> {}, late |-> FALSE]
      BY <1>2 DEF Select
    <2>2. manifest \in Contents /\ analysis \in Analyzed
          /\ analysis.status \in {"analyzed", "analyzed_recovered"}
      BY <1>0, <1>2 DEF Select, TypeOK, Analyzed
    <2>3. call' \in Call /\ call'.at = "gather"
      BY <2>1, <2>2, StepsTyped DEF Call, Work
    <2>4. QED
      BY <1>0, <1>2, <2>2, <2>3 DEF Select, TypeInv, TypeOK, Supplied, files
  <1>3. CASE Refuse \/ VerifyFails \/ Raise
    BY <1>0, <1>3 DEF Refuse, VerifyFails, Raise, Doing, TypeInv, TypeOK, Supplied, files
  <1>4. CASE AddRecord
    BY <1>4, AddTyped, ReadingTyped, PackAssumption DEF AddRecord, Doing
  <1>5. CASE Verify
    <2>1. call.artifacts \in Seq(Artifact)
      BY <1>5, InCall DEF Verify, Doing, Call, Running
    <2>2. QED
      BY <1>5, <2>1, GoTyped, ReadingTyped DEF Verify, Doing
  <1>6. CASE AddWindow
    <2>1. \A size \in 0 .. SizeOf[call.record] : size \in Nat
      BY PackAssumption
    <2>2. QED
      BY <1>6, <2>1, AddTyped, ReadingTyped DEF AddWindow, Doing
  <1>7. CASE AddFull
    <2>1. call.artifacts \in Seq(Artifact) /\ analysis \in Analyzed
      BY <1>7, InCall DEF AddFull, Doing, Call, Running
    <2>2. SizeOf[analysis.content] \in Nat
      BY <2>1, PackAssumption DEF Analyzed
    <2>3. Append(call.artifacts, [kind |-> "full", size |-> SizeOf[analysis.content]])
          \in Seq(Artifact)
      BY <2>1, <2>2, Typed
    <2>4. QED
      BY <1>7, <2>1, <2>3, GoTyped, ReadingTyped DEF AddFull, Doing
  <1>8. CASE Gathered \/ Fits
    <2>1. call \in Call /\ call.at \in {"gather", "fit"} /\ analysis \in Analyzed
      BY <1>8, InCall DEF Gathered, Fits, Running
    <2>2. call' \in Call /\ call'.at \in {"fit", "write"}
      <3>1. call' \in Call
        BY <1>8, <2>1 DEF Gathered, Fits, Call
      <3>2. call'.at \in {"fit", "write"}
        BY <1>8, <2>1 DEF Gathered, Fits, Call
      <3>3. QED
        BY <3>1, <3>2
    <2>3. QED
      BY <1>0, <1>8, <2>1, <2>2 DEF Gathered, Fits, TypeInv, TypeOK, Supplied, files
  <1>9. CASE LeaveOut
    <2>1. call \in Call /\ call.at = "fit" /\ analysis \in Analyzed
      BY <1>9, InCall DEF LeaveOut, Running
    <2>2. PICK i \in Optional : call' = [call EXCEPT !.artifacts = RemoveAt(@, i)]
      BY <1>9 DEF LeaveOut
    <2>3. RemoveAt(call.artifacts, i) \in Seq(Artifact)
      BY <2>1, Removed DEF Optional, Call
    <2>4. call' \in Call /\ call'.at = "fit"
      <3> DEFINE left == RemoveAt(call.artifacts, i)
      <3>1. left \in Seq(Artifact) /\ call' = [call EXCEPT !.artifacts = left]
        BY <2>2, <2>3
      <3> HIDE DEF left
      <3>2. call' \in Call
        BY <2>1, <3>1 DEF Call
      <3>3. call'.at = "fit"
        BY <2>1, <3>1 DEF Call
      <3>4. QED
        BY <3>2, <3>3
    <2>5. QED
      BY <1>0, <1>9, <2>1, <2>4 DEF LeaveOut, TypeInv, TypeOK, Supplied, files
  <1>10. CASE DoesNotFit
    <2>1. call.artifacts \in Seq(Artifact)
      BY <1>10, InCall DEF DoesNotFit, Call, Running
    <2>2. QED
      BY <1>10, <2>1, OverTyped DEF DoesNotFit
  <1>11. CASE Write
    <2>1. CASE temp' = Made /\ call' = [call EXCEPT !.at = "replace"]
      <3>1. call \in Call /\ analysis \in Analyzed
        BY <1>11, InCall DEF Write, Running
      <3>2. call' \in Call /\ call'.at = "replace"
        BY <2>1, <3>1 DEF Call
      <3>3. temp' \in Pack
        BY <1>11, <2>1, MadeTyped DEF Write
      <3>4. QED
        BY <1>0, <1>11, <3>1, <3>2, <3>3 DEF Write, TypeInv, TypeOK, Supplied, files
    <2>2. CASE temp' = None /\ call' = Idle
      BY <1>0, <1>11, <2>2 DEF Write, TypeInv, TypeOK, Supplied, files
    <2>3. QED
      BY <1>11, <2>1, <2>2 DEF Write
  <1>12. CASE Replace \/ Kill
    BY <1>0, <1>12, InCall DEF Replace, Kill, TypeInv, TypeOK, Supplied, files, Running
  <1>13. CASE UNCHANGED vars
    BY <1>0, <1>13 DEF vars, files, TypeInv, TypeOK, Supplied
  <1>14. QED
    BY <1>1, <1>2, <1>3, <1>4, <1>5, <1>6, <1>7, <1>8, <1>9, <1>10, <1>11, <1>12, <1>13,
       AnalyzeTyped DEF Next

LEMMA TypeInvariant == Spec => []TypeInv
  <1>1. Init => TypeInv
    BY DEF Init, TypeInv, TypeOK, Supplied, Idle
  <1>2. QED
    BY <1>1, TypeStep, PTL DEF Spec

\* The types of the files and of a call in progress (analysis_pack.py): between
\* calls there is no temporary file but one a killed call has left.
THEOREM PackTypeCorrect == Spec => []TypeOK
  <1>1. TypeInv => TypeOK
    BY DEF TypeInv
  <1>2. QED
    BY <1>1, TypeInvariant, PTL

-----------------------------------------------------------------------------
(* Evidence is gathered step by step *)

\* Carries, of the first n steps.
CarriesFirst(artifacts, steps, n) ==
    \E from \in [1 .. Len(artifacts) -> 1 .. n] :
        /\ \A i, j \in 1 .. Len(artifacts) : i < j => from[i] < from[j]
        /\ \A i \in 1 .. Len(artifacts) : artifacts[i].kind = steps[from[i]]
        /\ \A k \in 1 .. n :
              steps[k] \in {"json", "window"} => \E i \in 1 .. Len(artifacts) : from[i] = k

LEMMA CarriesAll ==
    ASSUME NEW artifacts, NEW steps
    PROVE  Carries(artifacts, steps) <=> CarriesFirst(artifacts, steps, Len(steps))
  BY DEF Carries, CarriesFirst

LEMMA CarriesNothing ==
    ASSUME NEW steps
    PROVE  CarriesFirst(<<>>, steps, 0)
  <1> DEFINE from == [i \in 1 .. 0 |-> 0]
  <1>1. 1 .. Len(<<>>) = {} /\ 1 .. 0 = {}
    OBVIOUS
  <1>2. from \in [1 .. Len(<<>>) -> 1 .. 0]
    BY <1>1
  <1> HIDE DEF from
  <1>3. /\ \A i, j \in 1 .. Len(<<>>) : i < j => from[i] < from[j]
        /\ \A i \in 1 .. Len(<<>>) : <<>>[i].kind = steps[from[i]]
        /\ \A k \in 1 .. 0 :
              steps[k] \in {"json", "window"} => \E i \in 1 .. Len(<<>>) : from[i] = k
    BY <1>1
  <1>4. QED
    BY <1>2, <1>3 DEF CarriesFirst

\* A step that gives no piece, and may do so.
LEMMA CarriesSkip ==
    ASSUME NEW artifacts, NEW steps, NEW n \in Nat, CarriesFirst(artifacts, steps, n),
           steps[n + 1] \notin {"json", "window"}
    PROVE  CarriesFirst(artifacts, steps, n + 1)
  <1>1. PICK from \in [1 .. Len(artifacts) -> 1 .. n] :
        /\ \A i, j \in 1 .. Len(artifacts) : i < j => from[i] < from[j]
        /\ \A i \in 1 .. Len(artifacts) : artifacts[i].kind = steps[from[i]]
        /\ \A k \in 1 .. n :
              steps[k] \in {"json", "window"} => \E i \in 1 .. Len(artifacts) : from[i] = k
    BY DEF CarriesFirst
  <1>2. from \in [1 .. Len(artifacts) -> 1 .. n + 1]
    OBVIOUS
  <1>3. \A k \in 1 .. n + 1 : k \in 1 .. n \/ k = n + 1
    OBVIOUS
  <1>4. QED
    BY <1>1, <1>2, <1>3 DEF CarriesFirst

\* A step that gives a piece.
LEMMA CarriesMore ==
    ASSUME NEW artifacts \in Seq(Artifact), NEW steps, NEW n \in Nat, NEW piece \in Artifact,
           CarriesFirst(artifacts, steps, n), piece.kind = steps[n + 1]
    PROVE  CarriesFirst(Append(artifacts, piece), steps, n + 1)
  <1> DEFINE more == Append(artifacts, piece)  l == Len(artifacts)
  <1>1. PICK from \in [1 .. l -> 1 .. n] :
        /\ \A i, j \in 1 .. l : i < j => from[i] < from[j]
        /\ \A i \in 1 .. l : artifacts[i].kind = steps[from[i]]
        /\ \A k \in 1 .. n : steps[k] \in {"json", "window"} => \E i \in 1 .. l : from[i] = k
    BY DEF CarriesFirst
  <1>2. /\ l \in Nat /\ Len(more) = l + 1 /\ more[l + 1] = piece
        /\ \A i \in 1 .. l : more[i] = artifacts[i]
    OBVIOUS
  <1>3. /\ \A i \in 1 .. l + 1 : i \in 1 .. l \/ i = l + 1
        /\ \A k \in 1 .. n + 1 : k \in 1 .. n \/ k = n + 1
    BY <1>2
  <1> HIDE DEF more, l
  <1> DEFINE next == [i \in 1 .. l + 1 |-> IF i = l + 1 THEN n + 1 ELSE from[i]]
  <1>4. /\ next \in [1 .. l + 1 -> 1 .. n + 1] /\ next[l + 1] = n + 1
        /\ \A i \in 1 .. l : next[i] = from[i]
    BY <1>2, <1>3
  <1> HIDE DEF next
  <1>5. \A i, j \in 1 .. l + 1 : i < j => next[i] < next[j]
    <2> SUFFICES ASSUME NEW i \in 1 .. l + 1, NEW j \in 1 .. l + 1, i < j
                 PROVE  next[i] < next[j]
      OBVIOUS
    <2>1. i \in 1 .. l /\ from[i] \in 1 .. n
      BY <1>2, <1>3
    <2>2. CASE j \in 1 .. l
      BY <1>1, <1>4, <2>1, <2>2
    <2>3. CASE j = l + 1
      BY <1>4, <2>1, <2>3
    <2>4. QED
      BY <1>3, <2>2, <2>3
  <1>6. \A i \in 1 .. l + 1 : more[i].kind = steps[next[i]]
    BY <1>1, <1>2, <1>3, <1>4
  <1>7. \A k \in 1 .. n + 1 :
            steps[k] \in {"json", "window"} => \E i \in 1 .. l + 1 : next[i] = k
    <2>1. l + 1 \in 1 .. l + 1 /\ \A i \in 1 .. l : i \in 1 .. l + 1
      BY <1>2
    <2>2. QED
      BY <1>1, <1>3, <1>4, <2>1
  <1>8. CarriesFirst(more, steps, n + 1)
    <2>1. /\ next \in [1 .. Len(more) -> 1 .. n + 1]
          /\ \A i, j \in 1 .. Len(more) : i < j => next[i] < next[j]
          /\ \A i \in 1 .. Len(more) : more[i].kind = steps[next[i]]
          /\ \A k \in 1 .. n + 1 :
                steps[k] \in {"json", "window"} => \E i \in 1 .. Len(more) : next[i] = k
      BY <1>2, <1>4, <1>5, <1>6, <1>7
    <2>2. QED
      BY <2>1 DEF CarriesFirst
  <1>9. QED
    BY <1>8 DEF more

\* An optional piece may be taken out again.
LEMMA CarriesLess ==
    ASSUME NEW artifacts \in Seq(Artifact), NEW steps, NEW n \in Nat,
           NEW x \in 1 .. Len(artifacts), artifacts[x].kind = "full",
           CarriesFirst(artifacts, steps, n)
    PROVE  CarriesFirst(RemoveAt(artifacts, x), steps, n)
  <1> DEFINE less == RemoveAt(artifacts, x)  l == Len(artifacts)
  <1>1. PICK from \in [1 .. l -> 1 .. n] :
        /\ \A i, j \in 1 .. l : i < j => from[i] < from[j]
        /\ \A i \in 1 .. l : artifacts[i].kind = steps[from[i]]
        /\ \A k \in 1 .. n : steps[k] \in {"json", "window"} => \E i \in 1 .. l : from[i] = k
    BY DEF CarriesFirst
  <1>2. /\ l \in Nat /\ Len(less) = l - 1 /\ x \in 1 .. l
        /\ \A i \in 1 .. l - 1 : less[i] = IF i < x THEN artifacts[i] ELSE artifacts[i + 1]
    BY Removed
  <1> HIDE DEF less, l
  <1> DEFINE next == [i \in 1 .. l - 1 |-> IF i < x THEN from[i] ELSE from[i + 1]]
  <1>3. \A i \in 1 .. l - 1 : i \in 1 .. l /\ i + 1 \in 1 .. l
    BY <1>2
  <1>4. next \in [1 .. l - 1 -> 1 .. n]
    BY <1>3
  <1>5. \A i \in 1 .. l - 1 : next[i] = IF i < x THEN from[i] ELSE from[i + 1]
    OBVIOUS
  <1> HIDE DEF next
  <1>6. \A i, j \in 1 .. l - 1 : i < j => next[i] < next[j]
    <2> SUFFICES ASSUME NEW i \in 1 .. l - 1, NEW j \in 1 .. l - 1, i < j
                 PROVE  next[i] < next[j]
      OBVIOUS
    <2>1. CASE i < x /\ j < x
      BY <1>1, <1>3, <1>5, <2>1
    <2>2. CASE i < x /\ ~(j < x)
      <3>1. i < j + 1 /\ i \in 1 .. l /\ j + 1 \in 1 .. l
        BY <1>2, <1>3
      <3>2. from[i] < from[j + 1]
        BY <1>1, <3>1
      <3>3. QED
        BY <1>5, <2>2, <3>2
    <2>3. CASE ~(i < x)
      <3>1. i + 1 < j + 1 /\ i + 1 \in 1 .. l /\ j + 1 \in 1 .. l /\ ~(j < x)
        BY <1>2, <1>3, <2>3
      <3>2. from[i + 1] < from[j + 1]
        BY <1>1, <3>1
      <3>3. QED
        BY <1>5, <2>3, <3>1, <3>2
    <2>4. QED
      BY <2>1, <2>2, <2>3
  <1>7. ASSUME NEW i \in 1 .. l - 1 PROVE less[i].kind = steps[next[i]]
    <2>1. CASE i < x
      <3>1. less[i] = artifacts[i] /\ next[i] = from[i] /\ i \in 1 .. l
        BY <1>2, <1>3, <1>5, <2>1
      <3>2. QED
        BY <1>1, <3>1
    <2>2. CASE ~(i < x)
      <3>1. less[i] = artifacts[i + 1] /\ next[i] = from[i + 1] /\ i + 1 \in 1 .. l
        BY <1>2, <1>3, <1>5, <2>2
      <3>2. QED
        BY <1>1, <3>1
    <2>3. QED
      BY <2>1, <2>2
  <1>8. \A k \in 1 .. n :
            steps[k] \in {"json", "window"} => \E i \in 1 .. l - 1 : next[i] = k
    <2> SUFFICES ASSUME NEW k \in 1 .. n, steps[k] \in {"json", "window"}
                 PROVE  \E i \in 1 .. l - 1 : next[i] = k
      OBVIOUS
    <2>1. PICK i \in 1 .. l : from[i] = k
      BY <1>1
    <2>2. i # x
      BY <1>1, <2>1 DEF l
    <2>3. CASE i < x
      <3>1. i \in 1 .. l - 1
        BY <1>2, <2>3
      <3>2. QED
        BY <1>5, <2>1, <2>3, <3>1
    <2>4. CASE i > x
      <3>1. i - 1 \in 1 .. l - 1 /\ ~(i - 1 < x) /\ (i - 1) + 1 = i
        BY <1>2, <2>4
      <3>2. QED
        BY <1>5, <2>1, <3>1
    <2>5. QED
      BY <1>2, <2>2, <2>3, <2>4
  <1>9. CarriesFirst(less, steps, n)
    <2>1. /\ next \in [1 .. Len(less) -> 1 .. n]
          /\ \A i, j \in 1 .. Len(less) : i < j => next[i] < next[j]
          /\ \A i \in 1 .. Len(less) : less[i].kind = steps[next[i]]
          /\ \A k \in 1 .. n :
                steps[k] \in {"json", "window"} => \E i \in 1 .. Len(less) : next[i] = k
      BY <1>2, <1>4, <1>6, <1>7, <1>8
    <2>2. QED
      BY <2>1 DEF CarriesFirst
  <1>10. QED
    BY <1>9 DEF less

-----------------------------------------------------------------------------
(* What a call has come to *)

\* The call has taken n steps: what they give is there, and past the check of
\* the digest the bytes that may still be read are those the manifest named.
Taken(n) ==
    /\ n \in Nat /\ Len(call.todo) = Len(Steps(call.kind)) - n
    /\ \A i \in 1 .. Len(call.todo) : call.todo[i] = Steps(call.kind)[n + i]
    /\ CarriesFirst(call.artifacts, Steps(call.kind), n)
    /\ call.of \subseteq {call.record} \/ call.late
    /\ call.at = "gather" /\ ~call.late =>
          \A i \in 1 .. n : Steps(call.kind)[i] = "verify" => analysis.content = call.record

UnderWay ==
    call.at \in Running => /\ \E n \in Nat : Taken(n)
                           /\ call.at # "gather" => call.todo = <<>>

Locked(pack) == pack.of \subseteq {pack.names} \/ pack.late
Within(pack) == Bytes(pack.artifacts) + pack.manifest <= pack.budget
Whole(pack) ==
    /\ pack.manifest = ManifestSize(pack.artifacts)
    /\ Carries(pack.artifacts, Steps(pack.kind))

Good(pack) == Locked(pack) /\ Within(pack) /\ Whole(pack)

PackInv ==
    /\ UnderWay
    /\ call.at = "write" => Total(call.artifacts) <= call.budget
    /\ call.at = "replace" => Good(temp)
    /\ output # None => Good(output)

\* The digest is checked once, and before any bytes are read.
LEMMA VerifyOnce ==
    ASSUME NEW kind \in Kinds
    PROVE  /\ \A i, j \in 1 .. Len(Steps(kind)) :
                 Steps(kind)[i] = "verify" /\ Steps(kind)[j] = "verify" => i = j
           /\ \A k \in 1 .. Len(Steps(kind)) : Steps(kind)[k] \in {"window", "full"} =>
                 \E i \in 1 .. k - 1 : Steps(kind)[i] = "verify"
  <1>1. CASE kind = "module"
    <2>1. Steps(kind) = <<"json", "json", "verify", "full">>
      BY <1>1 DEF Steps
    <2>2. QED
      BY <2>1
  <1>2. CASE kind = "function"
    <2>1. Steps(kind) = <<"json", "json", "verify", "window", "json">>
      BY <1>2 DEF Steps
    <2>2. QED
      BY <2>1
  <1>3. CASE kind = "resource"
    <2>1. Steps(kind) = <<"json", "verify", "window", "full", "json">>
      BY <1>3 DEF Steps
    <2>2. QED
      BY <2>1
  <1>4. QED
    BY <1>1, <1>2, <1>3 DEF Kinds

\* What a step may read: nothing, or the bytes there are now.
Reads(step, of) == of = call.of \/ (step \in {"window", "full"} /\ of = Reading)

\* A step that is taken: what it gives, if it gives anything, joins the pieces.
LEMMA TakenMore ==
    ASSUME TypeInv, NEW step \in Work, Doing(step), NEW n \in Nat, Taken(n),
           NEW artifacts \in Seq(Artifact), NEW of, Reads(step, of), Go(artifacts, of),
           \/ artifacts = call.artifacts /\ step \in {"verify", "full"}
           \/ \E piece \in Artifact : piece.kind = step /\ artifacts = Append(call.artifacts, piece),
           step = "verify" => analysis.content = call.record
    PROVE  Taken(n + 1)' /\ call'.at = "gather"
  <1>1. /\ call \in Call /\ call.at = "gather" /\ call.todo \in Seq(Work) /\ call.todo # <<>>
        /\ call.artifacts \in Seq(Artifact) /\ call.kind \in Kinds
    BY InCall DEF Doing, Call, Work, Running
  <1> DEFINE steps == Steps(call.kind)  rest == Tail(call.todo)
  <1>2. /\ call'.kind = call.kind /\ call'.artifacts = artifacts /\ call'.todo = rest
        /\ call'.at = "gather" /\ call'.of = of /\ call'.record = call.record
        /\ call'.late = call.late /\ UNCHANGED analysis
    BY <1>1 DEF Go, Call, files
  <1>3. /\ 1 \in 1 .. Len(call.todo) /\ Head(call.todo) = call.todo[1] /\ Len(call.todo) \in Nat
        /\ Len(rest) = Len(call.todo) - 1
        /\ \A i \in 1 .. Len(rest) : rest[i] = call.todo[i + 1] /\ i + 1 \in 1 .. Len(call.todo)
    BY <1>1
  <1>4. steps[n + 1] = step
    BY <1>3 DEF Taken, Doing
  <1>5. CarriesFirst(artifacts, steps, n + 1)
    <2>1. CarriesFirst(call.artifacts, steps, n)
      BY DEF Taken
    <2>2. QED
      BY <1>1, <1>4, <2>1, CarriesSkip, CarriesMore
  <1>6. Len(rest) = Len(steps) - (n + 1) /\ n + 1 \in 1 .. Len(steps)
    <2>1. Len(steps) \in Nat /\ Len(call.todo) = Len(steps) - n
      BY <1>1, StepsTyped DEF Taken
    <2>2. QED
      BY <1>3, <2>1
  <1>7. \A i \in 1 .. Len(rest) : rest[i] = steps[(n + 1) + i]
    <2> SUFFICES ASSUME NEW i \in 1 .. Len(rest) PROVE rest[i] = steps[(n + 1) + i]
      OBVIOUS
    <2>1. rest[i] = call.todo[i + 1] /\ i + 1 \in 1 .. Len(call.todo) /\ i \in Nat
      BY <1>3
    <2>2. call.todo[i + 1] = steps[n + (i + 1)]
      BY <2>1 DEF Taken
    <2>3. n + (i + 1) = (n + 1) + i
      BY <2>1
    <2>4. QED
      BY <2>1, <2>2, <2>3
  <1>8. /\ call.of \subseteq {call.record} \/ call.late
        /\ ~call.late => \A i \in 1 .. n : steps[i] = "verify" => analysis.content = call.record
    BY <1>1 DEF Taken
  <1>9. ~call.late =>
           \A i \in 1 .. n + 1 : steps[i] = "verify" => analysis.content = call.record
    <2>1. \A i \in 1 .. n + 1 : i \in 1 .. n \/ i = n + 1
      OBVIOUS
    <2> HIDE DEF steps
    <2>2. QED
      BY <1>4, <1>8, <2>1
  <1>10. of \subseteq {call.record} \/ call.late
    <2>1. CASE of = call.of
      BY <1>8, <2>1
    <2>2. CASE step \in {"window", "full"} /\ of = Reading
      <3>1. \E i \in 1 .. (n + 1) - 1 : steps[i] = "verify"
        BY <1>1, <1>4, <1>6, <2>2, VerifyOnce
      <3>2. (n + 1) - 1 = n
        OBVIOUS
      <3> HIDE DEF steps
      <3>3. analysis.content = call.record \/ call.late
        BY <1>8, <3>1, <3>2
      <3>4. QED
        BY <1>8, <2>2, <3>3 DEF Reading
    <2>3. QED
      BY <2>1, <2>2 DEF Reads
  <1> HIDE DEF steps, rest
  <1>11. Taken(n + 1)'
    BY <1>2, <1>5, <1>6, <1>7, <1>9, <1>10 DEF Taken, steps
  <1>12. QED
    BY <1>2, <1>11

\* A step of gathering leaves what was put in place before as it is.
LEMMA GatherKeeps ==
    ASSUME TypeInv, PackInv, UNCHANGED output, UnderWay',
           call'.at \notin {"write", "replace"}
    PROVE  PackInv'
  BY DEF PackInv, Good, Locked, Within, Whole

\* A call that ends, or is about to raise its error.
LEMMA EndKeeps ==
    ASSUME TypeInv, PackInv, UNCHANGED output, call'.at \in {"idle", "over"}
    PROVE  PackInv'
  BY GatherKeeps DEF UnderWay, Running

LEMMA GoKeeps ==
    ASSUME TypeInv, PackInv, NEW step \in Work, Doing(step),
           NEW artifacts \in Seq(Artifact), NEW of, Reads(step, of), Go(artifacts, of),
           \/ artifacts = call.artifacts /\ step \in {"verify", "full"}
           \/ \E piece \in Artifact : piece.kind = step /\ artifacts = Append(call.artifacts, piece),
           step = "verify" => analysis.content = call.record
    PROVE  PackInv'
  <1>1. call.at = "gather"
    BY DEF Doing
  <1>2. PICK n \in Nat : Taken(n)
    BY <1>1 DEF PackInv, UnderWay, Running
  <1>3. Taken(n + 1)' /\ call'.at = "gather" /\ n + 1 \in Nat
    BY <1>2, TakenMore
  <1>4. UnderWay'
    BY <1>3 DEF UnderWay
  <1>5. UNCHANGED output
    BY DEF Go
  <1>6. QED
    BY <1>3, <1>4, <1>5, GatherKeeps

LEMMA AddKeeps ==
    ASSUME TypeInv, PackInv, NEW kind \in {"json", "window"}, NEW size \in Nat,
           Doing(kind), NEW of, Reads(kind, of), Add(kind, size, of)
    PROVE  PackInv'
  <1> DEFINE piece == [kind |-> kind, size |-> size]  more == Append(call.artifacts, piece)
  <1>1. call \in Call /\ call.at = "gather"
    BY InCall DEF Doing, Running
  <1>2. piece \in Artifact /\ piece.kind = kind /\ more \in Seq(Artifact)
    BY <1>1, Typed DEF Artifact, Call
  <1>3. CASE Go(more, of)
    BY <1>2, <1>3, GoKeeps DEF Work
  <1>4. CASE OverBudget(more)
    BY <1>4, EndKeeps DEF OverBudget
  <1>5. QED
    BY <1>3, <1>4 DEF Add

\* An analysis replaces the bytes: of a call that has yet to check the digest,
\* that has read what it reads, or that is late from now on.
LEMMA AnalyzeKeeps ==
    ASSUME TypeInv, PackInv, Analyze
    PROVE  PackInv'
  <1>1. CASE Checked
    <2>1. call \in Call /\ call.at = "gather" /\ call' = [call EXCEPT !.late = TRUE]
      BY <1>1, InCall DEF Checked, Running, Analyze
    <2>2. /\ call'.at = "gather" /\ call'.kind = call.kind /\ call'.todo = call.todo
          /\ call'.artifacts = call.artifacts /\ call'.late /\ UNCHANGED output
      BY <2>1 DEF Call, Analyze
    <2>3. PICK n \in Nat : Taken(n)
      BY <2>1 DEF PackInv, UnderWay, Running
    <2>4. Taken(n)'
      BY <2>2, <2>3 DEF Taken
    <2>5. UnderWay'
      BY <2>2, <2>4 DEF UnderWay
    <2>6. QED
      BY <2>2, <2>5, GatherKeeps
  <1>2. CASE ~Checked
    <2>1. UNCHANGED <<call, temp, output>>
      BY <1>2 DEF Analyze
    <2>2. UnderWay'
      <3> SUFFICES ASSUME call.at \in Running PROVE UnderWay'
        BY <2>1 DEF UnderWay
      <3>1. PICK n \in Nat : Taken(n)
        BY DEF PackInv, UnderWay
      <3>2. call.at = "gather" =>
               \A i \in 1 .. n : Steps(call.kind)[i] # "verify"
        <4> SUFFICES ASSUME call.at = "gather", NEW i \in 1 .. n,
                            Steps(call.kind)[i] = "verify"
                     PROVE  FALSE
          OBVIOUS
        <4>1. call \in Call /\ call.kind \in Kinds /\ Len(call.todo) \in Nat
              /\ DOMAIN call.todo = 1 .. Len(call.todo)
          BY InCall DEF Call
        <4>2. PICK j \in 1 .. Len(call.todo) : call.todo[j] = "verify"
          BY <1>2, <4>1 DEF Checked
        <4>3. Steps(call.kind)[n + j] = "verify" /\ Len(call.todo) = Len(Steps(call.kind)) - n
          BY <3>1, <4>2 DEF Taken
        <4>4. Len(Steps(call.kind)) \in Nat
          BY <4>1, StepsTyped
        <4>5. n + j \in 1 .. Len(Steps(call.kind)) /\ i \in 1 .. Len(Steps(call.kind))
              /\ i # n + j
          BY <4>1, <4>3, <4>4
        <4>6. QED
          BY <4>1, <4>3, <4>5, VerifyOnce
      <3>3. Taken(n)'
        BY <2>1, <3>1, <3>2 DEF Taken
      <3>4. QED
        BY <2>1, <3>3 DEF UnderWay, PackInv
    <2>3. QED
      BY <2>1, <2>2 DEF PackInv, Good, Locked, Within, Whole
  <1>3. QED
    BY <1>1, <1>2

\* What is written is good.
LEMMA MadeGood ==
    ASSUME TypeInv, PackInv, call.at = "write"
    PROVE  Good(Made)
  <1>1. call.kind \in Kinds /\ call.todo = <<>> /\ call.at \in Running
    BY InCall DEF PackInv, UnderWay, Call, Running
  <1>2. PICK n \in Nat : Taken(n)
    BY <1>1 DEF PackInv, UnderWay
  <1>3. n = Len(Steps(call.kind))
    BY <1>1, <1>2, StepsTyped DEF Taken
  <1>4. call.of \subseteq {call.record} \/ call.late
    BY <1>2 DEF Taken
  <1>5. Carries(call.artifacts, Steps(call.kind))
    BY <1>2, <1>3, CarriesAll DEF Taken
  <1>6. Bytes(call.artifacts) + ManifestSize(call.artifacts) <= call.budget
    BY DEF PackInv, Total
  <1>7. QED
    BY <1>4, <1>5, <1>6 DEF Made, Good, Locked, Within, Whole

LEMMA PackStep == TypeInv /\ PackInv /\ [Next]_vars => PackInv'
  <1> SUFFICES ASSUME TypeInv, PackInv, [Next]_vars PROVE PackInv'
    OBVIOUS
  <1>0. TypeOK /\ Idle.at = "idle"
    BY DEF TypeInv, Idle
  <1>1. CASE Edit \/ Prepare
    BY <1>1 DEF Edit, Prepare, PackInv, UnderWay, Taken, Good, Locked, Within, Whole
  <1>2. CASE Select
    <2>1. PICK kind \in Kinds, budget \in Budgets, window \in Windows :
              call' = [at |-> "gather", kind |-> kind, budget |-> budget, window |-> window,
                       record |-> manifest, status |-> analysis.status,
                       todo |-> Steps(kind), artifacts |-> <<>>, of |-> {}, late |-> FALSE]
      BY <1>2 DEF Select
    <2>2. /\ call'.at = "gather" /\ call'.kind = kind /\ call'.todo = Steps(kind)
          /\ call'.artifacts = <<>> /\ call'.of = {} /\ Len(Steps(kind)) \in Nat
      BY <2>1, StepsTyped
    <2>3. Taken(0)'
      BY <2>2, CarriesNothing DEF Taken
    <2>4. UnderWay' /\ UNCHANGED output
      BY <1>2, <2>2, <2>3 DEF UnderWay, Select
    <2>5. QED
      BY <2>2, <2>4, GatherKeeps
  <1>3. CASE Refuse \/ VerifyFails \/ Raise
    BY <1>0, <1>3, EndKeeps DEF Refuse, VerifyFails, Raise
  <1>4. CASE AddRecord
    BY <1>4, AddKeeps, PackAssumption DEF AddRecord, Reads
  <1>5. CASE Verify
    <2>1. call.artifacts \in Seq(Artifact)
      BY <1>5, InCall DEF Verify, Doing, Call, Running
    <2>2. QED
      BY <1>5, <2>1, GoKeeps DEF Verify, Matches, Work, Reads
  <1>6. CASE AddWindow
    <2>1. \A size \in 0 .. SizeOf[call.record] : size \in Nat
      BY PackAssumption
    <2>2. QED
      BY <1>6, <2>1, AddKeeps DEF AddWindow, Reads
  <1>7. CASE AddFull
    <2> DEFINE piece == [kind |-> "full", size |-> SizeOf[analysis.content]]
               more == Append(call.artifacts, piece)
    <2>1. call.artifacts \in Seq(Artifact) /\ analysis \in Analyzed
      BY <1>7, InCall DEF AddFull, Doing, Call, Running
    <2>2. SizeOf[analysis.content] \in Nat
      BY <2>1, PackAssumption DEF Analyzed
    <2>3. piece \in Artifact /\ piece.kind = "full" /\ more \in Seq(Artifact)
      BY <2>1, <2>2, Typed DEF Artifact
    <2>4. Doing("full") /\ (Go(more, Reading) \/ Go(call.artifacts, call.of))
      BY <1>7 DEF AddFull
    <2>5. Reads("full", Reading) /\ Reads("full", call.of)
      BY DEF Reads
    <2> HIDE DEF piece
    <2>6. QED
      BY <2>1, <2>3, <2>4, <2>5, GoKeeps DEF Work
  <1>8. CASE Gathered
    <2>1. call \in Call /\ call.at = "gather"
      BY <1>8, InCall DEF Gathered, Running
    <2>2. /\ call'.at = "fit" /\ call'.kind = call.kind /\ call'.todo = call.todo
          /\ call'.artifacts = call.artifacts /\ call.todo = <<>>
          /\ call'.of = call.of /\ call'.record = call.record /\ call'.late = call.late
          /\ UNCHANGED output
      BY <1>8, <2>1 DEF Gathered, Call, files
    <2>3. UnderWay'
      BY <2>1, <2>2 DEF PackInv, UnderWay, Taken, Running
    <2>4. QED
      BY <2>2, <2>3, GatherKeeps
  <1>9. CASE Fits
    <2>1. call \in Call /\ call.at = "fit"
      BY <1>9, InCall DEF Fits, Running
    <2>2. /\ call'.at = "write" /\ call'.kind = call.kind /\ call'.todo = call.todo
          /\ call'.artifacts = call.artifacts /\ call'.budget = call.budget
          /\ call'.of = call.of /\ call'.record = call.record /\ call'.late = call.late
          /\ UNCHANGED output
      BY <1>9, <2>1 DEF Fits, Call, files
    <2>3. UnderWay'
      BY <2>1, <2>2 DEF PackInv, UnderWay, Taken, Running
    <2>4. Total(call'.artifacts) <= call'.budget
      BY <1>9, <2>2 DEF Fits
    <2>5. QED
      BY <2>2, <2>3, <2>4 DEF PackInv, Good, Locked, Within, Whole
  <1>10. CASE LeaveOut
    <2>1. call \in Call /\ call.at = "fit" /\ call.artifacts \in Seq(Artifact)
      BY <1>10, InCall DEF LeaveOut, Call, Running
    <2>2. PICK i \in Optional : call' = [call EXCEPT !.artifacts = RemoveAt(@, i)]
      BY <1>10 DEF LeaveOut
    <2>3. i \in 1 .. Len(call.artifacts) /\ call.artifacts[i].kind = "full"
      BY DEF Optional
    <2>4. /\ call'.at = "fit" /\ call'.kind = call.kind /\ call'.todo = call.todo
          /\ call'.artifacts = RemoveAt(call.artifacts, i)
          /\ call'.of = call.of /\ call'.record = call.record /\ call'.late = call.late
          /\ UNCHANGED output
      BY <1>10, <2>1, <2>2 DEF LeaveOut, Call, files
    <2>5. PICK n \in Nat : Taken(n)
      BY <2>1 DEF PackInv, UnderWay, Running
    <2>6. CarriesFirst(RemoveAt(call.artifacts, i), Steps(call.kind), n)
      BY <2>1, <2>3, <2>5, CarriesLess DEF Taken
    <2>7. Taken(n)'
      BY <2>4, <2>5, <2>6 DEF Taken
    <2>8. UnderWay'
      BY <2>1, <2>4, <2>7 DEF PackInv, UnderWay, Running
    <2>9. QED
      BY <2>4, <2>8, GatherKeeps
  <1>11. CASE DoesNotFit
    BY <1>11, EndKeeps DEF DoesNotFit, OverBudget
  <1>12. CASE Write
    <2>1. CASE temp' = Made /\ call' = [call EXCEPT !.at = "replace"]
      <3>1. call \in Call /\ call.at = "write"
        BY <1>12, InCall DEF Write, Running
      <3>2. /\ call'.at = "replace" /\ call'.kind = call.kind /\ call'.todo = call.todo
            /\ call'.artifacts = call.artifacts
            /\ call'.of = call.of /\ call'.record = call.record /\ call'.late = call.late
            /\ UNCHANGED output
        BY <1>12, <2>1, <3>1 DEF Write, Call, files
      <3>3. UnderWay'
        BY <3>1, <3>2 DEF PackInv, UnderWay, Taken, Running
      <3>4. Good(temp')
        BY <2>1, <3>1, MadeGood
      <3>5. QED
        BY <3>2, <3>3, <3>4 DEF PackInv, Good, Locked, Within, Whole
    <2>2. CASE temp' = None /\ call' = Idle
      BY <1>0, <1>12, <2>2, EndKeeps DEF Write
    <2>3. QED
      BY <1>12, <2>1, <2>2 DEF Write
  <1>13. CASE Replace
    BY <1>0, <1>13 DEF Replace, PackInv, UnderWay, Good, Locked, Within, Whole, Running
  <1>14. CASE Kill
    BY <1>0, <1>14, EndKeeps DEF Kill, files
  <1>15. CASE UNCHANGED vars
    BY <1>15 DEF vars, files, PackInv, UnderWay, Taken, Good, Locked, Within, Whole
  <1>16. QED
    BY <1>1, <1>2, <1>3, <1>4, <1>5, <1>6, <1>7, <1>8, <1>9, <1>10, <1>11, <1>12, <1>13,
       <1>14, <1>15, AnalyzeKeeps DEF Next

LEMMA PackInvariant == Spec => []PackInv
  <1>1. Init => PackInv
    BY DEF Init, PackInv, UnderWay, Idle, Running
  <1>2. QED
    BY <1>1, PackStep, TypeInvariant, PTL DEF Spec

\* The bytes in a pack are those its manifest names, though the source may be
\* edited, prepared and analyzed again at any time: unless an analysis has
\* replaced them after their digest was checked (_verify_source_file).
THEOREM PackIsLocked == Spec => []ProvenanceLocked
  <1>1. PackInv => ProvenanceLocked
    BY DEF PackInv, Good, Locked, ProvenanceLocked
  <1>2. QED
    BY <1>1, PackInvariant, PTL

\* A pack and its manifest together keep to the budget, whatever its pieces
\* measure (_append, _fit_manifest_budget).
THEOREM PackIsWithinBudget == Spec => []WithinBudget
  <1>1. PackInv => WithinBudget
    BY DEF PackInv, Good, Within, WithinBudget
  <1>2. QED
    BY <1>1, PackInvariant, PTL

\* What lies at the output path has all the evidence its kind requires, in
\* order, wherever a call was ended (create_analysis_pack, _write_pack).
THEOREM PackIsWhole == Spec => []OutputIsWhole
  <1>1. PackInv => OutputIsWhole
    BY DEF PackInv, Good, Whole, OutputIsWhole
  <1>2. QED
    BY <1>1, PackInvariant, PTL
=============================================================================
