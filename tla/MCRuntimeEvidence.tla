-------------------------- MODULE MCRuntimeEvidence --------------------------
(***************************************************************************)
(* Instances of RuntimeEvidence for TLC.                                   *)
(***************************************************************************)
EXTENDS RuntimeEvidence

CONSTANTS m1, m2, s1, s2, c1, c2

TwoPaths == {m1, m2}
Sorted == <<m1, m2>>
TwoSessions == {s1, s2}
ById == <<s1, s2>>
OneCall == {c1}
TwoCalls == {c1, c2}
AnyId == [c \in Calls |-> Sessions]

\* m1 is longer in memory than its static image; it lies before m2 or behind.
Lengths == [p \in Paths |-> IF p = m1 THEN 3 ELSE 2]
Code == {[path |-> m1, offset |-> 0], [path |-> m1, offset |-> 2],
         [path |-> m2, offset |-> 1]}
TwoCode == Code \ {[path |-> m1, offset |-> 0]}
SecondOrNone == {{}, {m2}}
AnyPaths == SUBSET Paths
Low == [p \in Paths |-> IF p = m1 THEN 2 ELSE 5]
High == [p \in Paths |-> IF p = m1 THEN 4 ELSE 1]
OneLayout == {High}
TwoLayouts == {Low, High}

Placed(ps, at) == [p \in ps |-> [load |-> IF p = m1 THEN at ELSE at + 4, size |-> 2]]
TwoAnalyses == {Placed({m1}, 20), Placed(Paths, 20)}
ThreeAnalyses == {Placed({}, 20), Placed({m1}, 20), Placed(Paths, 30)}

NoCandidates == [p \in Paths |-> {}]
AllCandidates == [p \in Paths |-> 20 .. 40]
TwoCandidates == {NoCandidates, AllCandidates}
OneCandidates == {AllCandidates}
=============================================================================
