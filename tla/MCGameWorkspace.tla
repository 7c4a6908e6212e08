--------------------------- MODULE MCGameWorkspace ---------------------------
(***************************************************************************)
(* Instances of GameWorkspace for TLC.                                     *)
(***************************************************************************)
EXTENDS GameWorkspace, TLC

CONSTANTS s1, s2, c1, c2, k1, k2

OneSource  == {s1}
TwoSources == {s1, s2}
TwoContents == {c1, c2}
TwoConfigs == {k1, k2}

Directories == [s \in Sources |-> "directory"]
OneOfEach   == [s \in Sources |-> IF s = s1 THEN "directory" ELSE "disc"]
=============================================================================
