---------------------------- MODULE MCAnalysisPack ----------------------------
EXTENDS AnalysisPack, TLC

CONSTANTS c1, c2

MCContents == {c1, c2}

\* Of one size, which the check of the digest must not go by.
MCSizeOf == c1 :> 3 @@ c2 :> 3

\* More than a manifest takes.
MCLargeSizeOf == c1 :> 5 @@ c2 :> 5

ContentSymmetry == Permutations(MCContents)

\* Enough for a whole file beside the smallest evidence; with more of it the
\* file is left out, at first or for the manifest, and with still more the
\* evidence alone is over it.
MCBudgets == {11}
MCWindows == {1, 7}
MCRecords == {1, 5}
MCEntry == 1
=============================================================================
