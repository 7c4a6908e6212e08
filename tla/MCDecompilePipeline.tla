------------------------- MODULE MCDecompilePipeline -------------------------
(***************************************************************************)
(* Instances of DecompilePipeline for TLC.                                 *)
(***************************************************************************)
EXTENDS DecompilePipeline

CONSTANTS f1, f2, l1, l2, t1, d1, d2, p1

OneFunction == {f1}
TwoFunctions == {f1, f2}
OneListing == {l1}
TwoListings == {l1, l2}
OneToolset == {t1}
OneDraft == {d1}
TwoDrafts == {d1, d2}
OneProcess == {p1}

\* An exact match, one that only rounds to 100 percent, one of half.
AllScores == {[exact |-> TRUE, percent |-> 100, rows |-> 0],
              [exact |-> FALSE, percent |-> 100, rows |-> 1],
              [exact |-> FALSE, percent |-> 50, rows |-> 2]}
TwoScores == {s \in AllScores : s.rows # 2}

\* Any injection does: only the order of the numbers shows, in ties.
Numbering ==
    [i \in Inputs |-> (IF i.function = f1 THEN 0 ELSE 6)
                     + (CASE i.listing = l1 -> 0 [] i.listing = l2 -> 2 [] OTHER -> 4)
                     + (IF i.contexts = "none" THEN 0 ELSE 1)]

Places == [f \in Functions |-> IF f = f1 THEN 1 ELSE 2]
OwnStems == [f \in Functions |-> IF f = f1 THEN "start" ELSE "init"]
OneStem == [f \in Functions |-> "start"]
StemNames == {Stem[f] : f \in Functions}

SomeListings == Listings
Runnable == Listings \cup {"empty"}
AnyAnalysis == Listings \cup {"empty", "invalid"}

Default == [only |-> None, below |-> None, unmatched |-> FALSE, limit |-> None,
            contexts |-> "none", maxAttempts |-> 2, force |-> FALSE, m2c |-> TRUE,
            tools |-> t1]
WithContext == [Default EXCEPT !.contexts = "given"]
BadContext == [Default EXCEPT !.contexts = "unreadable"]
OneAttempt == [WithContext EXCEPT !.maxAttempts = 1]
NoM2c == [Default EXCEPT !.m2c = FALSE]
Unmatched == [WithContext EXCEPT !.unmatched = TRUE]
Below == [WithContext EXCEPT !.below = 100]
Only(f, c) == [c EXCEPT !.only = f]
Limited == [Default EXCEPT !.limit = 1]
Forced(f) == [Default EXCEPT !.only = f, !.force = TRUE]

DefaultOnly == {Default}
LimitedOnly == {Limited}
Mixed == {Default, Limited, BadContext}
AllFilters == {Default, BadContext, Unmatched, Below, Only(f1, NoM2c), Only(f2, OneAttempt),
               Limited, Forced(f1)}
Unforced == {Default, WithContext, BadContext, Only(f1, WithContext), Only(f1, NoM2c)}
RetryOne == {Default, WithContext, Only(f1, WithContext), Only(f1, NoM2c), Forced(f1)}
=============================================================================
