----------------------------- MODULE AttemptLog -----------------------------
(***************************************************************************)
(* What the decompilation pipeline promises of a function's record: its    *)
(* attempts are appended and never removed or rewritten, and the best one  *)
(* on record stays, or gives way to the one that ranks best of them all.   *)
(***************************************************************************)
EXTENDS Attempts

VARIABLES
    log,    \* per function, its attempts in the order they were recorded
    best    \* per function, what identifies its best attempt, or None

logVars == <<log, best>>

LogInit ==
    /\ log = [f \in Functions |-> <<>>]
    /\ best = [f \in Functions |-> None]

Extends(longer, history) ==
    /\ Len(longer) >= Len(history)
    /\ \A i \in 1 .. Len(history) : longer[i] = history[i]

Record(f) ==
    /\ Extends(log'[f], log[f])
    /\ \/ best'[f] = best[f]
       \/ log'[f] # <<>> /\ best'[f] = Best(log'[f]).inputs
    /\ \A g \in Functions \ {f} : log'[g] = log[g] /\ best'[g] = best[g]

LogNext == \E f \in Functions : Record(f)

LogSpec == LogInit /\ [][LogNext]_logVars
=============================================================================
