-------------------------- MODULE MCDebuggerSession --------------------------
(***************************************************************************)
(* Instances of DebuggerSession for TLC.                                   *)
(***************************************************************************)
EXTENDS DebuggerSession

CONSTANTS a1, a2

MCAddrs == {a1, a2}
=============================================================================
