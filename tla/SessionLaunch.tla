---------------------------- MODULE SessionLaunch ----------------------------
(***************************************************************************)
(* The process side of a runtime session (runtime/session.py): RuntimeSes- *)
(* sion starts an emulator, connects to its debugger port, retrying until  *)
(* a deadline, and terminates it in the end; or else it connects to one    *)
(* that runs already.  What is said over the connection is DebuggerSession.*)
(***************************************************************************)
EXTENDS Naturals

CONSTANTS
    Modes,          \* how sessions are opened: "launch", "connect"
    Others,         \* another program may listen on the port
    Stubborn,       \* a process may not heed terminate()
    MaxInterrupts   \* bound: KeyboardInterrupts

ASSUME ModesAssumption == Modes \subseteq {"launch", "connect"}
ASSUME BoundsAssumption ==
    /\ {Others, Stubborn} \subseteq BOOLEAN
    /\ MaxInterrupts \in Nat

VARIABLES
    process,     \* the emulator launched: it listens some time after it starts
    stubborn,    \* it does not heed terminate()
    other,       \* what else listens on the port: a debugger, or no such thing
    mode,
    owned,       \* the session holds the process (_process is not None)
    peer,        \* whom the transport is connected to
    late,        \* the retry deadline has passed
    pc,          \* where the session is
    raising,     \* an exception is on its way through the constructor
    interrupts

vars == <<process, stubborn, other, mode, owned, peer, late, pc, raising, interrupts>>

Alive == process \in {"starting", "listening", "told"}

Setup == {"launch", "poll", "connect", "decide", "sleep"}
Ending == {"close", "cleanup", "terminate", "wait", "kill"}
\* abandoned: interrupted before the session was open; cut: while it was closed.
Ends == {"failed", "closed", "abandoned", "cut"}

TypeOK ==
    /\ process \in {"none", "starting", "listening", "told", "exited"}
    /\ stubborn \in BOOLEAN
    /\ other \in {"none", "debugger", "stranger"}
    /\ mode \in Modes
    /\ owned \in BOOLEAN
    /\ peer \in {"none", "launched", "other"}
    /\ late \in BOOLEAN
    /\ pc \in Setup \cup {"open"} \cup Ending \cup Ends
    /\ raising \in BOOLEAN
    /\ interrupts \in 0 .. MaxInterrupts
    /\ owned => process # "none"

Init ==
    /\ process = "none" /\ stubborn \in {FALSE, Stubborn}
    /\ other \in {"none"} \cup IF Others THEN {"debugger", "stranger"} ELSE {}
    /\ mode \in Modes
    /\ owned = FALSE /\ peer = "none" /\ late = FALSE
    /\ pc = IF mode = "launch" THEN "launch" ELSE "connect"
    /\ raising = FALSE /\ interrupts = 0

-----------------------------------------------------------------------------
(* The emulator and the clock *)

\* It cannot listen on a port that another program has.
Listen ==
    /\ process = "starting" /\ other = "none"
    /\ process' = "listening"
    /\ UNCHANGED <<stubborn, other, mode, owned, peer, late, pc, raising, interrupts>>

\* It crashes, is closed by the user, or heeds the signal.
Exit ==
    /\ Alive /\ ~(process = "told" /\ stubborn)
    /\ process' = "exited"
    /\ UNCHANGED <<stubborn, other, mode, owned, peer, late, pc, raising, interrupts>>

Deadline ==
    /\ ~late
    /\ late' = TRUE
    /\ UNCHANGED <<process, stubborn, other, mode, owned, peer, pc, raising, interrupts>>

-----------------------------------------------------------------------------
(* The constructor *)

\* Raising in the constructor: what has been started is cleaned up first.
Raise == pc' = "cleanup" /\ raising' = TRUE

\* Mutant of Launch: the session takes itself to hold a process in any case.
LaunchOwning ==
    /\ pc = "launch"
    /\ owned' = TRUE
    /\ \/ /\ process' = "starting"
          /\ pc' = "poll"
          /\ UNCHANGED raising
       \/ /\ Raise
          /\ UNCHANGED process
    /\ UNCHANGED <<stubborn, other, mode, peer, late, interrupts>>

Launch ==
    /\ pc = "launch"
    /\ \/ /\ process' = "starting" /\ owned' = TRUE
          /\ pc' = "poll"
          /\ UNCHANGED raising
       \/ /\ Raise
          /\ UNCHANGED <<process, owned>>
    /\ UNCHANGED <<stubborn, other, mode, peer, late, interrupts>>

Poll ==
    /\ pc = "poll"
    /\ IF process = "exited" THEN Raise ELSE pc' = "connect" /\ UNCHANGED raising
    /\ UNCHANGED <<process, stubborn, other, mode, owned, peer, late, interrupts>>

\* A stranger on the port lets the connection open and then fails it.
Connect ==
    /\ pc = "connect"
    /\ \/ /\ process = "listening" \/ other = "debugger"
          /\ peer' = IF other = "debugger" THEN "other" ELSE "launched"
          /\ pc' = "open"
          /\ UNCHANGED raising
       \/ /\ IF mode = "launch" THEN pc' = "decide" /\ UNCHANGED raising ELSE Raise
          /\ UNCHANGED peer
       \/ /\ Raise
          /\ UNCHANGED peer
    /\ UNCHANGED <<process, stubborn, other, mode, owned, late, interrupts>>

\* Mutant of Decide: the deadline is not looked at.
DecideAgain ==
    /\ pc = "decide"
    /\ pc' = "sleep"
    /\ UNCHANGED <<process, stubborn, other, mode, owned, peer, late, raising, interrupts>>

Decide ==
    /\ pc = "decide"
    /\ IF late THEN Raise ELSE pc' = "sleep" /\ UNCHANGED raising
    /\ UNCHANGED <<process, stubborn, other, mode, owned, peer, late, interrupts>>

Sleep ==
    /\ pc = "sleep"
    /\ pc' = "poll"
    /\ UNCHANGED <<process, stubborn, other, mode, owned, peer, late, raising, interrupts>>

-----------------------------------------------------------------------------
(* close() and _cleanup_process *)

LeaveBlock ==
    /\ pc = "open"
    /\ pc' = "close"
    /\ UNCHANGED <<process, stubborn, other, mode, owned, peer, late, raising, interrupts>>

CloseTransport ==
    /\ pc = "close"
    /\ peer' = "none" /\ pc' = "cleanup"
    /\ UNCHANGED <<process, stubborn, other, mode, owned, late, raising, interrupts>>

Over == IF raising THEN "failed" ELSE "closed"

\* The session lets go of the process before it terminates it.
Cleanup ==
    /\ pc = "cleanup"
    /\ owned' = FALSE
    /\ pc' = IF owned /\ process # "exited" THEN "terminate" ELSE Over
    /\ UNCHANGED <<process, stubborn, other, mode, peer, late, raising, interrupts>>

Terminate ==
    /\ pc = "terminate"
    /\ process' = IF Alive THEN "told" ELSE process
    /\ pc' = "wait"
    /\ UNCHANGED <<stubborn, other, mode, owned, peer, late, raising, interrupts>>

\* Mutant of Wait: once the wait has timed out nothing more is done.
WaitOnce ==
    /\ pc = "wait"
    /\ pc' = Over
    /\ UNCHANGED <<process, stubborn, other, mode, owned, peer, late, raising, interrupts>>

\* Mutant of Wait: it has no timeout.
WaitUntimed ==
    /\ pc = "wait" /\ process = "exited"
    /\ pc' = Over
    /\ UNCHANGED <<process, stubborn, other, mode, owned, peer, late, raising, interrupts>>

\* process.wait returns, or times out.
Wait ==
    /\ pc = "wait"
    /\ pc' = IF process = "exited" THEN Over ELSE "kill"
    /\ UNCHANGED <<process, stubborn, other, mode, owned, peer, late, raising, interrupts>>

\* kill() is not to be ignored.
Kill ==
    /\ pc = "kill"
    /\ process' = "exited"
    /\ pc' = Over
    /\ UNCHANGED <<stubborn, other, mode, owned, peer, late, raising, interrupts>>

\* No handler expects a KeyboardInterrupt: in the constructor nothing is
\* cleaned up, in the with block close() is called, within close() the rest of
\* it is left out.
Interrupt ==
    /\ interrupts < MaxInterrupts /\ pc \notin Ends
    /\ interrupts' = interrupts + 1
    /\ pc' = CASE pc = "open" -> "close"
              [] pc \in Ending /\ ~raising -> "cut"
              [] OTHER -> "abandoned"
    /\ UNCHANGED <<process, stubborn, other, mode, owned, peer, late, raising>>

-----------------------------------------------------------------------------

Session ==
    \/ Launch \/ Poll \/ Connect \/ Decide \/ Sleep
    \/ CloseTransport \/ Cleanup \/ Terminate \/ Wait \/ Kill

Next == Listen \/ Exit \/ Deadline \/ Session \/ LeaveBlock \/ Interrupt

Spec == Init /\ [][Next]_vars

\* Connecting, sleeping and waiting all have a timeout, and time passes.
FairSpec == Spec /\ WF_vars(Session) /\ WF_vars(Deadline)

-----------------------------------------------------------------------------
(* Properties *)

\* A session that has ended by itself leaves no process of its own behind,
\* whether it failed to start, was closed, or found the emulator unwilling to
\* go (session.py, _terminate_process and the constructor's except clause).
NoProcessLeft == pc \in {"failed", "closed"} => ~Alive

\* The constructor returns or raises: retrying ends, with the emulator
\* listening, gone, or late (session.py, _connect_with_retry).
SetupEnds == pc \in Setup ~> pc \in {"open"} \cup Ends

\* Closing ends, however unwilling the emulator is (session.py, close and
\* _terminate_process).
ClosingEnds == pc \in Ending ~> pc \in Ends
=============================================================================
