------------------------- MODULE SessionLaunchProofs -------------------------
(***************************************************************************)
(* What SessionLaunch promises for every choice of modes, of other         *)
(* programs on the port and of the number of interrupts.  The invariant    *)
(* says who answers for a running process: the session that holds it, or   *)
(* the steps of _terminate_process that have taken it over.  And a session *)
(* whose deadline has passed can only go forward.                          *)
(***************************************************************************)
EXTENDS SessionLaunch, TLAPS

Terminating == {"terminate", "wait", "kill"}
Interrupted == {"abandoned", "cut"}

\* A process that runs is held, unless it is being terminated or the session
\* was interrupted.
Held == Alive => owned \/ pc \in Terminating \cup Interrupted

\* Once the clean-up has begun to terminate it, or the session is over, the
\* session holds no process.
Released == pc \in Terminating \cup {"failed", "closed"} => ~owned

Inv == TypeOK /\ Held /\ Released

\* A step keeps every variable within its type.
LEMMA TypeStep == TypeOK /\ [Next]_vars => TypeOK'
<1> SUFFICES ASSUME TypeOK, [Next]_vars PROVE TypeOK'
  OBVIOUS
<1> USE DEF TypeOK, Setup, Ending, Ends
<1>1. CASE Listen \/ Exit \/ Deadline
  <2>1. process' \in {process, "listening", "exited"} /\ late' \in {late, TRUE}
    BY <1>1 DEF Listen, Exit, Deadline
  <2>2. UNCHANGED <<stubborn, other, mode, owned, peer, pc, raising, interrupts>>
    BY <1>1 DEF Listen, Exit, Deadline
  <2>3. process' \in {"none", "starting", "listening", "told", "exited"}
    BY <2>1
  <2>4. late' \in BOOLEAN
    BY <2>1
  <2>5. owned => process' # "none"
    BY <2>1
  <2> QED
    BY <2>2, <2>3, <2>4, <2>5
<1>2. CASE Launch
  <2>1. CASE process' = "starting" /\ owned' = TRUE /\ pc' = "poll" /\ UNCHANGED raising
    BY <1>2, <2>1 DEF Launch
  <2>2. CASE Raise /\ UNCHANGED <<process, owned>>
    BY <1>2, <2>2 DEF Launch, Raise
  <2> QED
    BY <1>2, <2>1, <2>2 DEF Launch
<1>3. CASE Poll \/ Decide \/ Sleep
  <2>1. CASE Raise /\ (Poll \/ Decide)
    BY <2>1 DEF Poll, Decide, Raise
  <2>2. CASE ~Raise \/ Sleep
    BY <1>3, <2>2 DEF Poll, Decide, Sleep
  <2> QED
    BY <1>3, <2>1, <2>2
<1>4. CASE Connect
  <2>1. CASE Raise /\ UNCHANGED peer
    BY <1>4, <2>1 DEF Connect, Raise
  <2>2. CASE ~(Raise /\ UNCHANGED peer)
    BY <1>4, <2>2 DEF Connect
  <2> QED
    BY <2>1, <2>2
<1>5. CASE LeaveBlock \/ CloseTransport
  BY <1>5 DEF LeaveBlock, CloseTransport
<1>6. CASE Cleanup \/ Terminate \/ Wait \/ Kill
  <2>1. Over \in {"failed", "closed"}
    BY DEF Over
  <2>2. CASE Cleanup
    BY <2>1, <2>2 DEF Cleanup
  <2>3. CASE Terminate
    BY <2>3 DEF Terminate, Alive
  <2>4. CASE Wait \/ Kill
    BY <2>1, <2>4 DEF Wait, Kill
  <2> QED
    BY <1>6, <2>2, <2>3, <2>4
<1>7. CASE Interrupt
  BY <1>7, BoundsAssumption DEF Interrupt
<1>8. CASE UNCHANGED vars
  BY <1>8 DEF vars
<1> QED
  BY <1>1, <1>2, <1>3, <1>4, <1>5, <1>6, <1>7, <1>8 DEF Next, Session

\* A step keeps track of who answers for the process.
LEMMA HoldingStep == Inv /\ [Next]_vars => Held' /\ Released'
<1> SUFFICES ASSUME Inv, [Next]_vars PROVE Held' /\ Released'
  OBVIOUS
<1> USE DEF Inv, TypeOK, Held, Released, Terminating, Interrupted, Alive
<1>1. CASE Listen \/ Exit \/ Deadline
  BY <1>1 DEF Listen, Exit, Deadline
<1>2. CASE Launch
  BY <1>2 DEF Launch, Raise
<1>3. CASE Poll \/ Decide \/ Sleep
  BY <1>3 DEF Poll, Decide, Sleep, Raise
<1>4. CASE Connect
  BY <1>4 DEF Connect, Raise
<1>5. CASE LeaveBlock \/ CloseTransport
  BY <1>5 DEF LeaveBlock, CloseTransport
<1>6. CASE Cleanup
  \* The one step that lets go: it goes on to terminate what still runs.
  BY <1>6 DEF Cleanup, Over
<1>7. CASE Terminate \/ Wait \/ Kill
  BY <1>7 DEF Terminate, Wait, Kill, Over
<1>8. CASE Interrupt
  BY <1>8 DEF Interrupt, Ending, Ends
<1>9. CASE UNCHANGED vars
  BY <1>9 DEF vars
<1> QED
  BY <1>1, <1>2, <1>3, <1>4, <1>5, <1>6, <1>7, <1>8, <1>9 DEF Next, Session

\* The inductive invariant holds of every behaviour.
THEOREM Holding == Spec => []Inv
<1>1. Init => Inv
  <2> SUFFICES ASSUME Init PROVE Inv
    OBVIOUS
  <2>1. stubborn \in BOOLEAN
    <3>1. Stubborn \in BOOLEAN
      BY BoundsAssumption
    <3>2. stubborn = FALSE \/ stubborn = Stubborn
      BY DEF Init
    <3> QED
      BY <3>1, <3>2
  <2>2. other \in {"none", "debugger", "stranger"}
    BY DEF Init
  <2>3. pc \in {"launch", "connect"}
    BY DEF Init
  <2>4. TypeOK
    <3>1. interrupts \in 0 .. MaxInterrupts
      BY BoundsAssumption DEF Init
    <3> QED
      BY <2>1, <2>2, <2>3, <3>1 DEF Init, TypeOK, Setup, Ending, Ends
  <2>5. Held /\ Released
    BY <2>3 DEF Init, Held, Released, Alive, Terminating
  <2> QED
    BY <2>4, <2>5 DEF Inv
<1>2. Inv /\ [Next]_vars => Inv'
  BY TypeStep, HoldingStep DEF Inv
<1> QED
  BY <1>1, <1>2, PTL DEF Spec

\* Every state of a session is of its type (session.py, RuntimeSession).
THEOREM LaunchTypeCorrect == Spec => []TypeOK
<1>1. Inv => TypeOK
  BY DEF Inv
<1> QED
  BY <1>1, Holding, PTL

\* A session that ended by itself has left no process behind, however the
\* emulator behaves and whatever else listens on the port (session.py,
\* _cleanup_process and _terminate_process).
THEOREM NothingLeftBehind == Spec => []NoProcessLeft
<1>1. Inv => NoProcessLeft
  BY DEF Inv, Held, Released, NoProcessLeft, Terminating, Interrupted
<1> QED
  BY <1>1, Holding, PTL

-----------------------------------------------------------------------------
(* Why a session comes to an end.  The steps that can still be ahead of it *)
(* are counted; the one way back, from Sleep to Poll, is not taken once    *)
(* the deadline has passed.                                                *)

StepsLeft ==
    CASE pc = "launch" -> 12 [] pc = "sleep" -> 11 [] pc = "poll" -> 10
      [] pc = "connect" -> 9 [] pc = "decide" -> 8 [] pc = "open" -> 7
      [] pc = "close" -> 6 [] pc = "cleanup" -> 5 [] pc = "terminate" -> 4
      [] pc = "wait" -> 3 [] pc = "kill" -> 2 [] OTHER -> 0

GoesOn == StepsLeft' < StepsLeft

\* A session takes one step less with each step, but for the constructor's
\* retries before the deadline.
LEMMA SessionGoesOn == TypeOK /\ Session => GoesOn \/ (pc = "decide" /\ ~late)
<1> SUFFICES ASSUME TypeOK, Session PROVE GoesOn \/ (pc = "decide" /\ ~late)
  OBVIOUS
<1>1. CASE Launch \/ Poll
  BY <1>1 DEF Launch, Poll, Raise, GoesOn, StepsLeft
<1>2. CASE Connect
  BY <1>2 DEF Connect, Raise, GoesOn, StepsLeft
<1>3. CASE Decide \/ Sleep
  BY <1>3 DEF Decide, Sleep, Raise, GoesOn, StepsLeft
<1>4. CASE CloseTransport \/ Cleanup
  BY <1>4 DEF CloseTransport, Cleanup, Over, GoesOn, StepsLeft
<1>5. CASE Terminate \/ Wait \/ Kill
  BY <1>5 DEF Terminate, Wait, Kill, Over, GoesOn, StepsLeft
<1> QED
  BY <1>1, <1>2, <1>3, <1>4, <1>5 DEF Session

\* Whoever opened the session can only bring it nearer to its end.
LEMMA CallerGoesOn == TypeOK /\ (LeaveBlock \/ Interrupt) => GoesOn
<1>1. ASSUME LeaveBlock PROVE GoesOn
  BY <1>1 DEF LeaveBlock, GoesOn, StepsLeft
<1>2. ASSUME TypeOK, Interrupt PROVE GoesOn
  <2>1. IF pc = "open" THEN pc' = "close" ELSE pc' \in {"cut", "abandoned"}
    BY <1>2 DEF Interrupt, Ending
  <2>2. pc \notin Ends
    BY <1>2 DEF Interrupt
  <2> QED
    BY <1>2, <2>1, <2>2 DEF TypeOK, Setup, Ending, Ends, GoesOn, StepsLeft
<1> QED
  BY <1>1, <1>2

\* Neither the emulator nor the clock sets the session back.
LEMMA OthersKeepPlace == Listen \/ Exit \/ Deadline => StepsLeft' = StepsLeft
  BY DEF Listen, Exit, Deadline, StepsLeft

\* Retrying and closing come to an end: a session has a number of steps left,
\* each of its steps is one less, and only a constructor that retries before
\* its deadline starts anew; a deadline that has passed stays passed
\* (session.py, _connect_with_retry, close and _terminate_process).
THEOREM SessionCountsDown ==
    Spec => /\ [](StepsLeft \in 0 .. 12)
            /\ [][/\ late => late'
                  /\ Session /\ (late \/ pc # "decide") => StepsLeft' < StepsLeft
                  /\ LeaveBlock \/ Interrupt => StepsLeft' < StepsLeft
                  /\ Listen \/ Exit \/ Deadline => StepsLeft' = StepsLeft]_vars
<1>1. TypeOK => StepsLeft \in 0 .. 12
  BY DEF TypeOK, Setup, Ending, Ends, StepsLeft
<1>2. [Next]_vars => (late => late')
  BY DEF Next, vars, Listen, Exit, Deadline, Session, Launch, Poll, Connect, Decide, Sleep,
         LeaveBlock, CloseTransport, Cleanup, Terminate, Wait, Kill, Interrupt
<1>3. TypeOK /\ [Next]_vars =>
        /\ late => late'
        /\ Session /\ (late \/ pc # "decide") => StepsLeft' < StepsLeft
        /\ LeaveBlock \/ Interrupt => StepsLeft' < StepsLeft
        /\ Listen \/ Exit \/ Deadline => StepsLeft' = StepsLeft
  BY <1>2, SessionGoesOn, CallerGoesOn, OthersKeepPlace DEF GoesOn
<1> QED
  BY <1>1, <1>3, LaunchTypeCorrect, PTL DEF Spec
=============================================================================
