--------------------------- MODULE DebuggerSession ---------------------------
(***************************************************************************)
(* One runtime debugging session: RuntimeSession (runtime/session.py) over *)
(* PpssppDebuggerTransport (runtime/transport.py), connected to an         *)
(* emulator that runs by itself.  The client is sequential; what makes it  *)
(* hard is that the emulator answers late, stops on its own account, and   *)
(* that every wait of the client may time out, lose the connection, or be  *)
(* interrupted with a request still on its way.                            *)
(***************************************************************************)
EXTENDS Naturals, Sequences

CONSTANTS
    Addrs,          \* breakpoint addresses the caller asks for
    NoAddr,         \* "no address": the CPU runs, or the message carries none
    Captures,       \* requests that capture state per observation
    MaxQueued,      \* max_queued_events, the maxlen of an event deque
    MaxCalls,       \* bound: calls of observe_breakpoint and try_request
    MaxStops,       \* bound: how often the CPU stops at a breakpoint
    MaxInterrupts,  \* bound: KeyboardInterrupts
    LinkLoss,       \* the connection may break
    TornFrames,     \* a receive may give up inside a frame
    MaxPings        \* bound: WebSocket pings the emulator sends

ASSUME AddrsAssumption == NoAddr \notin Addrs
ASSUME BoundsAssumption ==
    /\ Captures \in Nat
    /\ MaxQueued \in Nat \ {0}
    /\ {MaxCalls, MaxStops, MaxInterrupts, MaxPings} \subseteq Nat
    /\ {LinkLoss, TornFrames} \subseteq BOOLEAN

VARIABLES
    \* the emulator, external to the source
    breakpoints,   \* execution breakpoints it holds
    stoppedAt,     \* the breakpoint the CPU is stopped at, or NoAddr
    stops,         \* how many times it has stopped: the identity of a stop
    pings,         \* how many pings it has sent
    \* the connection
    toEmu, toClient, link, stream,
    \* the transport object
    ticket, pending, events,
    \* the session object and the call in progress
    tracked, pc, call, serial,
    \* history
    lostAdds,      \* addresses whose add request was given up unanswered
    denied,        \* breakpoints whose removal the emulator refused, and NoAddr if it
                   \* refused to resume the stopped CPU
    interrupts     \* KeyboardInterrupts so far

emuVars  == <<breakpoints, stoppedAt, stops, pings>>
callVars == <<call, serial>>
vars == <<breakpoints, stoppedAt, stops, pings, toEmu, toClient, link, stream, ticket,
          pending, events, tracked, pc, call, serial, lostAdds, denied,
          interrupts>>

-----------------------------------------------------------------------------
(* Messages.  A reply repeats the ticket of its request; an event has none. *)

NoTicket == 0
Kinds == {"add", "remove", "resume", "capture", "probe"}

Request == [kind: Kinds, ticket: Nat, at: Addrs \cup {NoAddr}, serial: Nat]

\* at, stop: of an event and of a capture, the breakpoint and the stop the CPU was
\* at, NoAddr and 0 when it ran; no other message says.
Message == [kind: Kinds \cup {"stepping", "error", "ping", "none"}, ticket: Nat,
            at: Addrs \cup {NoAddr}, stop: Nat, serial: Nat]

Event(kind, at, stop) ==
    [kind |-> kind, ticket |-> NoTicket, at |-> at, stop |-> stop, serial |-> 0]

CurrentStop == IF stoppedAt = NoAddr THEN 0 ELSE stops

Reply(r, kind) ==
    [kind |-> kind, ticket |-> r.ticket,
     at |-> IF kind = "capture" THEN stoppedAt ELSE NoAddr,
     stop |-> IF kind = "capture" THEN CurrentStop ELSE 0, serial |-> r.serial]

\* Neither side learns from a send that the other is gone.
Put(queue, m) == IF link = "up" THEN Append(queue, m) ELSE queue

Answer == [asked: Kinds, got: Kinds, at: Addrs \cup {NoAddr}, stop: Nat, serial: Nat]

\* The local variables of observe_breakpoint.  fresh is history: when the
\* client took the stop event, the CPU was still at that stop and no resume
\* was on its way.
Call == [at: Addrs \cup {NoAddr}, installed: BOOLEAN, hit: Message, fresh: BOOLEAN,
         captured: Nat, answers: SUBSET Answer,
         observed: BOOLEAN, interrupted: BOOLEAN]

NoHit == Event("none", NoAddr, 0)

NewCall(a) ==
    [at |-> a, installed |-> FALSE, hit |-> NoHit, fresh |-> FALSE, captured |-> 0,
     answers |-> {}, observed |-> FALSE, interrupted |-> FALSE]

\* Where the client waits for the emulator; "exit" is close() between two requests.
AwaitsReply == {"add", "capture", "remove", "probe", "closing"}
Waiting == AwaitsReply \cup {"wait"}
Busy == Waiting \cup {"exit"}
Over == {"closed", "abandoned"}

TypeOK ==
    /\ breakpoints \subseteq Addrs
    /\ stoppedAt \in Addrs \cup {NoAddr}
    /\ stops \in Nat /\ pings \in Nat
    /\ toEmu \in Seq(Request)
    /\ toClient \in Seq(Message)
    /\ link \in {"up", "down", "closed"}
    /\ stream \in {"aligned", "torn"}
    /\ ticket \in Nat \ {NoTicket}
    /\ pending \in Nat
    /\ events \in Seq(Message) /\ Len(events) <= MaxQueued
    /\ tracked \subseteq Addrs
    /\ pc \in {"idle"} \cup Busy \cup Over
    /\ call \in Call
    /\ serial \in Nat
    /\ lostAdds \subseteq Addrs
    /\ denied \subseteq Addrs \cup {NoAddr}
    /\ interrupts \in Nat

Init ==
    /\ breakpoints = {} /\ stoppedAt = NoAddr /\ stops = 0 /\ pings = 0
    /\ toEmu = <<>> /\ toClient = <<>> /\ link = "up" /\ stream = "aligned"
    /\ ticket = 1 /\ pending = NoTicket /\ events = <<>>
    /\ tracked = {} /\ pc = "idle" /\ call = NewCall(NoAddr) /\ serial = 0
    /\ lostAdds = {} /\ denied = {} /\ interrupts = 0

-----------------------------------------------------------------------------
(* The emulator: serves requests in order, stops when it meets a breakpoint *)

Serve ==
    /\ toEmu # <<>>
    /\ toEmu' = Tail(toEmu)
    /\ LET r == Head(toEmu) IN
       \/ /\ r.kind = "add"
          /\ breakpoints' = breakpoints \cup {r.at}
          /\ toClient' = Put(toClient, Reply(r, "add"))
          /\ UNCHANGED stoppedAt
       \/ /\ r.kind = "remove"
          /\ breakpoints' = breakpoints \ {r.at}
          /\ toClient' = Put(toClient, Reply(r, "remove"))
          /\ UNCHANGED stoppedAt
       \/ /\ r.kind = "resume"
          /\ stoppedAt' = NoAddr
          /\ UNCHANGED <<breakpoints, toClient>>
       \/ /\ r.kind \in {"capture", "probe"}
          /\ toClient' = Put(toClient, Reply(r, r.kind))
          /\ UNCHANGED <<breakpoints, stoppedAt>>
    /\ UNCHANGED <<stops, pings, link, stream, ticket, pending, events, tracked, pc,
                   callVars, lostAdds, denied, interrupts>>

\* What a request that is refused would have done and leaves undone.
Undone(r) ==
    (IF r.kind = "remove" THEN {r.at} \cap breakpoints ELSE {})
    \cup (IF r.kind = "resume" /\ stoppedAt # NoAddr THEN {NoAddr} ELSE {})

\* An "error" reply, which any request may get: it had no effect.
Refuse ==
    /\ toEmu # <<>>
    /\ toEmu' = Tail(toEmu)
    /\ LET r == Head(toEmu) IN
       /\ toClient' = IF r.kind = "resume" THEN toClient ELSE Put(toClient, Reply(r, "error"))
       /\ denied' = denied \cup Undone(r)
    /\ UNCHANGED <<emuVars, link, stream, ticket, pending, events, tracked, pc,
                   callVars, lostAdds, interrupts>>

Hit ==
    /\ stoppedAt = NoAddr /\ stops < MaxStops /\ link # "down"
    /\ \E a \in breakpoints :
         /\ stoppedAt' = a
         /\ toClient' = Put(toClient, Event("stepping", a, stops + 1))
    /\ stops' = stops + 1
    /\ UNCHANGED <<breakpoints, pings, toEmu, link, stream, ticket, pending, events,
                   tracked, pc, callVars, lostAdds, denied, interrupts>>

\* At most one ping on its way, and only while the client listens.
SendPing ==
    /\ pings < MaxPings /\ pings' = pings + 1
    /\ link = "up" /\ pc \in Waiting /\ toClient = <<>>
    /\ toClient' = <<Event("ping", NoAddr, 0)>>
    /\ UNCHANGED <<breakpoints, stoppedAt, stops, toEmu, link, stream, ticket, pending,
                   events, tracked, pc, callVars, lostAdds, denied, interrupts>>

\* What was on its way to the client may be cut off anywhere.  What the emulator
\* still does beyond a link that is down reaches nobody, and is left out.
LoseLink ==
    /\ LinkLoss /\ link = "up"
    /\ link' = "down"
    /\ toEmu' = <<>>
    /\ \E n \in 0 .. Len(toClient) : toClient' = SubSeq(toClient, 1, n)
    /\ UNCHANGED <<emuVars, stream, ticket, pending, events, tracked, pc, callVars,
                   lostAdds, denied, interrupts>>

-----------------------------------------------------------------------------
(* The transport: sending, and the receive loop every wait runs *)

Req(kind, n, a) == [kind |-> kind, ticket |-> n, at |-> a, serial |-> serial]

\* request(): a new ticket, and the reply that bears it is awaited.
Ask(kind, a) ==
    /\ toEmu' = Put(toEmu, Req(kind, ticket, a))
    /\ ticket' = ticket + 1
    /\ pending' = ticket

\* send() alone: nothing is awaited.
Resume ==
    /\ toEmu' = Put(toEmu, Req("resume", ticket, NoAddr))
    /\ ticket' = ticket + 1
    /\ pending' = NoTicket

\* Mutant of Keep: a queue without a limit.
KeepAll(queue, m) == Append(queue, m)

Keep(queue, m) ==
    IF Len(queue) < MaxQueued THEN Append(queue, m) ELSE Append(Tail(queue), m)

\* Mutant of Mine: any reply is taken for the answer.
MineIfReply(m) == m.ticket # NoTicket

Mine(m) == m.ticket = pending

\* The next frame, when the client is at a frame boundary.  wait_for_event
\* looks into its queue before it receives.
Frame == Head(toClient)

Listens == pc \in Waiting /\ (pc = "wait" => events = <<>>)

Receives ==
    /\ Listens /\ stream = "aligned" /\ toClient # <<>>
    /\ toClient' = Tail(toClient)
    /\ UNCHANGED stream

\* Frames the loop passes over: pings are answered below the JSON layer,
\* events are queued, replies that nobody waits for any more are dropped.
PassOver ==
    /\ Receives
    /\ \/ /\ Frame.kind = "ping"
          /\ UNCHANGED events
       \/ /\ Frame.kind = "stepping" /\ pc \in AwaitsReply
          /\ events' = Keep(events, Frame)
       \/ /\ Frame.ticket # NoTicket
          /\ pc = "wait" \/ ~Mine(Frame)
          /\ UNCHANGED events
    /\ UNCHANGED <<emuVars, toEmu, link, ticket, pending, tracked, pc, callVars,
                   lostAdds, denied, interrupts>>

\* Off the frame boundary, bytes of a payload are read as a header: a frame of
\* an opcode that is ignored, which may or may not end at a boundary.
Misread ==
    /\ Listens
    /\ stream = "torn" /\ toClient # <<>>
    /\ toClient' = Tail(toClient)
    /\ stream' \in {"torn", "aligned"}
    /\ UNCHANGED <<emuVars, toEmu, link, ticket, pending, events, tracked, pc,
                   callVars, lostAdds, denied, interrupts>>

\* The reply the call waits for has come.
Answered == Receives /\ pc \in AwaitsReply /\ Mine(Frame) /\ Frame.kind # "error"

Noted == [call EXCEPT !.answers = @ \cup
              {[asked |-> pc, got |-> Frame.kind, at |-> Frame.at, stop |-> Frame.stop,
                serial |-> Frame.serial]}]

Refused == Receives /\ pc \in AwaitsReply /\ Mine(Frame) /\ Frame.kind = "error"

\* Mutant of Unanswered: a socket without a timeout, so that silence never ends.
UnansweredUntimed ==
    /\ Listens
    /\ \/ /\ TornFrames /\ stream = "aligned" /\ toClient # <<>>
          /\ stream' = "torn"
          /\ UNCHANGED toClient
       \/ /\ stream = "torn" /\ toClient # <<>>
          /\ toClient' = Tail(toClient)
          /\ UNCHANGED stream

\* The wait ends without an answer: the timer of an idle socket runs out or
\* the peer is gone; the timer runs out inside a frame, whose bytes read so
\* far are lost; or bytes off the boundary make no frame at all.
Unanswered ==
    /\ Listens
    /\ \/ toClient = <<>> /\ UNCHANGED <<toClient, stream>>
       \/ /\ TornFrames /\ stream = "aligned" /\ toClient # <<>>
          /\ stream' = "torn"
          /\ UNCHANGED toClient
       \/ /\ stream = "torn" /\ toClient # <<>>
          /\ toClient' = Tail(toClient)
          /\ UNCHANGED stream

Fails == Refused \/ Unanswered

-----------------------------------------------------------------------------
(* observe_breakpoint *)

Observe(a) ==
    /\ pc = "idle" /\ serial < MaxCalls
    /\ serial' = serial + 1
    /\ toEmu' = Put(toEmu, [Req("add", ticket, a) EXCEPT !.serial = serial + 1])
    /\ ticket' = ticket + 1 /\ pending' = ticket
    /\ call' = NewCall(a)
    /\ pc' = "add"
    /\ UNCHANGED <<emuVars, toClient, link, stream, events, tracked, lostAdds,
                   denied, interrupts>>

Installed ==
    /\ pc = "add"
    /\ Answered
    /\ call' = [Noted EXCEPT !.installed = TRUE]
    /\ tracked' = tracked \cup {call.at}
    /\ Resume
    /\ pc' = "wait"
    /\ UNCHANGED <<emuVars, link, events, serial, lostAdds, denied, interrupts>>

\* Not installed as far as the client knows: the finally clause does nothing.
InstallFails ==
    /\ pc = "add"
    /\ \/ Refused /\ UNCHANGED lostAdds
       \/ Unanswered /\ lostAdds' = lostAdds \cup {call.at}
    /\ pc' = "idle"
    /\ UNCHANGED <<emuVars, toEmu, link, ticket, pending, events, tracked, callVars,
                   denied, interrupts>>

\* With what is captured so far in c: the next capture request, or else the
\* finally clause with an observation to return.
CaptureOrFinish(c) ==
    IF c.captured < Captures
    THEN Ask("capture", NoAddr) /\ pc' = "capture" /\ call' = c
    ELSE Ask("remove", c.at) /\ pc' = "remove" /\ call' = [c EXCEPT !.observed = TRUE]

IsFresh(m) ==
    /\ CurrentStop = m.stop
    /\ \A i \in 1 .. Len(toEmu) : toEmu[i].kind # "resume"

\* Mutant of TakeStop: the CPU is resumed before the state is captured.
TakeStopResuming(m) ==
    /\ toEmu' = Put(Put(toEmu, Req("resume", ticket, NoAddr)),
                    Req("capture", ticket + 1, NoAddr))
    /\ ticket' = ticket + 2 /\ pending' = ticket + 1
    /\ pc' = "capture" /\ call' = [call EXCEPT !.hit = m, !.fresh = IsFresh(m)]

TakeStop(m) == CaptureOrFinish([call EXCEPT !.hit = m, !.fresh = IsFresh(m)])

\* wait_for_event returns: a stop event queued earlier, or else one received.
Stopped ==
    /\ pc = "wait"
    /\ \/ /\ events # <<>> /\ TakeStop(Head(events))
          /\ events' = Tail(events)
          /\ UNCHANGED <<toClient, stream>>
       \/ /\ Receives /\ Frame.kind = "stepping" /\ TakeStop(Frame)
          /\ UNCHANGED events
    /\ UNCHANGED <<emuVars, link, tracked, serial, lostAdds, denied, interrupts>>

Captured ==
    /\ pc = "capture"
    /\ Answered
    /\ CaptureOrFinish([Noted EXCEPT !.captured = @ + 1])
    /\ UNCHANGED <<emuVars, link, events, tracked, serial, lostAdds, denied,
                   interrupts>>

\* Mutant of ObserveFails: the breakpoint is taken back only on success.
ObserveFailsKeeping ==
    /\ pc \in {"wait", "capture"}
    /\ Fails
    /\ tracked' = tracked \ {call.at}
    /\ pc' = "idle"
    /\ UNCHANGED <<emuVars, toEmu, link, ticket, pending, events, callVars, lostAdds,
                   denied, interrupts>>

\* An exception after the breakpoint is in: on to the finally clause.
ObserveFails ==
    /\ pc \in {"wait", "capture"}
    /\ Fails
    /\ Ask("remove", call.at)
    /\ pc' = "remove"
    /\ UNCHANGED <<emuVars, link, events, tracked, callVars, lostAdds, denied,
                   interrupts>>

\* Mutant of Removed: the breakpoint is forgotten only if its removal is confirmed.
RemovedIfConfirmed ==
    /\ pc = "remove"
    /\ \/ Answered /\ call' = Noted /\ tracked' = tracked \ {call.at}
       \/ Fails /\ UNCHANGED <<call, tracked>>
    /\ Resume
    /\ pc' = IF call.interrupted THEN "exit" ELSE "idle"
    /\ UNCHANGED <<emuVars, link, events, serial, lostAdds, denied, interrupts>>

\* Mutant of Removed: the CPU is not resumed.
RemovedHalted ==
    /\ pc = "remove"
    /\ \/ Answered /\ call' = Noted
       \/ Fails /\ UNCHANGED call
    /\ tracked' = tracked \ {call.at}
    /\ pc' = IF call.interrupted THEN "exit" ELSE "idle"
    /\ UNCHANGED <<emuVars, toEmu, link, ticket, pending, events, serial, lostAdds,
                   denied, interrupts>>

\* The finally clause ends the same way whether or not the removal was
\* confirmed; then the call returns, or goes on raising.
Removed ==
    /\ pc = "remove"
    /\ \/ Answered /\ call' = Noted
       \/ Fails /\ UNCHANGED call
    /\ tracked' = tracked \ {call.at}
    /\ Resume
    /\ pc' = IF call.interrupted THEN "exit" ELSE "idle"
    /\ UNCHANGED <<emuVars, link, events, serial, lostAdds, denied, interrupts>>

-----------------------------------------------------------------------------
(* try_request, through the transport property: every failure gives None *)

Probe ==
    /\ pc = "idle" /\ serial < MaxCalls
    /\ serial' = serial + 1
    /\ toEmu' = Put(toEmu, [Req("probe", ticket, NoAddr) EXCEPT !.serial = serial + 1])
    /\ ticket' = ticket + 1 /\ pending' = ticket
    /\ call' = NewCall(NoAddr)
    /\ pc' = "probe"
    /\ UNCHANGED <<emuVars, toClient, link, stream, events, tracked, lostAdds,
                   denied, interrupts>>

Probed ==
    /\ pc = "probe"
    /\ \/ Answered /\ call' = Noted
       \/ Fails /\ UNCHANGED call
    /\ pc' = "idle"
    /\ UNCHANGED <<emuVars, toEmu, link, ticket, pending, events, tracked, serial,
                   lostAdds, denied, interrupts>>

-----------------------------------------------------------------------------
(* close(), at the end of the with block or of an exception *)

LeaveBlock ==
    /\ pc = "idle"
    /\ pc' = "exit"
    /\ UNCHANGED <<emuVars, toEmu, toClient, link, stream, ticket, pending, events,
                   tracked, callVars, lostAdds, denied, interrupts>>

CloseBreakpoint ==
    /\ pc = "exit"
    /\ \E a \in tracked : Ask("remove", a) /\ call' = [call EXCEPT !.at = a]
    /\ pc' = "closing"
    /\ UNCHANGED <<emuVars, toClient, link, stream, events, tracked, serial,
                   lostAdds, denied, interrupts>>

BreakpointClosed ==
    /\ pc = "closing"
    /\ Answered \/ Fails
    /\ tracked' = tracked \ {call.at}
    /\ pc' = "exit"
    /\ UNCHANGED <<emuVars, toEmu, link, ticket, pending, events, callVars, lostAdds,
                   denied, interrupts>>

Hangup == link' = (IF link = "up" THEN "closed" ELSE link) /\ toClient' = <<>>

CloseTransport ==
    /\ pc = "exit" /\ tracked = {}
    /\ pc' = "closed" /\ Hangup
    /\ UNCHANGED <<emuVars, toEmu, stream, ticket, pending, events, tracked, callVars,
                   lostAdds, denied, interrupts>>

-----------------------------------------------------------------------------
(* KeyboardInterrupt, which suppress(Exception) lets through *)

Cut == stream' \in {stream} \cup IF TornFrames /\ toClient # <<>> THEN {"torn"} ELSE {}

Interrupt ==
    /\ interrupts < MaxInterrupts
    /\ interrupts' = interrupts + 1
    /\ \/ /\ pc \in {"wait", "capture"}
          /\ Ask("remove", call.at) /\ Cut
          /\ pc' = "remove" /\ call' = [call EXCEPT !.interrupted = TRUE]
          /\ UNCHANGED <<toClient, link, lostAdds>>
       \/ /\ pc \in {"idle", "add", "probe", "remove"} /\ Cut
          /\ pc' = "exit"
          /\ lostAdds' = IF pc = "add" THEN lostAdds \cup {call.at} ELSE lostAdds
          /\ UNCHANGED <<toEmu, ticket, pending, call, toClient, link>>
       \/ /\ pc \in {"exit", "closing"}
          /\ pc' = "abandoned" /\ Hangup
          /\ UNCHANGED <<toEmu, ticket, pending, call, stream, lostAdds>>
    /\ UNCHANGED <<emuVars, events, tracked, serial, denied>>

-----------------------------------------------------------------------------

Emulator == Serve \/ Refuse \/ Hit \/ SendPing

\* What the client does once it has been called.
Client ==
    \/ PassOver \/ Misread
    \/ Installed \/ InstallFails \/ Stopped \/ Captured \/ ObserveFails \/ Removed
    \/ Probed
    \/ CloseBreakpoint \/ BreakpointClosed \/ CloseTransport

Caller == (\E a \in Addrs : Observe(a)) \/ Probe \/ LeaveBlock \/ Interrupt

Next == Emulator \/ Client \/ Caller \/ LoseLink

Spec == Init /\ [][Next]_vars

\* A call runs until it returns: the client's steps wait for nobody but the
\* socket, whose timer ends every receive that nothing answers.
FairSpec == Spec /\ WF_vars(Client)

-----------------------------------------------------------------------------
(* Properties *)

\* A call takes as its answer only the reply to the very request it waits for:
\* replies to earlier calls, late because those timed out, are never mistaken
\* for it (transport.py, request: the comparison of the tickets).
AnswersBelongToTheCall ==
    \A r \in call.answers : r.serial = serial /\ r.got = r.asked

\* The session is over, the connection has held as long as it lasted, and the
\* emulator has served all that was sent to it.
Settled == pc = "closed" /\ link = "closed" /\ toEmu = <<>>

\* Once the session is closed and its requests are served, the emulator holds
\* no breakpoint of the session's but those whose add was given up unanswered
\* and those it refused to remove, whatever else timed out, was refused or
\* interrupted in between.  The session suppresses the error of a refused
\* removal and forgets the address, so nothing asks again (session.py, the
\* finally clause of observe_breakpoint, and close).
OnlyLostAddsLeak ==
    Settled => breakpoints \subseteq lostAdds \cup denied

\* ... and without such an add, a refused removal or resume, or an interrupt,
\* the CPU is left running (session.py, the resume that ends observe_breakpoint).
CpuLeftRunning ==
    Settled /\ lostAdds = {} /\ denied = {} /\ interrupts = 0 => stoppedAt = NoAddr

\* What an observation has captured by any moment was read at the stop it
\* reports, when the CPU was at that stop as the client took the event
\* (session.py, observe_breakpoint: nothing resumes the CPU before the end).
CapturesSeeOneStop ==
    call.fresh => \A r \in call.answers : r.asked = "capture" => r.stop = call.hit.stop

\* Between calls the session remembers no breakpoint: each observation has
\* taken its own back, so close has nothing to do unless a removal was
\* interrupted (session.py, _installed_breakpoints).
NothingTrackedBetweenCalls == pc = "idle" => tracked = {}

\* Every call returns or raises, and a session that leaves its block ends
\* (transport.py, the deadlines of request and wait_for_event).  A ping restarts
\* the socket's timer, so this takes a peer that does not ping for ever.
CallsEnd == pc \in Busy ~> pc \in {"idle"} \cup Over

\* Stated by session.py, class RuntimeSession: closing the session always
\* removes every breakpoint this session installed.
CloseRemovesBreakpoints == Settled => breakpoints = {}

\* Asserted by test_runtime_session.py: an observation whose hit is at its
\* breakpoint, so that it carries no warning, was captured there.
CapturedAtTheBreakpoint ==
    pc = "idle" /\ call.observed /\ call.hit.at = call.at =>
        \A r \in call.answers : r.asked = "capture" => r.at = call.at
=============================================================================
