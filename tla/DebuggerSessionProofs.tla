------------------------ MODULE DebuggerSessionProofs ------------------------
(***************************************************************************)
(* Proofs about a debugging session: its types, that answers belong to the *)
(* call that takes them, that a capture is of the stop it reports, what a  *)
(* closed session leaves in the emulator and of the CPU, and that a call   *)
(* can only come nearer to its end.                                        *)
(***************************************************************************)
EXTENDS DebuggerSession, TLAPS

-----------------------------------------------------------------------------
(* Queues, as the sets of what is in them *)

In(q) == {q[i] : i \in 1 .. Len(q)}

LEMMA InAppend ==
    ASSUME NEW S, NEW q \in Seq(S), NEW m \in S
    PROVE  In(Append(q, m)) = In(q) \cup {m} /\ Append(q, m) \in Seq(S)
  <1>1. Append(q, m) \in Seq(S) /\ Len(Append(q, m)) = Len(q) + 1
    OBVIOUS
  <1>2. \A i \in 1 .. Len(q) : Append(q, m)[i] = q[i]
    OBVIOUS
  <1>3. Append(q, m)[Len(q) + 1] = m
    OBVIOUS
  <1>4. 1 .. Len(q) + 1 = (1 .. Len(q)) \cup {Len(q) + 1}
    OBVIOUS
  <1>5. QED
    BY <1>1, <1>2, <1>3, <1>4 DEF In

LEMMA InTail ==
    ASSUME NEW S, NEW q \in Seq(S), q # <<>>
    PROVE  /\ In(Tail(q)) \subseteq In(q) /\ Tail(q) \in Seq(S)
           /\ Head(q) \in In(q) /\ Head(q) \in S
  <1>1. \A i \in 1 .. Len(Tail(q)) : i + 1 \in 1 .. Len(q) /\ Tail(q)[i] = q[i + 1]
    OBVIOUS
  <1>2. 1 \in 1 .. Len(q) /\ Head(q) = q[1]
    OBVIOUS
  <1>3. Tail(q) \in Seq(S) /\ Head(q) \in S
    OBVIOUS
  <1>4. QED
    BY <1>1, <1>2, <1>3 DEF In

LEMMA InPrefix ==
    ASSUME NEW S, NEW q \in Seq(S), NEW n \in 0 .. Len(q)
    PROVE  In(SubSeq(q, 1, n)) \subseteq In(q) /\ SubSeq(q, 1, n) \in Seq(S)
  <1>1. /\ SubSeq(q, 1, n) \in Seq(S) /\ Len(SubSeq(q, 1, n)) = n
        /\ \A i \in 1 .. n : SubSeq(q, 1, n)[i] = q[i] /\ i \in 1 .. Len(q)
    OBVIOUS
  <1>2. QED
    BY <1>1 DEF In

LEMMA InTyped ==
    ASSUME NEW S, NEW q \in Seq(S)
    PROVE  In(q) \subseteq S
  BY DEF In

LEMMA InEmpty == In(<<>>) = {}
  BY DEF In

LEMMA InPut ==
    ASSUME NEW S, NEW q \in Seq(S), NEW m \in S
    PROVE  Put(q, m) \in Seq(S) /\ In(Put(q, m)) \subseteq In(q) \cup {m}
  BY InAppend DEF Put

LEMMA InKeep ==
    ASSUME NEW q \in Seq(Message), NEW m \in Message, Len(q) <= MaxQueued
    PROVE  /\ Keep(q, m) \in Seq(Message) /\ Len(Keep(q, m)) <= MaxQueued
           /\ In(Keep(q, m)) \subseteq In(q) \cup {m}
  <1>0. MaxQueued \in Nat \ {0}
    BY BoundsAssumption
  <1>1. CASE Len(q) < MaxQueued
    <2>1. Keep(q, m) = Append(q, m)
      BY <1>1 DEF Keep
    <2>2. Len(Append(q, m)) = Len(q) + 1 /\ Len(q) \in Nat
      OBVIOUS
    <2>3. QED
      BY <1>0, <1>1, <2>1, <2>2, InAppend
  <1>2. CASE ~(Len(q) < MaxQueued)
    <2>1. Keep(q, m) = Append(Tail(q), m)
      BY <1>2 DEF Keep
    <2>2. q # <<>> /\ Len(q) \in Nat
      BY <1>0, <1>2
    <2>3. Tail(q) \in Seq(Message) /\ Len(Tail(q)) = Len(q) - 1
      BY <2>2
    <2>4. Len(Append(Tail(q), m)) = Len(q)
      BY <2>2, <2>3
    <2>5. /\ In(Append(Tail(q), m)) = In(Tail(q)) \cup {m}
          /\ Append(Tail(q), m) \in Seq(Message)
      BY <2>3, InAppend
    <2>6. In(Tail(q)) \subseteq In(q)
      BY <2>2, InTail
    <2>7. QED
      BY <2>1, <2>4, <2>5, <2>6
  <1>3. QED
    BY <1>1, <1>2

-----------------------------------------------------------------------------
(* Tickets.  A request on its way, and the reply to one, bear an older ticket *)
(* than the next; if it is the one awaited, they are of the call's.           *)

Asking == AwaitsReply \ {"closing"}

RequestFits(r) ==
    /\ r.ticket \in 1 .. ticket - 1
    /\ r.kind = "add" => r.at \in Addrs
    /\ pc \in Asking /\ r.ticket = pending => r.kind = pc /\ r.serial = serial

MessageFits(m) ==
    /\ m.ticket \in 0 .. ticket - 1
    /\ m.ticket # NoTicket => m.kind \in Kinds \cup {"error"}
    /\ pc \in Asking /\ m.ticket = pending => m.kind \in {pc, "error"} /\ m.serial = serial

Tickets ==
    /\ \A r \in In(toEmu) : RequestFits(r)
    /\ \A m \in In(toClient) : MessageFits(m)
    /\ pc \in AwaitsReply => pending \in 1 .. ticket - 1
    /\ pc = "add" => call.at \in Addrs

TypeInv == TypeOK /\ Tickets

LEMMA ReqTyped ==
    ASSUME TypeOK, NEW kind \in Kinds, NEW n \in Nat, NEW a \in Addrs \cup {NoAddr}
    PROVE  Req(kind, n, a) \in Request
  BY DEF TypeOK, Req, Request

LEMMA EventTyped ==
    ASSUME NEW kind \in {"stepping", "ping", "none"}, NEW a \in Addrs \cup {NoAddr},
           NEW n \in Nat
    PROVE  Event(kind, a, n) \in Message
  BY DEF Event, Message, NoTicket

LEMMA ReplyTyped ==
    ASSUME TypeOK, NEW r \in Request, NEW kind \in Kinds \cup {"error"}
    PROVE  Reply(r, kind) \in Message
  <1>1. CurrentStop \in Nat
    BY DEF TypeOK, CurrentStop
  <1>2. QED
    BY <1>1 DEF TypeOK, Reply, Request, Message

LEMMA NewCallTyped ==
    ASSUME NEW a \in Addrs \cup {NoAddr}
    PROVE  NewCall(a) \in Call
  <1>1. NoHit \in Message
    BY EventTyped DEF NoHit
  <1>2. QED
    BY <1>1 DEF NewCall, Call

LEMMA AskTyped ==
    ASSUME TypeOK, NEW kind \in Kinds, NEW a \in Addrs \cup {NoAddr}, Ask(kind, a)
    PROVE  /\ Req(kind, ticket, a) \in Request
           /\ toEmu' \in Seq(Request) /\ In(toEmu') \subseteq In(toEmu) \cup {Req(kind, ticket, a)}
           /\ ticket' = ticket + 1 /\ ticket' \in Nat \ {NoTicket}
           /\ pending' = ticket /\ pending' \in Nat
  <1>1. ticket \in Nat \ {NoTicket} /\ toEmu \in Seq(Request)
    BY DEF TypeOK
  <1>2. Req(kind, ticket, a) \in Request
    BY <1>1, ReqTyped
  <1>3. QED
    BY <1>1, <1>2, InPut DEF Ask, NoTicket

LEMMA ResumeTyped ==
    ASSUME TypeOK, Resume
    PROVE  /\ Req("resume", ticket, NoAddr) \in Request
           /\ toEmu' \in Seq(Request)
           /\ In(toEmu') \subseteq In(toEmu) \cup {Req("resume", ticket, NoAddr)}
           /\ ticket' = ticket + 1 /\ ticket' \in Nat \ {NoTicket}
           /\ pending' = NoTicket /\ pending' \in Nat
  <1>1. ticket \in Nat \ {NoTicket} /\ toEmu \in Seq(Request)
    BY DEF TypeOK
  <1>2. Req("resume", ticket, NoAddr) \in Request
    BY <1>1, ReqTyped DEF Kinds
  <1>3. QED
    BY <1>1, <1>2, InPut DEF Resume, NoTicket

LEMMA ReceivesTyped ==
    ASSUME TypeOK, Receives
    PROVE  /\ Frame \in Message /\ Frame \in In(toClient)
           /\ toClient' \in Seq(Message) /\ In(toClient') \subseteq In(toClient)
           /\ stream' \in {"aligned", "torn"} /\ pc \in Waiting
  <1>1. toClient \in Seq(Message) /\ toClient # <<>>
    BY DEF TypeOK, Receives
  <1>2. /\ Frame \in Message /\ Frame \in In(toClient)
        /\ toClient' \in Seq(Message) /\ In(toClient') \subseteq In(toClient)
    BY <1>1, InTail DEF Receives, Frame
  <1>3. QED
    BY <1>2 DEF TypeOK, Receives, Listens

LEMMA FailsTyped ==
    ASSUME TypeOK, Refused \/ Unanswered
    PROVE  /\ toClient' \in Seq(Message) /\ In(toClient') \subseteq In(toClient)
           /\ stream' \in {"aligned", "torn"} /\ pc \in Waiting
  <1>1. CASE Refused
    BY <1>1, ReceivesTyped DEF Refused
  <1>2. CASE Unanswered
    <2>1. toClient \in Seq(Message) /\ pc \in Waiting /\ stream \in {"aligned", "torn"}
      BY <1>2 DEF TypeOK, Unanswered, Listens
    <2>2. CASE toClient = <<>> /\ UNCHANGED <<toClient, stream>>
      BY <2>1, <2>2
    <2>3. CASE stream' = "torn" /\ UNCHANGED toClient
      BY <2>1, <2>3
    <2>4. CASE toClient # <<>> /\ toClient' = Tail(toClient) /\ UNCHANGED stream
      BY <2>1, <2>4, InTail
    <2>5. QED
      BY <1>2, <2>2, <2>3, <2>4 DEF Unanswered
  <1>3. QED
    BY <1>1, <1>2

\* What is noted is an answer to the request the call has sent.
LEMMA NotedTyped ==
    ASSUME TypeInv, Answered, pc \in Asking
    PROVE  /\ Noted \in Call
           /\ \E a \in Answer :
                 /\ Noted = [call EXCEPT !.answers = call.answers \cup {a}]
                 /\ a.asked = pc /\ a.got = pc /\ a.serial = serial /\ a.stop = Frame.stop
  <1>1. Frame \in Message /\ Frame \in In(toClient) /\ Frame.ticket = pending
        /\ Frame.kind # "error"
    BY ReceivesTyped DEF TypeInv, Answered, Mine
  <1>2. Frame.kind = pc /\ Frame.serial = serial
    BY <1>1 DEF TypeInv, Tickets, MessageFits
  <1>3. pc \in Kinds
    BY DEF Asking, AwaitsReply, Kinds
  <1> DEFINE a == [asked |-> pc, got |-> Frame.kind, at |-> Frame.at, stop |-> Frame.stop,
                   serial |-> Frame.serial]
  <1>4. a \in Answer
    BY <1>1, <1>2, <1>3 DEF Answer, Message
  <1>5. Noted = [call EXCEPT !.answers = call.answers \cup {a}]
    BY DEF Noted
  <1>6. call \in Call
    BY DEF TypeInv, TypeOK
  <1>7. call.answers \cup {a} \in SUBSET Answer
    BY <1>4, <1>6 DEF Call
  <1>8. [call EXCEPT !.answers = call.answers \cup {a}] \in Call
    <2> DEFINE b == call.answers \cup {a}
    <2>1. b \in SUBSET Answer
      BY <1>7
    <2> HIDE DEF b
    <2>2. [call EXCEPT !.answers = b] \in Call
      BY <1>6, <2>1 DEF Call
    <2>3. QED
      BY <2>2 DEF b
  <1>9. a.asked = pc /\ a.got = pc /\ a.serial = serial /\ a.stop = Frame.stop
    BY <1>2
  <1> HIDE DEF a
  <1>10. QED
    BY <1>4, <1>5, <1>8, <1>9

LEMMA ChangedCall ==
    ASSUME NEW c \in Call, NEW m \in Message, NEW fresh \in BOOLEAN, NEW n \in Nat,
           NEW a \in Addrs \cup {NoAddr}
    PROVE  /\ [c EXCEPT !.hit = m, !.fresh = fresh] \in Call
           /\ [c EXCEPT !.captured = n] \in Call
           /\ [c EXCEPT !.observed = TRUE] \in Call
           /\ [c EXCEPT !.installed = TRUE] \in Call
           /\ [c EXCEPT !.interrupted = TRUE] \in Call
           /\ [c EXCEPT !.at = a] \in Call
  BY DEF Call

LEMMA ChangedSerial ==
    ASSUME NEW r \in Request, NEW n \in Nat
    PROVE  [r EXCEPT !.serial = n] \in Request
  BY DEF Request

LEMMA FinishTyped ==
    ASSUME TypeOK, NEW c \in Call, CaptureOrFinish(c)
    PROVE  /\ call' \in Call /\ toEmu' \in Seq(Request)
           /\ ticket' \in Nat \ {NoTicket} /\ pending' \in Nat
           /\ pc' \in {"capture", "remove"}
  <1>1. c.at \in Addrs \cup {NoAddr}
    BY DEF Call
  <1>2. CASE c.captured < Captures
    BY <1>2, AskTyped DEF CaptureOrFinish, Kinds
  <1>3. CASE ~(c.captured < Captures)
    <2>1. Ask("remove", c.at) /\ pc' = "remove" /\ call' = [c EXCEPT !.observed = TRUE]
      BY <1>3 DEF CaptureOrFinish
    <2>2. call' \in Call
      BY <2>1 DEF Call
    <2>3. QED
      BY <1>1, <2>1, <2>2, AskTyped DEF Kinds
  <1>4. QED
    BY <1>2, <1>3

LEMMA IsFreshTyped == \A m : IsFresh(m) \in BOOLEAN
  BY DEF IsFresh

LEMMA StopTyped ==
    ASSUME TypeOK, NEW m \in Message, TakeStop(m)
    PROVE  /\ call' \in Call /\ toEmu' \in Seq(Request)
           /\ ticket' \in Nat \ {NoTicket} /\ pending' \in Nat
           /\ pc' \in {"capture", "remove"}
  <1> DEFINE c == [call EXCEPT !.hit = m, !.fresh = IsFresh(m)]
  <1>1. c \in Call
    BY IsFreshTyped, ChangedCall DEF TypeOK
  <1>2. CaptureOrFinish(c)
    BY DEF TakeStop
  <1>3. QED
    BY <1>1, <1>2, FinishTyped

LEMMA EmulatorTyped == TypeInv /\ Emulator => TypeOK'
  <1> SUFFICES ASSUME TypeInv, Emulator PROVE TypeOK'
    OBVIOUS
  <1>0. TypeOK /\ toEmu \in Seq(Request) /\ toClient \in Seq(Message)
    BY DEF TypeInv, TypeOK
  <1>1. CASE Serve
    <2> DEFINE r == Head(toEmu)
    <2>1. r \in Request /\ r \in In(toEmu) /\ toEmu' \in Seq(Request)
      BY <1>0, <1>1, InTail DEF Serve
    <2>2. \A k \in Kinds \cup {"error"} : Put(toClient, Reply(r, k)) \in Seq(Message)
      BY <1>0, <2>1, ReplyTyped, InPut
    <2>3. r.kind = "add" => r.at \in Addrs
      BY <2>1 DEF TypeInv, Tickets, RequestFits
    <2>4. breakpoints' \subseteq Addrs /\ stoppedAt' \in Addrs \cup {NoAddr}
      BY <1>0, <1>1, <2>3 DEF Serve, TypeOK
    <2>5. toClient' \in Seq(Message)
      BY <1>0, <1>1, <2>2 DEF Serve, Kinds
    <2>6. QED
      BY <1>0, <1>1, <2>1, <2>4, <2>5 DEF Serve, TypeOK, callVars
  <1>2. CASE Refuse
    <2>1. Head(toEmu) \in Request /\ toEmu' \in Seq(Request)
      BY <1>0, <1>2, InTail DEF Refuse
    <2>2. toClient' \in Seq(Message)
      BY <1>0, <1>2, <2>1, ReplyTyped, InPut DEF Refuse
    <2>3. denied' \subseteq Addrs \cup {NoAddr}
      BY <1>0, <1>2 DEF Refuse, Undone, TypeOK
    <2>4. QED
      BY <1>0, <1>2, <2>1, <2>2, <2>3 DEF Refuse, TypeOK, callVars, emuVars
  <1>3. CASE Hit
    <2>1. PICK a \in breakpoints : /\ stoppedAt' = a
                                   /\ toClient' = Put(toClient, Event("stepping", a, stops + 1))
      BY <1>3 DEF Hit
    <2>2. a \in Addrs /\ stops + 1 \in Nat
      BY <1>0, <2>1 DEF TypeOK
    <2>3. toClient' \in Seq(Message)
      BY <1>0, <2>1, <2>2, EventTyped, InPut
    <2>4. QED
      BY <1>0, <1>3, <2>1, <2>2, <2>3 DEF Hit, TypeOK, callVars
  <1>4. CASE SendPing
    <2>1. Event("ping", NoAddr, 0) \in Message
      BY EventTyped
    <2>2. toClient' \in Seq(Message)
      BY <1>4, <2>1 DEF SendPing
    <2>3. QED
      BY <1>0, <1>4, <2>2 DEF SendPing, TypeOK, callVars
  <1>5. QED
    BY <1>1, <1>2, <1>3, <1>4 DEF Emulator

LEMMA ClientTyped == TypeInv /\ Client => TypeOK'
  <1> SUFFICES ASSUME TypeInv, Client PROVE TypeOK'
    OBVIOUS
  <1>0. /\ TypeOK /\ toEmu \in Seq(Request) /\ toClient \in Seq(Message) /\ call \in Call
        /\ call.at \in Addrs \cup {NoAddr} /\ events \in Seq(Message)
    BY DEF TypeInv, TypeOK, Call
  <1>1. CASE PassOver
    <2>1. Frame \in Message /\ toClient' \in Seq(Message) /\ stream' \in {"aligned", "torn"}
      BY <1>0, <1>1, ReceivesTyped DEF PassOver
    <2>2. events' \in Seq(Message) /\ Len(events') <= MaxQueued
      <3>1. Len(events) <= MaxQueued
        BY <1>0 DEF TypeOK
      <3>2. Keep(events, Frame) \in Seq(Message) /\ Len(Keep(events, Frame)) <= MaxQueued
        BY <1>0, <2>1, <3>1, InKeep
      <3>3. events' \in {events, Keep(events, Frame)}
        BY <1>1 DEF PassOver
      <3>4. QED
        BY <1>0, <3>1, <3>2, <3>3
    <2>3. QED
      BY <1>0, <1>1, <2>1, <2>2 DEF PassOver, TypeOK, callVars, emuVars
  <1>2. CASE Misread
    <2>1. toClient' \in Seq(Message)
      BY <1>0, <1>2, InTail DEF Misread
    <2>2. QED
      BY <1>0, <1>2, <2>1 DEF Misread, TypeOK, callVars, emuVars
  <1>3. CASE Installed
    <2>1. /\ toClient' \in Seq(Message) /\ stream' \in {"aligned", "torn"}
          /\ toEmu' \in Seq(Request) /\ ticket' \in Nat \ {NoTicket} /\ pending' \in Nat
      BY <1>0, <1>3, ReceivesTyped, ResumeTyped DEF Installed, Answered
    <2>2. Noted \in Call
      BY <1>3, NotedTyped DEF Installed, Asking, AwaitsReply
    <2>3. call' \in Call
      BY <1>3, <2>2, ChangedCall, EventTyped DEF Installed, Call
    <2>4. call.at \in Addrs
      BY <1>3 DEF Installed, TypeInv, Tickets
    <2>5. QED
      BY <1>0, <1>3, <2>1, <2>3, <2>4 DEF Installed, TypeOK, emuVars, Busy, Waiting
  <1>4. CASE InstallFails
    <2>1. toClient' \in Seq(Message) /\ stream' \in {"aligned", "torn"}
      BY <1>0, <1>4, FailsTyped DEF InstallFails
    <2>2. lostAdds' \subseteq Addrs
      BY <1>0, <1>4 DEF InstallFails, TypeInv, Tickets, TypeOK
    <2>3. QED
      BY <1>0, <1>4, <2>1, <2>2 DEF InstallFails, TypeOK, emuVars, callVars
  <1>5. CASE Stopped
    <2>1. CASE events # <<>> /\ TakeStop(Head(events)) /\ events' = Tail(events)
               /\ UNCHANGED <<toClient, stream>>
      <3>1. Head(events) \in Message /\ events' \in Seq(Message)
        BY <1>0, <2>1, InTail
      <3>2. Len(events') <= Len(events) /\ Len(events) <= MaxQueued /\ Len(events) \in Nat
            /\ Len(events') \in Nat /\ MaxQueued \in Nat
        BY <1>0, <2>1, BoundsAssumption DEF TypeOK
      <3>3. /\ call' \in Call /\ toEmu' \in Seq(Request)
            /\ ticket' \in Nat \ {NoTicket} /\ pending' \in Nat
            /\ pc' \in {"capture", "remove"}
        BY <1>0, <2>1, <3>1, StopTyped
      <3>4. QED
        BY <1>0, <1>5, <2>1, <3>1, <3>2, <3>3
           DEF Stopped, TypeOK, emuVars, Busy, Waiting, AwaitsReply
    <2>2. CASE Receives /\ TakeStop(Frame) /\ UNCHANGED events
      <3>1. Frame \in Message /\ toClient' \in Seq(Message) /\ stream' \in {"aligned", "torn"}
        BY <1>0, <2>2, ReceivesTyped
      <3>2. /\ call' \in Call /\ toEmu' \in Seq(Request)
            /\ ticket' \in Nat \ {NoTicket} /\ pending' \in Nat
            /\ pc' \in {"capture", "remove"}
        BY <1>0, <2>2, <3>1, StopTyped
      <3>3. QED
        BY <1>0, <1>5, <2>2, <3>1, <3>2
           DEF Stopped, TypeOK, emuVars, Busy, Waiting, AwaitsReply
    <2>3. QED
      BY <1>5, <2>1, <2>2 DEF Stopped
  <1>6. CASE Captured
    <2>1. Noted \in Call
      BY <1>6, NotedTyped DEF Captured, Asking, AwaitsReply
    <2> DEFINE c == [Noted EXCEPT !.captured = @ + 1]
    <2>2. c \in Call
      BY <2>1 DEF Call
    <2>3. CaptureOrFinish(c)
      BY <1>6 DEF Captured
    <2>4. /\ call' \in Call /\ toEmu' \in Seq(Request)
          /\ ticket' \in Nat \ {NoTicket} /\ pending' \in Nat
          /\ pc' \in {"capture", "remove"}
      BY <1>0, <2>2, <2>3, FinishTyped
    <2>5. toClient' \in Seq(Message) /\ stream' \in {"aligned", "torn"}
      BY <1>0, <1>6, ReceivesTyped DEF Captured, Answered
    <2>6. QED
      BY <1>0, <1>6, <2>4, <2>5 DEF Captured, TypeOK, emuVars, Busy, Waiting, AwaitsReply
  <1>7. CASE ObserveFails
    <2>1. toClient' \in Seq(Message) /\ stream' \in {"aligned", "torn"}
      BY <1>0, <1>7, FailsTyped DEF ObserveFails, Fails
    <2>2. toEmu' \in Seq(Request) /\ ticket' \in Nat \ {NoTicket} /\ pending' \in Nat
      BY <1>0, <1>7, AskTyped DEF ObserveFails, Kinds
    <2>3. QED
      BY <1>0, <1>7, <2>1, <2>2
         DEF ObserveFails, TypeOK, emuVars, callVars, Busy, Waiting, AwaitsReply
  <1>8. CASE Removed
    <2>1. toClient' \in Seq(Message) /\ stream' \in {"aligned", "torn"}
      BY <1>0, <1>8, FailsTyped, ReceivesTyped DEF Removed, Fails, Answered
    <2>2. toEmu' \in Seq(Request) /\ ticket' \in Nat \ {NoTicket} /\ pending' \in Nat
      BY <1>0, <1>8, ResumeTyped DEF Removed
    <2>3. call' \in Call
      BY <1>0, <1>8, NotedTyped DEF Removed, Asking, AwaitsReply
    <2>4. pc' \in {"exit", "idle"}
      BY <1>8 DEF Removed
    <2>5. QED
      BY <1>0, <1>8, <2>1, <2>2, <2>3, <2>4 DEF Removed, TypeOK, emuVars, Busy
  <1>9. CASE Probed
    <2>1. toClient' \in Seq(Message) /\ stream' \in {"aligned", "torn"}
      BY <1>0, <1>9, FailsTyped, ReceivesTyped DEF Probed, Fails, Answered
    <2>2. call' \in Call
      BY <1>0, <1>9, NotedTyped DEF Probed, Asking, AwaitsReply
    <2>3. QED
      BY <1>0, <1>9, <2>1, <2>2 DEF Probed, TypeOK, emuVars
  <1>10. CASE CloseBreakpoint
    <2>1. PICK a \in tracked : Ask("remove", a) /\ call' = [call EXCEPT !.at = a]
      BY <1>10 DEF CloseBreakpoint
    <2>2. a \in Addrs \cup {NoAddr}
      BY <1>0, <2>1 DEF TypeOK
    <2>3. call' \in Call
      BY <1>0, <2>1, <2>2, ChangedCall, EventTyped DEF Call
    <2>4. toEmu' \in Seq(Request) /\ ticket' \in Nat \ {NoTicket} /\ pending' \in Nat
      BY <1>0, <2>1, <2>2, AskTyped DEF Kinds
    <2>5. QED
      BY <1>0, <1>10, <2>3, <2>4
         DEF CloseBreakpoint, TypeOK, emuVars, Busy, Waiting, AwaitsReply
  <1>11. CASE BreakpointClosed
    <2>1. toClient' \in Seq(Message) /\ stream' \in {"aligned", "torn"}
      BY <1>0, <1>11, FailsTyped, ReceivesTyped DEF BreakpointClosed, Fails, Answered
    <2>2. QED
      BY <1>0, <1>11, <2>1 DEF BreakpointClosed, TypeOK, emuVars, callVars, Busy
  <1>12. CASE CloseTransport
    <2>1. toClient' \in Seq(Message) /\ link' \in {"up", "down", "closed"}
      BY <1>0, <1>12 DEF CloseTransport, Hangup, TypeOK
    <2>2. QED
      BY <1>0, <1>12, <2>1 DEF CloseTransport, TypeOK, emuVars, callVars, Over
  <1>13. QED
    BY <1>1, <1>2, <1>3, <1>4, <1>5, <1>6, <1>7, <1>8, <1>9, <1>10, <1>11, <1>12 DEF Client

LEMMA CallerTyped == TypeInv /\ (Caller \/ LoseLink) => TypeOK'
  <1> SUFFICES ASSUME TypeInv, Caller \/ LoseLink PROVE TypeOK'
    OBVIOUS
  <1>0. /\ TypeOK /\ toEmu \in Seq(Request) /\ toClient \in Seq(Message) /\ call \in Call
        /\ call.at \in Addrs \cup {NoAddr} /\ ticket \in Nat \ {NoTicket} /\ serial \in Nat
    BY DEF TypeInv, TypeOK, Call
  <1>1. ASSUME NEW a \in Addrs \cup {NoAddr}, NEW kind \in {"add", "probe"}
        PROVE  [Req(kind, ticket, a) EXCEPT !.serial = serial + 1] \in Request
    <2>1. Req(kind, ticket, a) \in Request
      BY <1>0, ReqTyped DEF Kinds
    <2>2. serial + 1 \in Nat
      BY <1>0
    <2>3. QED
      BY <2>1, <2>2, ChangedSerial
  <1>2. ASSUME NEW a \in Addrs, Observe(a) PROVE TypeOK'
    <2>1. toEmu' \in Seq(Request) /\ call' \in Call
      <3>1. toEmu' = Put(toEmu, [Req("add", ticket, a) EXCEPT !.serial = serial + 1])
            /\ call' = NewCall(a)
        BY <1>2 DEF Observe
      <3>2. [Req("add", ticket, a) EXCEPT !.serial = serial + 1] \in Request
        BY <1>1
      <3>3. QED
        BY <1>0, <3>1, <3>2, InPut, NewCallTyped
    <2>2. ticket' \in Nat \ {NoTicket} /\ pending' \in Nat /\ serial' \in Nat
      BY <1>0, <1>2 DEF Observe, NoTicket
    <2>3. QED
      BY <1>0, <1>2, <2>1, <2>2 DEF Observe, TypeOK, emuVars, Busy, Waiting, AwaitsReply
  <1>3. CASE Probe
    <2>1. toEmu' \in Seq(Request) /\ call' \in Call
      <3>1. toEmu' = Put(toEmu, [Req("probe", ticket, NoAddr) EXCEPT !.serial = serial + 1])
            /\ call' = NewCall(NoAddr)
        BY <1>3 DEF Probe
      <3>2. [Req("probe", ticket, NoAddr) EXCEPT !.serial = serial + 1] \in Request
        BY <1>1
      <3>3. QED
        BY <1>0, <3>1, <3>2, InPut, NewCallTyped
    <2>2. ticket' \in Nat \ {NoTicket} /\ pending' \in Nat /\ serial' \in Nat
      BY <1>0, <1>3 DEF Probe, NoTicket
    <2>3. QED
      BY <1>0, <1>3, <2>1, <2>2 DEF Probe, TypeOK, emuVars, Busy, Waiting, AwaitsReply
  <1>4. CASE LeaveBlock
    BY <1>0, <1>4 DEF LeaveBlock, TypeOK, emuVars, callVars, Busy
  <1>5. CASE Interrupt
    <2>1. CASE /\ pc \in {"wait", "capture"} /\ Ask("remove", call.at) /\ Cut
               /\ pc' = "remove" /\ call' = [call EXCEPT !.interrupted = TRUE]
               /\ UNCHANGED <<toClient, link, lostAdds>>
      <3>1. call' \in Call
        <4>1. call \in Call
          BY <1>0 DEF TypeOK
        <4>2. QED
          BY <2>1, <4>1 DEF Call
      <3>2. toEmu' \in Seq(Request) /\ ticket' \in Nat \ {NoTicket} /\ pending' \in Nat
        BY <1>0, <2>1, AskTyped DEF Kinds
      <3>3. stream' \in {"aligned", "torn"}
        BY <1>0, <2>1 DEF Cut, TypeOK
      <3>4. QED
        BY <1>0, <1>5, <2>1, <3>1, <3>2, <3>3
           DEF Interrupt, TypeOK, emuVars, Busy, Waiting, AwaitsReply
    <2>2. CASE /\ pc \in {"idle", "add", "probe", "remove"} /\ Cut /\ pc' = "exit"
               /\ lostAdds' = IF pc = "add" THEN lostAdds \cup {call.at} ELSE lostAdds
               /\ UNCHANGED <<toEmu, ticket, pending, call, toClient, link>>
      <3>1. lostAdds' \subseteq Addrs
        BY <1>0, <2>2 DEF TypeInv, Tickets, TypeOK
      <3>2. stream' \in {"aligned", "torn"}
        BY <1>0, <2>2 DEF Cut, TypeOK
      <3>3. QED
        BY <1>0, <1>5, <2>2, <3>1, <3>2 DEF Interrupt, TypeOK, emuVars, Busy
    <2>3. CASE /\ pc' = "abandoned" /\ Hangup
               /\ UNCHANGED <<toEmu, ticket, pending, call, stream, lostAdds>>
      BY <1>0, <1>5, <2>3 DEF Interrupt, Hangup, TypeOK, emuVars, Over
    <2>4. QED
      BY <1>5, <2>1, <2>2, <2>3 DEF Interrupt
  <1>6. CASE LoseLink
    <2>1. toEmu' \in Seq(Request) /\ toClient' \in Seq(Message)
      BY <1>0, <1>6, InPrefix DEF LoseLink
    <2>2. QED
      BY <1>0, <1>6, <2>1 DEF LoseLink, TypeOK, emuVars, callVars
  <1>7. QED
    BY <1>2, <1>3, <1>4, <1>5, <1>6 DEF Caller

-----------------------------------------------------------------------------
(* What a step does to the tickets: the client stays where it is, stops      *)
(* waiting, or sends a request                                               *)

Stays ==
    /\ UNCHANGED <<pc, pending, ticket, serial, call>>
    /\ \A r \in In(toEmu') : RequestFits(r)
    /\ \A m \in In(toClient') : MessageFits(m)

Leaves ==
    /\ pc' \notin AwaitsReply
    /\ UNCHANGED ticket
    /\ In(toEmu') \subseteq In(toEmu) /\ In(toClient') \subseteq In(toClient)

Sends(r) ==
    /\ r.ticket = ticket /\ ticket' = ticket + 1
    /\ r.kind = "add" => r.at \in Addrs
    /\ In(toEmu') \subseteq In(toEmu) \cup {r} /\ In(toClient') \subseteq In(toClient)
    /\ pc' \in AwaitsReply => pending' = ticket
    /\ pc' \in Asking => r.kind = pc' /\ r.serial = serial'
    /\ pc' = "add" => call'.at \in Addrs

LEMMA SendsFits ==
    ASSUME TypeInv, NEW r, Sends(r)
    PROVE  Tickets'
  <1>0. ticket \in Nat \ {0} /\ ticket' = ticket + 1
    BY DEF TypeInv, TypeOK, NoTicket, Sends
  <1>1. ASSUME NEW q \in In(toEmu') PROVE RequestFits(q)'
    <2>1. CASE q = r
      BY <1>0, <2>1 DEF Sends, RequestFits
    <2>2. CASE q \in In(toEmu)
      <3>1. q.ticket \in 1 .. ticket - 1 /\ (q.kind = "add" => q.at \in Addrs)
        BY <2>2 DEF TypeInv, Tickets, RequestFits
      <3>2. pc' \in Asking => q.ticket # pending'
        BY <1>0, <3>1 DEF Sends, Asking
      <3>3. q.ticket \in 1 .. ticket' - 1
        BY <1>0, <3>1
      <3>4. QED
        BY <3>1, <3>2, <3>3 DEF RequestFits
    <2>3. QED
      BY <2>1, <2>2 DEF Sends
  <1>2. ASSUME NEW m \in In(toClient') PROVE MessageFits(m)'
    <2>1. /\ m.ticket \in 0 .. ticket - 1
          /\ m.ticket # NoTicket => m.kind \in Kinds \cup {"error"}
      BY DEF TypeInv, Tickets, MessageFits, Sends
    <2>2. pc' \in Asking => m.ticket # pending'
      BY <1>0, <2>1 DEF Sends, Asking
    <2>3. m.ticket \in 0 .. ticket' - 1
      BY <1>0, <2>1
    <2>4. QED
      BY <2>1, <2>2, <2>3 DEF MessageFits
  <1>3. pc' \in AwaitsReply => pending' \in 1 .. ticket' - 1
    BY <1>0 DEF Sends
  <1>4. pc' = "add" => call'.at \in Addrs
    BY DEF Sends
  <1>5. QED
    BY <1>1, <1>2, <1>3, <1>4 DEF Tickets

LEMMA LeavesFits ==
    ASSUME TypeInv, Leaves
    PROVE  Tickets'
  <1>1. pc' \notin AwaitsReply /\ pc' \notin Asking /\ pc' # "add"
    BY DEF Leaves, Asking, AwaitsReply
  <1>2. ASSUME NEW q \in In(toEmu') PROVE RequestFits(q)'
    <2>1. RequestFits(q)
      BY DEF Leaves, TypeInv, Tickets
    <2>2. QED
      BY <1>1, <2>1 DEF Leaves, RequestFits
  <1>3. ASSUME NEW m \in In(toClient') PROVE MessageFits(m)'
    <2>1. MessageFits(m)
      BY DEF Leaves, TypeInv, Tickets
    <2>2. QED
      BY <1>1, <2>1 DEF Leaves, MessageFits
  <1>4. QED
    BY <1>1, <1>2, <1>3 DEF Tickets

LEMMA StaysFits ==
    ASSUME TypeInv, Stays
    PROVE  Tickets'
  <1>1. ASSUME NEW q \in In(toEmu') PROVE RequestFits(q)'
    BY DEF Stays, RequestFits
  <1>2. ASSUME NEW m \in In(toClient') PROVE MessageFits(m)'
    BY DEF Stays, MessageFits
  <1>3. QED
    BY <1>1, <1>2 DEF Stays, TypeInv, Tickets

LEMMA ReplyFits ==
    ASSUME TypeInv, NEW r \in Request, r \in In(toEmu), NEW k \in {r.kind, "error"}
    PROVE  MessageFits(Reply(r, k))
  <1>1. RequestFits(r) /\ r.kind \in Kinds /\ ticket \in Nat \ {0}
    BY DEF TypeInv, Tickets, TypeOK, Request, NoTicket
  <1>2. /\ Reply(r, k).ticket = r.ticket /\ Reply(r, k).kind = k
        /\ Reply(r, k).serial = r.serial
    BY DEF Reply
  <1>3. QED
    BY <1>1, <1>2 DEF RequestFits, MessageFits

\* A message without a ticket fits at any time.
LEMMA EventFits ==
    ASSUME TypeInv, NEW kind, NEW a, NEW n
    PROVE  MessageFits(Event(kind, a, n))
  <1>1. ticket \in Nat \ {0} /\ Event(kind, a, n).ticket = 0
    BY DEF TypeInv, TypeOK, NoTicket, Event
  <1>2. pc \in Asking => pending # 0
    BY <1>1 DEF TypeInv, Tickets, Asking
  <1>3. QED
    BY <1>1, <1>2 DEF MessageFits, NoTicket

LEMMA EmulatorStays == TypeInv /\ (Emulator \/ LoseLink) => Stays
  <1> SUFFICES ASSUME TypeInv, Emulator \/ LoseLink PROVE Stays
    OBVIOUS
  <1>0. /\ toEmu \in Seq(Request) /\ toClient \in Seq(Message) /\ TypeOK
        /\ \A r \in In(toEmu) : RequestFits(r)
        /\ \A m \in In(toClient) : MessageFits(m)
    BY DEF TypeInv, TypeOK, Tickets
  <1>1. CASE Serve
    <2> DEFINE r == Head(toEmu)
    <2>1. r \in Request /\ r \in In(toEmu) /\ In(toEmu') \subseteq In(toEmu)
      BY <1>0, <1>1, InTail DEF Serve
    <2>2. In(Put(toClient, Reply(r, r.kind))) \subseteq In(toClient) \cup {Reply(r, r.kind)}
      <3>1. r.kind \in Kinds
        BY <2>1 DEF Request
      <3>2. Reply(r, r.kind) \in Message
        BY <1>0, <2>1, <3>1, ReplyTyped
      <3>3. QED
        BY <1>0, <3>2, InPut
    <2>3. toClient' \in {toClient, Put(toClient, Reply(r, r.kind))}
      BY <1>1 DEF Serve
    <2>4. \A m \in In(toClient') : MessageFits(m)
      BY <1>0, <2>1, <2>2, <2>3, ReplyFits
    <2>5. QED
      BY <1>0, <1>1, <2>1, <2>4 DEF Serve, Stays, callVars
  <1>2. CASE Refuse
    <2> DEFINE r == Head(toEmu)
    <2>1. r \in Request /\ r \in In(toEmu) /\ In(toEmu') \subseteq In(toEmu)
      BY <1>0, <1>2, InTail DEF Refuse
    <2>2. In(toClient') \subseteq In(toClient) \cup {Reply(r, "error")}
      BY <1>0, <1>2, <2>1, ReplyTyped, InPut DEF Refuse
    <2>3. QED
      BY <1>0, <1>2, <2>1, <2>2, ReplyFits DEF Refuse, Stays, callVars
  <1>3. CASE Hit
    <2>1. PICK a \in breakpoints : toClient' = Put(toClient, Event("stepping", a, stops + 1))
      BY <1>3 DEF Hit
    <2>2. a \in Addrs /\ stops + 1 \in Nat
      BY <1>0, <2>1 DEF TypeOK
    <2>3. In(toClient') \subseteq In(toClient) \cup {Event("stepping", a, stops + 1)}
      BY <1>0, <2>1, <2>2, EventTyped, InPut
    <2>4. QED
      BY <1>0, <1>3, <2>3, EventFits DEF Hit, Stays, callVars
  <1>4. CASE SendPing
    <2>1. In(toClient') = {Event("ping", NoAddr, 0)}
      BY <1>4 DEF SendPing, In
    <2>2. QED
      BY <1>0, <1>4, <2>1, EventFits DEF SendPing, Stays, callVars
  <1>5. CASE LoseLink
    <2>1. In(toEmu') \subseteq In(toEmu) /\ In(toClient') \subseteq In(toClient)
      BY <1>0, <1>5, InPrefix, InEmpty DEF LoseLink
    <2>2. QED
      BY <1>0, <1>5, <2>1 DEF LoseLink, Stays, callVars
  <1>6. QED
    BY <1>1, <1>2, <1>3, <1>4, <1>5 DEF Emulator

LEMMA FinishSends ==
    ASSUME TypeOK, NEW c \in Call, CaptureOrFinish(c), UNCHANGED serial,
           In(toClient') \subseteq In(toClient)
    PROVE  \E r \in Request : Sends(r)
  <1>1. c.at \in Addrs \cup {NoAddr}
    BY DEF Call
  <1>2. PICK kind \in {"capture", "remove"}, a \in Addrs \cup {NoAddr} :
            Ask(kind, a) /\ pc' = kind
    BY <1>1 DEF CaptureOrFinish
  <1>3. Sends(Req(kind, ticket, a))
    BY <1>2, AskTyped DEF Sends, Kinds, Req
  <1>4. Req(kind, ticket, a) \in Request
    BY <1>2, AskTyped DEF Kinds
  <1>5. QED
    BY <1>3, <1>4

Moves == Stays \/ Leaves \/ \E r \in Request : Sends(r)

LEMMA ResumeMoves ==
    ASSUME TypeOK, Resume, pc' \notin AwaitsReply, In(toClient') \subseteq In(toClient)
    PROVE  Moves
  <1>1. Sends(Req("resume", ticket, NoAddr))
    BY ResumeTyped DEF Sends, Req, Asking, AwaitsReply
  <1>2. QED
    BY <1>1, ResumeTyped DEF Moves

LEMMA AskMoves ==
    ASSUME TypeOK, NEW kind \in {"remove", "capture"}, NEW a \in Addrs \cup {NoAddr},
           Ask(kind, a), pc' \in {kind, "closing"}, UNCHANGED serial,
           In(toClient') \subseteq In(toClient)
    PROVE  Moves
  <1>1. Sends(Req(kind, ticket, a))
    BY AskTyped DEF Sends, Req, Asking, AwaitsReply, Kinds
  <1>2. QED
    BY <1>1, AskTyped DEF Moves, Kinds

LEMMA ClientMoves == TypeInv /\ Client => Moves
  <1> SUFFICES ASSUME TypeInv, Client PROVE Moves
    OBVIOUS
  <1>0. /\ toEmu \in Seq(Request) /\ toClient \in Seq(Message) /\ TypeOK /\ call \in Call
        /\ call.at \in Addrs \cup {NoAddr}
        /\ \A r \in In(toEmu) : RequestFits(r)
        /\ \A m \in In(toClient) : MessageFits(m)
    BY DEF TypeInv, TypeOK, Tickets, Call
  <1>1. CASE PassOver
    <2>1. In(toClient') \subseteq In(toClient)
      BY <1>0, <1>1, ReceivesTyped DEF PassOver
    <2>2. QED
      BY <1>0, <1>1, <2>1 DEF PassOver, Stays, Moves, callVars
  <1>2. CASE Misread
    <2>1. In(toClient') \subseteq In(toClient)
      BY <1>0, <1>2, InTail DEF Misread
    <2>2. QED
      BY <1>0, <1>2, <2>1 DEF Misread, Stays, Moves, callVars
  <1>3. CASE Installed
    <2>1. In(toClient') \subseteq In(toClient)
      BY <1>0, <1>3, ReceivesTyped DEF Installed, Answered
    <2>2. QED
      BY <1>0, <1>3, <2>1, ResumeMoves DEF Installed, AwaitsReply
  <1>4. CASE InstallFails
    <2>1. In(toClient') \subseteq In(toClient)
      BY <1>0, <1>4, FailsTyped DEF InstallFails
    <2>2. QED
      BY <1>0, <1>4, <2>1 DEF InstallFails, Leaves, Moves, AwaitsReply
  <1>5. CASE Stopped
    <2>1. PICK m \in Message : TakeStop(m)
      <3>1. CASE events # <<>> /\ TakeStop(Head(events))
        <4>1. Head(events) \in Message
          BY <1>0, <3>1, InTail DEF TypeOK
        <4>2. QED
          BY <3>1, <4>1
      <3>2. CASE Receives /\ TakeStop(Frame)
        BY <1>0, <3>2, ReceivesTyped
      <3>3. QED
        BY <1>5, <3>1, <3>2 DEF Stopped
    <2>2. In(toClient') \subseteq In(toClient)
      BY <1>0, <1>5, ReceivesTyped DEF Stopped
    <2> DEFINE c == [call EXCEPT !.hit = m, !.fresh = IsFresh(m)]
    <2>3. c \in Call
      BY <1>0, IsFreshTyped, ChangedCall
    <2>4. CaptureOrFinish(c) /\ UNCHANGED serial
      BY <1>5, <2>1 DEF TakeStop, Stopped
    <2>5. QED
      BY <1>0, <2>2, <2>3, <2>4, FinishSends DEF Moves
  <1>6. CASE Captured
    <2>1. Noted \in Call
      BY <1>6, NotedTyped DEF Captured, Asking, AwaitsReply
    <2> DEFINE c == [Noted EXCEPT !.captured = @ + 1]
    <2>2. c \in Call
      BY <2>1 DEF Call
    <2>3. CaptureOrFinish(c) /\ UNCHANGED serial
      BY <1>6 DEF Captured
    <2>4. In(toClient') \subseteq In(toClient)
      BY <1>0, <1>6, ReceivesTyped DEF Captured, Answered
    <2>5. QED
      BY <1>0, <2>2, <2>3, <2>4, FinishSends DEF Moves
  <1>7. CASE ObserveFails
    <2>1. In(toClient') \subseteq In(toClient)
      BY <1>0, <1>7, FailsTyped DEF ObserveFails, Fails
    <2>2. QED
      BY <1>0, <1>7, <2>1, AskMoves DEF ObserveFails, callVars
  <1>8. CASE Removed
    <2>1. In(toClient') \subseteq In(toClient)
      BY <1>0, <1>8, FailsTyped, ReceivesTyped DEF Removed, Fails, Answered
    <2>2. pc' \notin AwaitsReply
      BY <1>8 DEF Removed, AwaitsReply
    <2>3. QED
      BY <1>0, <1>8, <2>1, <2>2, ResumeMoves DEF Removed
  <1>9. CASE Probed
    <2>1. In(toClient') \subseteq In(toClient)
      BY <1>0, <1>9, FailsTyped, ReceivesTyped DEF Probed, Fails, Answered
    <2>2. QED
      BY <1>0, <1>9, <2>1 DEF Probed, Leaves, Moves, AwaitsReply
  <1>10. CASE CloseBreakpoint
    <2>1. PICK a \in tracked : Ask("remove", a)
      BY <1>10 DEF CloseBreakpoint
    <2>2. a \in Addrs \cup {NoAddr}
      BY <1>0, <2>1 DEF TypeOK
    <2>3. QED
      BY <1>0, <1>10, <2>1, <2>2, AskMoves DEF CloseBreakpoint
  <1>11. CASE BreakpointClosed
    <2>1. In(toClient') \subseteq In(toClient)
      BY <1>0, <1>11, FailsTyped, ReceivesTyped DEF BreakpointClosed, Fails, Answered
    <2>2. QED
      BY <1>0, <1>11, <2>1 DEF BreakpointClosed, Leaves, Moves, AwaitsReply
  <1>12. CASE CloseTransport
    <2>1. In(toClient') \subseteq In(toClient)
      BY <1>12, InEmpty DEF CloseTransport, Hangup
    <2>2. QED
      BY <1>0, <1>12, <2>1 DEF CloseTransport, Leaves, Moves, AwaitsReply
  <1>13. QED
    BY <1>1, <1>2, <1>3, <1>4, <1>5, <1>6, <1>7, <1>8, <1>9, <1>10, <1>11, <1>12 DEF Client

LEMMA CallerMoves == TypeInv /\ Caller => Moves
  <1> SUFFICES ASSUME TypeInv, Caller PROVE Moves
    OBVIOUS
  <1>0. /\ toEmu \in Seq(Request) /\ TypeOK /\ call.at \in Addrs \cup {NoAddr}
        /\ serial \in Nat /\ ticket \in Nat
    BY DEF TypeInv, TypeOK, Call
  <1>1. ASSUME NEW a \in Addrs \cup {NoAddr}, NEW kind \in {"add", "probe"}
        PROVE  LET r == [Req(kind, ticket, a) EXCEPT !.serial = serial + 1]
               IN  /\ r \in Request /\ r.ticket = ticket /\ r.kind = kind /\ r.at = a
                   /\ r.serial = serial + 1
                   /\ In(Put(toEmu, r)) \subseteq In(toEmu) \cup {r}
    <2> DEFINE r == [Req(kind, ticket, a) EXCEPT !.serial = serial + 1]
    <2>1. Req(kind, ticket, a) \in Request /\ serial + 1 \in Nat
      BY <1>0, ReqTyped DEF Kinds
    <2>2. r \in Request
      BY <2>1, ChangedSerial
    <2>3. r.ticket = ticket /\ r.kind = kind /\ r.at = a /\ r.serial = serial + 1
      BY DEF Req
    <2> HIDE DEF r
    <2>4. In(Put(toEmu, r)) \subseteq In(toEmu) \cup {r}
      BY <1>0, <2>2, InPut
    <2>5. QED
      BY <2>2, <2>3, <2>4 DEF r
  <1>2. ASSUME NEW a \in Addrs, Observe(a) PROVE Moves
    <2> DEFINE r == [Req("add", ticket, a) EXCEPT !.serial = serial + 1]
    <2>1. /\ r \in Request /\ r.ticket = ticket /\ r.kind = "add" /\ r.at = a
          /\ r.serial = serial + 1 /\ In(Put(toEmu, r)) \subseteq In(toEmu) \cup {r}
      BY <1>1
    <2>2. /\ toEmu' = Put(toEmu, r) /\ ticket' = ticket + 1 /\ pending' = ticket
          /\ pc' = "add" /\ serial' = serial + 1 /\ UNCHANGED toClient /\ call'.at = a
      BY <1>2 DEF Observe, NewCall
    <2> HIDE DEF r
    <2>3. Sends(r)
      BY <2>1, <2>2 DEF Sends
    <2>4. QED
      BY <2>1, <2>3 DEF Moves
  <1>3. CASE Probe
    <2> DEFINE r == [Req("probe", ticket, NoAddr) EXCEPT !.serial = serial + 1]
    <2>1. /\ r \in Request /\ r.ticket = ticket /\ r.kind = "probe"
          /\ r.serial = serial + 1 /\ In(Put(toEmu, r)) \subseteq In(toEmu) \cup {r}
      BY <1>1
    <2>2. /\ toEmu' = Put(toEmu, r) /\ ticket' = ticket + 1 /\ pending' = ticket
          /\ pc' = "probe" /\ serial' = serial + 1 /\ UNCHANGED toClient
      BY <1>3 DEF Probe
    <2> HIDE DEF r
    <2>3. Sends(r)
      BY <2>1, <2>2 DEF Sends
    <2>4. QED
      BY <2>1, <2>3 DEF Moves
  <1>4. CASE LeaveBlock
    BY <1>4 DEF LeaveBlock, Leaves, Moves, AwaitsReply
  <1>5. CASE Interrupt
    <2>1. CASE /\ Ask("remove", call.at) /\ pc' = "remove" /\ UNCHANGED toClient
      BY <1>0, <1>5, <2>1, AskMoves DEF Interrupt
    <2>2. CASE pc' = "exit" /\ UNCHANGED <<toEmu, ticket, toClient>>
      BY <2>2 DEF Leaves, Moves, AwaitsReply
    <2>3. CASE pc' = "abandoned" /\ Hangup /\ UNCHANGED <<toEmu, ticket>>
      BY <2>3, InEmpty DEF Leaves, Moves, AwaitsReply, Hangup
    <2>4. QED
      BY <1>5, <2>1, <2>2, <2>3 DEF Interrupt
  <1>6. QED
    BY <1>2, <1>3, <1>4, <1>5 DEF Caller

LEMMA StepMoves == TypeInv /\ [Next]_vars => Moves
  <1> SUFFICES ASSUME TypeInv, [Next]_vars PROVE Moves
    OBVIOUS
  <1>1. CASE UNCHANGED vars
    BY <1>1 DEF vars, Moves, Stays, TypeInv, Tickets
  <1>2. QED
    BY <1>1, EmulatorStays, ClientMoves, CallerMoves DEF Next, Moves

\* Types and tickets go together: an unfit reply would be taken for an answer.
LEMMA TypeInvariant == Spec => []TypeInv
  <1>1. Init => TypeInv
    <2> SUFFICES ASSUME Init PROVE TypeInv
      OBVIOUS
    <2>1. NewCall(NoAddr) \in Call
      BY NewCallTyped
    <2>2. MaxQueued \in Nat
      BY BoundsAssumption
    <2>3. TypeOK
      BY <2>1, <2>2 DEF Init, TypeOK, NoTicket
    <2>4. Tickets
      BY InEmpty DEF Init, Tickets, AwaitsReply
    <2>5. QED
      BY <2>3, <2>4 DEF TypeInv
  <1>2. TypeInv /\ [Next]_vars => TypeInv'
    <2> SUFFICES ASSUME TypeInv, [Next]_vars PROVE TypeInv'
      OBVIOUS
    <2>1. TypeOK'
      <3>1. CASE UNCHANGED vars
        BY <3>1 DEF TypeInv, TypeOK, vars
      <3>2. QED
        BY <3>1, EmulatorTyped, ClientTyped, CallerTyped DEF Next
    <2>2. Tickets'
      BY StepMoves, StaysFits, LeavesFits, SendsFits DEF Moves
    <2>3. QED
      BY <2>1, <2>2 DEF TypeInv
  <1>3. QED
    BY <1>1, <1>2, PTL DEF Spec

\* The type invariant (session.py, transport.py): what is on its way, what the
\* objects keep, and the local variables of a call.
THEOREM SessionTypeCorrect == Spec => []TypeOK
  <1>1. TypeInv => TypeOK
    BY DEF TypeInv
  <1>2. QED
    BY <1>1, TypeInvariant, PTL

-----------------------------------------------------------------------------
(* What a step does to the call in progress *)

Begins == serial' = serial + 1 /\ \E a \in Addrs \cup {NoAddr} : call' = NewCall(a)

Notes ==
    /\ Answered /\ pc \in Asking /\ UNCHANGED serial
    /\ call'.at = call.at /\ call'.hit = call.hit /\ call'.fresh = call.fresh
    /\ \E a \in Answer :
          /\ call'.answers = call.answers \cup {a}
          /\ a.asked = pc /\ a.got = pc /\ a.serial = serial /\ a.stop = Frame.stop

\* Its hit may be new, and in close() its address.
Goes ==
    /\ UNCHANGED serial
    /\ call'.answers = call.answers
    /\ pc # "wait" => call'.hit = call.hit /\ call'.fresh = call.fresh
    /\ pc # "exit" => call'.at = call.at

LEMMA FinishCall ==
    ASSUME NEW c \in Call, CaptureOrFinish(c)
    PROVE  /\ call'.at = c.at /\ call'.hit = c.hit /\ call'.fresh = c.fresh
           /\ call'.answers = c.answers
  BY DEF CaptureOrFinish, Call

LEMMA CallSteps == TypeInv /\ [Next]_vars => Begins \/ Notes \/ Goes
  <1> SUFFICES ASSUME TypeInv, [Next]_vars PROVE Begins \/ Notes \/ Goes
    OBVIOUS
  <1>0. TypeOK /\ call \in Call
    BY DEF TypeInv, TypeOK
  <1>1. ASSUME Answered, pc \in Asking, UNCHANGED serial,
               call' \in {Noted, [Noted EXCEPT !.installed = TRUE]}
        PROVE  Notes
    <2>1. PICK a \in Answer : /\ Noted = [call EXCEPT !.answers = call.answers \cup {a}]
                              /\ a.asked = pc /\ a.got = pc /\ a.serial = serial
                              /\ a.stop = Frame.stop
      BY <1>1, NotedTyped
    <2>2. /\ Noted.at = call.at /\ Noted.hit = call.hit /\ Noted.fresh = call.fresh
          /\ Noted.answers = call.answers \cup {a}
      BY <1>0, <2>1 DEF Call
    <2>3. /\ call'.at = Noted.at /\ call'.hit = Noted.hit /\ call'.fresh = Noted.fresh
          /\ call'.answers = Noted.answers
      <3>1. Noted \in Call
        BY <1>1, NotedTyped
      <3>2. QED
        BY <1>1, <3>1 DEF Call
    <2>4. QED
      BY <1>1, <2>1, <2>2, <2>3 DEF Notes
  <1>2. ASSUME UNCHANGED <<call, serial>> PROVE Goes
    BY <1>2 DEF Goes
  <1>3. ASSUME Emulator \/ LoseLink \/ UNCHANGED vars PROVE Goes
    BY <1>2, <1>3 DEF Emulator, Serve, Refuse, Hit, SendPing, LoseLink, callVars, vars
  <1>4. ASSUME PassOver \/ Misread \/ InstallFails \/ ObserveFails \/ BreakpointClosed
               \/ CloseTransport \/ LeaveBlock
        PROVE  Goes
    BY <1>2, <1>4 DEF PassOver, Misread, InstallFails, ObserveFails, BreakpointClosed,
                      CloseTransport, LeaveBlock, callVars
  <1>5. CASE Installed
    BY <1>1, <1>5 DEF Installed, Asking, AwaitsReply
  <1>6. CASE Stopped
    <2>1. PICK m \in Message : TakeStop(m)
      <3>1. CASE events # <<>> /\ TakeStop(Head(events))
        <4>1. Head(events) \in Message
          BY <1>0, <3>1, InTail DEF TypeOK
        <4>2. QED
          BY <3>1, <4>1
      <3>2. CASE Receives /\ TakeStop(Frame)
        BY <1>0, <3>2, ReceivesTyped
      <3>3. QED
        BY <1>6, <3>1, <3>2 DEF Stopped
    <2> DEFINE c == [call EXCEPT !.hit = m, !.fresh = IsFresh(m)]
    <2>2. c \in Call
      BY <1>0, IsFreshTyped, ChangedCall
    <2>3. c.at = call.at /\ c.answers = call.answers
      BY <1>0 DEF Call
    <2>4. CaptureOrFinish(c)
      BY <2>1 DEF TakeStop
    <2> HIDE DEF c
    <2>5. call'.at = call.at /\ call'.answers = call.answers
      BY <2>2, <2>3, <2>4, FinishCall
    <2>6. QED
      BY <1>6, <2>5 DEF Goes, Stopped
  <1>7. CASE Captured
    <2>1. Answered /\ pc = "capture" /\ UNCHANGED serial
      BY <1>7 DEF Captured
    <2>2. PICK a \in Answer : /\ Noted = [call EXCEPT !.answers = call.answers \cup {a}]
                              /\ a.asked = pc /\ a.got = pc /\ a.serial = serial
                              /\ a.stop = Frame.stop
      BY <2>1, NotedTyped DEF Asking, AwaitsReply
    <2>3. Noted \in Call
      BY <2>1, NotedTyped DEF Asking, AwaitsReply
    <2> DEFINE c == [Noted EXCEPT !.captured = @ + 1]
    <2>4. /\ c \in Call /\ c.at = Noted.at /\ c.hit = Noted.hit /\ c.fresh = Noted.fresh
          /\ c.answers = Noted.answers
      BY <2>3 DEF Call
    <2>5. /\ Noted.at = call.at /\ Noted.hit = call.hit /\ Noted.fresh = call.fresh
          /\ Noted.answers = call.answers \cup {a}
      BY <1>0, <2>2 DEF Call
    <2>6. CaptureOrFinish(c)
      BY <1>7 DEF Captured
    <2> HIDE DEF c
    <2>7. /\ call'.at = c.at /\ call'.hit = c.hit /\ call'.fresh = c.fresh
          /\ call'.answers = c.answers
      BY <2>4, <2>6, FinishCall
    <2>8. QED
      BY <2>1, <2>2, <2>4, <2>5, <2>7 DEF Notes, Asking, AwaitsReply
  <1>8. CASE Removed \/ Probed
    <2>1. pc \in Asking /\ UNCHANGED serial
      BY <1>8 DEF Removed, Probed, Asking, AwaitsReply
    <2>2. (Answered /\ call' = Noted) \/ UNCHANGED call
      BY <1>8 DEF Removed, Probed
    <2>3. QED
      BY <1>1, <1>2, <2>1, <2>2
  <1>9. CASE CloseBreakpoint
    <2>1. PICK a \in tracked : call' = [call EXCEPT !.at = a]
      BY <1>9 DEF CloseBreakpoint
    <2>2. QED
      BY <1>0, <1>9, <2>1 DEF CloseBreakpoint, Goes, Call
  <1>10. CASE Interrupt
    <2>1. call' \in {call, [call EXCEPT !.interrupted = TRUE]} /\ UNCHANGED serial
      BY <1>10 DEF Interrupt
    <2>2. QED
      BY <1>0, <2>1 DEF Goes, Call
  <1>11. ASSUME NEW a \in Addrs, Observe(a) PROVE Begins
    BY <1>11 DEF Observe, Begins
  <1>12. CASE Probe
    BY <1>12 DEF Probe, Begins
  <1>13. QED
    BY <1>3, <1>4, <1>5, <1>6, <1>7, <1>8, <1>9, <1>10, <1>11, <1>12
       DEF Next, Client, Caller

-----------------------------------------------------------------------------
(* Answers, and what is tracked *)

LEMMA AnswersStep ==
    TypeInv /\ AnswersBelongToTheCall /\ [Next]_vars => AnswersBelongToTheCall'
  <1> SUFFICES ASSUME TypeInv, AnswersBelongToTheCall, [Next]_vars
               PROVE  AnswersBelongToTheCall'
    OBVIOUS
  <1>1. CASE Begins
    BY <1>1 DEF Begins, NewCall, AnswersBelongToTheCall
  <1>2. CASE Notes
    BY <1>2 DEF Notes, AnswersBelongToTheCall
  <1>3. CASE Goes
    BY <1>3 DEF Goes, AnswersBelongToTheCall
  <1>4. QED
    BY <1>1, <1>2, <1>3, CallSteps

\* Whatever timed out or was refused before, the answer a call takes is the
\* reply to its own request (transport.py, request): tickets are never reused.
THEOREM AnswersAreTheCalls == Spec => []AnswersBelongToTheCall
  <1>1. Init => AnswersBelongToTheCall
    BY DEF Init, NewCall, AnswersBelongToTheCall
  <1>2. QED
    BY <1>1, AnswersStep, TypeInvariant, PTL DEF Spec

\* Within an observation its own breakpoint may be tracked; before it is
\* installed, and between calls, there is none.
Tracking ==
    /\ pc \in {"idle", "add", "probe"} => tracked = {}
    /\ pc \in {"wait", "capture", "remove"} => tracked \subseteq {call.at}

LEMMA TrackingStep == TypeInv /\ Tracking /\ [Next]_vars => Tracking'
  <1> SUFFICES ASSUME TypeInv, Tracking, [Next]_vars PROVE Tracking'
    OBVIOUS
  <1>1. ASSUME pc # "exit", UNCHANGED serial PROVE call'.at = call.at
    BY <1>1, CallSteps DEF Notes, Goes, Begins, TypeInv, TypeOK
  <1>2. CASE Emulator \/ LoseLink \/ UNCHANGED vars \/ PassOver \/ Misread
    BY <1>2 DEF Emulator, Serve, Refuse, Hit, SendPing, LoseLink, PassOver, Misread,
                callVars, vars, Tracking
  <1>3. CASE Installed
    BY <1>1, <1>3 DEF Installed, Tracking
  <1>4. CASE InstallFails \/ Probed \/ LeaveBlock \/ BreakpointClosed \/ CloseTransport
    BY <1>4 DEF InstallFails, Probed, LeaveBlock, BreakpointClosed, CloseTransport, Tracking
  <1>5. CASE Stopped \/ Captured
    <2>1. pc' \in {"capture", "remove"} /\ pc \in {"wait", "capture"}
          /\ UNCHANGED <<tracked, serial>>
      BY <1>5 DEF Stopped, Captured, TakeStop, CaptureOrFinish
    <2>2. QED
      BY <1>1, <2>1 DEF Tracking
  <1>6. CASE ObserveFails
    BY <1>6 DEF ObserveFails, Tracking, callVars
  <1>7. CASE Removed
    BY <1>7 DEF Removed, Tracking
  <1>8. CASE CloseBreakpoint
    BY <1>8 DEF CloseBreakpoint, Tracking
  <1>9. CASE Interrupt
    <2>1. CASE pc \in {"wait", "capture"} /\ pc' = "remove"
      BY <1>1, <1>9, <2>1 DEF Interrupt, Tracking
    <2>2. CASE pc' \in {"exit", "abandoned"}
      BY <2>2 DEF Tracking
    <2>3. QED
      BY <1>9, <2>1, <2>2 DEF Interrupt
  <1>10. ASSUME NEW a \in Addrs, Observe(a) PROVE Tracking'
    BY <1>10 DEF Observe, Tracking
  <1>11. CASE Probe
    BY <1>11 DEF Probe, Tracking
  <1>12. QED
    BY <1>2, <1>3, <1>4, <1>5, <1>6, <1>7, <1>8, <1>9, <1>10, <1>11
       DEF Next, Client, Caller

\* Each observation has taken its own breakpoint back when it ends, whatever
\* ended it (session.py, the finally clause of observe_breakpoint).
THEOREM NothingTrackedWhenIdle == Spec => []NothingTrackedBetweenCalls
  <1>1. Init => Tracking
    BY DEF Init, Tracking
  <1>2. Tracking => NothingTrackedBetweenCalls
    BY DEF Tracking, NothingTrackedBetweenCalls
  <1>3. QED
    BY <1>1, <1>2, TrackingStep, TypeInvariant, PTL DEF Spec

-----------------------------------------------------------------------------
(* A capture is of the stop it reports *)

Marked ==
    /\ \A m \in In(toClient) \cup In(events) : m.kind = "stepping" => m.stop # 0
    /\ \A m \in In(events) : m.kind = "stepping"

NothingCaptured ==
    pc \in {"add", "wait"} => \A r \in call.answers : r.asked # "capture"

\* The CPU stays at the stop whose event the call took: nothing is on its way
\* that resumes it, and the replies to come, or here, are of that stop.
Halted ==
    pc = "capture" /\ call.fresh =>
        /\ stoppedAt # NoAddr /\ stops = call.hit.stop
        /\ \A r \in In(toEmu) : r.kind # "resume"
        /\ \A m \in In(toClient) :
              m.ticket = pending /\ m.kind = "capture" => m.stop = call.hit.stop

OneStop == Marked /\ NothingCaptured /\ Halted /\ CapturesSeeOneStop

LEMMA ClientTakes ==
    TypeInv /\ (Client \/ Caller \/ LoseLink \/ UNCHANGED vars)
    => In(toClient') \subseteq In(toClient)
  <1> SUFFICES ASSUME TypeInv, Client \/ Caller \/ LoseLink \/ UNCHANGED vars
               PROVE  In(toClient') \subseteq In(toClient)
    OBVIOUS
  <1>0. TypeOK /\ toClient \in Seq(Message)
    BY DEF TypeInv, TypeOK
  <1>1. ASSUME Receives \/ Refused \/ Unanswered PROVE In(toClient') \subseteq In(toClient)
    BY <1>0, <1>1, ReceivesTyped, FailsTyped
  <1>2. CASE Misread
    BY <1>0, <1>2, InTail DEF Misread
  <1>3. CASE LoseLink
    BY <1>0, <1>3, InPrefix DEF LoseLink
  <1>4. CASE Hangup \/ UNCHANGED toClient
    BY <1>4, InEmpty DEF Hangup
  <1>5. CASE Client
    BY <1>1, <1>2, <1>4, <1>5
       DEF Client, PassOver, Installed, InstallFails, Stopped, Captured, ObserveFails,
           Removed, Probed, CloseBreakpoint, BreakpointClosed, CloseTransport, Answered,
           Fails
  <1>6. CASE Caller
    BY <1>4, <1>6 DEF Caller, Observe, Probe, LeaveBlock, Interrupt
  <1>7. QED
    BY <1>3, <1>4, <1>5, <1>6 DEF vars

LEMMA MarkedStep == TypeInv /\ Marked /\ [Next]_vars => Marked'
  <1> SUFFICES ASSUME TypeInv, Marked, [Next]_vars PROVE Marked'
    OBVIOUS
  <1>0. /\ TypeOK /\ toEmu \in Seq(Request) /\ toClient \in Seq(Message)
        /\ events \in Seq(Message) /\ Len(events) <= MaxQueued
    BY DEF TypeInv, TypeOK
  <1>1. CASE PassOver
    <2>1. Frame \in Message /\ Frame \in In(toClient) /\ In(toClient') \subseteq In(toClient)
      BY <1>0, <1>1, ReceivesTyped DEF PassOver
    <2>2. In(Keep(events, Frame)) \subseteq In(events) \cup {Frame}
      BY <1>0, <2>1, InKeep
    <2>3. \/ UNCHANGED events
          \/ Frame.kind = "stepping" /\ events' = Keep(events, Frame)
      BY <1>1 DEF PassOver
    <2>4. QED
      BY <2>1, <2>2, <2>3 DEF Marked
  <1>2. CASE Stopped
    <2>1. In(toClient') \subseteq In(toClient)
      BY <1>2, ClientTakes DEF Client
    <2>2. In(events') \subseteq In(events)
      BY <1>0, <1>2, InTail DEF Stopped
    <2>3. QED
      BY <2>1, <2>2 DEF Marked
  <1>3. CASE Emulator
    <2>1. \E m : /\ In(toClient') \subseteq In(toClient) \cup {m}
                 /\ m.kind = "stepping" => m.stop # 0
      <3>1. CASE Serve
        <4> DEFINE r == Head(toEmu)
        <4>1. r \in Request
          BY <1>0, <3>1, InTail DEF Serve
        <4>2. Reply(r, r.kind) \in Message /\ r.kind # "stepping"
          BY <1>0, <4>1, ReplyTyped DEF Request, Kinds
        <4>3. In(Put(toClient, Reply(r, r.kind))) \subseteq In(toClient) \cup {Reply(r, r.kind)}
          BY <1>0, <4>2, InPut
        <4>4. toClient' \in {toClient, Put(toClient, Reply(r, r.kind))}
          BY <3>1 DEF Serve
        <4>5. QED
          BY <4>2, <4>3, <4>4 DEF Reply
      <3>2. CASE Refuse
        <4> DEFINE r == Head(toEmu)
        <4>1. r \in Request
          BY <1>0, <3>2, InTail DEF Refuse
        <4>2. Reply(r, "error") \in Message
          BY <1>0, <4>1, ReplyTyped
        <4>3. In(toClient') \subseteq In(toClient) \cup {Reply(r, "error")}
          BY <1>0, <3>2, <4>2, InPut DEF Refuse
        <4>4. Reply(r, "error").kind # "stepping"
          BY DEF Reply
        <4>5. QED
          BY <4>3, <4>4
      <3>3. CASE Hit
        <4>1. PICK a \in breakpoints : toClient' = Put(toClient, Event("stepping", a, stops + 1))
          BY <3>3 DEF Hit
        <4>2. a \in Addrs /\ stops \in Nat /\ stops + 1 \in Nat
          BY <1>0, <4>1 DEF TypeOK
        <4>3. Event("stepping", a, stops + 1) \in Message
          BY <4>2, EventTyped
        <4>4. In(toClient') \subseteq In(toClient) \cup {Event("stepping", a, stops + 1)}
          BY <1>0, <4>1, <4>3, InPut
        <4>5. Event("stepping", a, stops + 1).stop # 0
          BY <4>2 DEF Event
        <4>6. QED
          BY <4>4, <4>5
      <3>4. CASE SendPing
        <4>1. In(toClient') = {Event("ping", NoAddr, 0)}
          BY <3>4 DEF SendPing, In
        <4>2. QED
          BY <4>1 DEF Event
      <3>5. QED
        BY <1>3, <3>1, <3>2, <3>3, <3>4 DEF Emulator
    <2>2. UNCHANGED events
      BY <1>3 DEF Emulator, Serve, Refuse, Hit, SendPing
    <2>3. QED
      BY <2>1, <2>2 DEF Marked
  <1>4. CASE (Client /\ ~PassOver /\ ~Stopped) \/ Caller \/ LoseLink \/ UNCHANGED vars
    <2>1. UNCHANGED events
      BY <1>4 DEF Client, Misread, Installed, InstallFails, Captured, ObserveFails, Removed,
                  Probed, CloseBreakpoint, BreakpointClosed, CloseTransport, Caller,
                  Observe, Probe, LeaveBlock, Interrupt, LoseLink, vars
    <2>2. In(toClient') \subseteq In(toClient)
      BY <1>4, ClientTakes
    <2>3. QED
      BY <2>1, <2>2 DEF Marked
  <1>5. QED
    BY <1>1, <1>2, <1>3, <1>4 DEF Next

LEMMA NothingCapturedStep == TypeInv /\ NothingCaptured /\ [Next]_vars => NothingCaptured'
  <1> SUFFICES ASSUME TypeInv, NothingCaptured, [Next]_vars, pc' \in {"add", "wait"}
               PROVE  \A r \in call'.answers : r.asked # "capture"
    BY DEF NothingCaptured
  <1>1. CASE Begins
    BY <1>1 DEF Begins, NewCall
  <1>2. CASE ~Begins
    <2>1. pc \in {"add", "wait"}
      BY <1>2 DEF Next, Emulator, Serve, Refuse, Hit, SendPing, LoseLink, vars, Client, PassOver,
                  Misread, Installed, InstallFails, Stopped, TakeStop, CaptureOrFinish,
                  Captured, ObserveFails, Removed, Probed, CloseBreakpoint, BreakpointClosed,
                  CloseTransport, Caller, Observe, Probe, LeaveBlock, Interrupt, Begins
    <2>2. CASE Notes
      BY <2>1, <2>2 DEF Notes, NothingCaptured, Asking, AwaitsReply
    <2>3. CASE Goes
      BY <2>1, <2>3 DEF Goes, NothingCaptured
    <2>4. QED
      BY <1>2, <2>2, <2>3, CallSteps
  <1>3. QED
    BY <1>1, <1>2

LEMMA CapturesStep ==
    TypeInv /\ OneStop /\ [Next]_vars => CapturesSeeOneStop'
  <1> SUFFICES ASSUME TypeInv, OneStop, [Next]_vars, call'.fresh,
                      NEW r \in call'.answers, r.asked = "capture"
               PROVE  r.stop = call'.hit.stop
    BY DEF CapturesSeeOneStop
  <1>1. CASE Begins
    BY <1>1 DEF Begins, NewCall
  <1>2. CASE Notes
    <2>1. /\ call'.hit = call.hit /\ call'.fresh = call.fresh
          /\ Answered /\ pc \in Asking
      BY <1>2 DEF Notes
    <2>2. PICK a \in Answer : /\ call'.answers = call.answers \cup {a}
                              /\ a.asked = pc /\ a.stop = Frame.stop
      BY <1>2 DEF Notes
    <2>3. CASE r \in call.answers
      BY <2>1, <2>3 DEF OneStop, CapturesSeeOneStop
    <2>4. CASE r = a
      <3>1. pc = "capture" /\ call.fresh
        BY <2>1, <2>2, <2>4
      <3>2. Frame \in In(toClient) /\ Frame.ticket = pending /\ Frame.kind # "error"
        BY <2>1, ReceivesTyped DEF Answered, Mine, TypeInv
      <3>3. Frame.kind = "capture"
        BY <2>1, <3>1, <3>2 DEF TypeInv, Tickets, MessageFits
      <3>4. QED
        BY <2>1, <2>2, <2>4, <3>1, <3>2, <3>3 DEF OneStop, Halted
    <2>5. QED
      BY <2>2, <2>3, <2>4
  <1>3. CASE Goes
    <2>1. CASE pc = "wait"
      BY <1>3, <2>1 DEF Goes, OneStop, NothingCaptured
    <2>2. CASE pc # "wait"
      <3>1. /\ call'.hit = call.hit /\ call'.fresh = call.fresh
            /\ call'.answers = call.answers
        BY <1>3, <2>2 DEF Goes
      <3>2. call.fresh /\ r \in call.answers
        BY <3>1
      <3>3. r.stop = call.hit.stop
        BY <3>2 DEF OneStop, CapturesSeeOneStop
      <3>4. QED
        BY <3>1, <3>3
    <2>3. QED
      BY <2>1, <2>2
  <1>4. QED
    BY <1>1, <1>2, <1>3, CallSteps

\* A request that is sent is none that is answered yet.
LEMMA NewTicketUnanswered ==
    ASSUME TypeInv, NEW m \in In(toClient)
    PROVE  m.ticket # ticket
  BY DEF TypeInv, TypeOK, Tickets, MessageFits

LEMMA FinishHalted ==
    ASSUME TypeInv, NEW c \in Call, CaptureOrFinish(c), pc' = "capture",
           In(toClient') \subseteq In(toClient),
           \A r \in In(toEmu) : r.kind # "resume"
    PROVE  /\ \A r \in In(toEmu') : r.kind # "resume"
           /\ \A m \in In(toClient') : m.ticket # pending'
  <1>1. Ask("capture", NoAddr)
    BY DEF CaptureOrFinish
  <1>2. /\ In(toEmu') \subseteq In(toEmu) \cup {Req("capture", ticket, NoAddr)}
        /\ pending' = ticket
    BY <1>1, AskTyped DEF TypeInv, Kinds
  <1>3. Req("capture", ticket, NoAddr).kind # "resume"
    BY DEF Req
  <1>4. QED
    BY <1>2, <1>3, NewTicketUnanswered

LEMMA HaltedStep == TypeInv /\ OneStop /\ [Next]_vars => Halted'
  <1> SUFFICES ASSUME TypeInv, OneStop, [Next]_vars, pc' = "capture", call'.fresh
               PROVE  /\ stoppedAt' # NoAddr /\ stops' = call'.hit.stop
                      /\ \A r \in In(toEmu') : r.kind # "resume"
                      /\ \A m \in In(toClient') :
                            m.ticket = pending' /\ m.kind = "capture" => m.stop = call'.hit.stop
    BY DEF Halted
  <1>0. /\ TypeOK /\ toEmu \in Seq(Request) /\ toClient \in Seq(Message) /\ call \in Call
        /\ pc = "capture" /\ call.fresh =>
              /\ stoppedAt # NoAddr /\ stops = call.hit.stop
              /\ \A r \in In(toEmu) : r.kind # "resume"
              /\ \A m \in In(toClient) :
                    m.ticket = pending /\ m.kind = "capture" => m.stop = call.hit.stop
    BY DEF TypeInv, TypeOK, OneStop, Halted
  <1>1. CASE Serve \/ Refuse
    <2> DEFINE r == Head(toEmu)
    <2>1. r \in Request /\ r \in In(toEmu) /\ In(toEmu') \subseteq In(toEmu)
      BY <1>0, <1>1, InTail DEF Serve, Refuse
    <2>2. UNCHANGED <<pc, call, pending, stops>>
      BY <1>1 DEF Serve, Refuse, callVars, emuVars
    <2>3. r.kind # "resume" /\ UNCHANGED stoppedAt
      BY <1>0, <1>1, <2>1, <2>2 DEF Serve, Refuse, emuVars
    <2>4. PICK k \in {r.kind, "error"} : toClient' = Put(toClient, Reply(r, k))
      BY <1>1, <2>3 DEF Serve, Refuse
    <2>5. Reply(r, k) \in Message
      BY <1>0, <2>1, <2>4, ReplyTyped DEF Request
    <2>6. In(toClient') \subseteq In(toClient) \cup {Reply(r, k)}
      BY <1>0, <2>4, <2>5, InPut
    <2>7. Reply(r, k).kind = "capture" => Reply(r, k).stop = CurrentStop
      BY DEF Reply
    <2>8. QED
      BY <1>0, <2>1, <2>2, <2>3, <2>6, <2>7 DEF CurrentStop
  <1>2. CASE Hit
    BY <1>0, <1>2 DEF Hit, callVars
  <1>3. CASE SendPing
    <2>1. In(toClient') = {Event("ping", NoAddr, 0)}
      BY <1>3 DEF SendPing, In
    <2>2. Event("ping", NoAddr, 0).ticket = 0 /\ UNCHANGED <<pc, pending, call, stoppedAt, stops, toEmu>>
      BY <1>3 DEF Event, NoTicket, SendPing, callVars
    <2>3. pending # 0
      BY <2>2 DEF TypeInv, Tickets, AwaitsReply
    <2>4. QED
      BY <1>0, <2>1, <2>2, <2>3
  <1>4. CASE LoseLink \/ PassOver \/ Misread \/ UNCHANGED vars
    <2>1. In(toClient') \subseteq In(toClient)
      BY <1>4, ClientTakes DEF Client
    <2>2. In(toEmu') \subseteq In(toEmu)
      BY <1>4, InEmpty DEF LoseLink, PassOver, Misread, vars
    <2>3. UNCHANGED <<pc, call, pending, stops, stoppedAt>>
      BY <1>4 DEF LoseLink, PassOver, Misread, vars, callVars, emuVars
    <2>4. QED
      BY <1>0, <2>1, <2>2, <2>3
  <1>5. CASE Stopped
    <2>1. PICK m \in Message : TakeStop(m) /\ m.stop # 0
      <3>1. CASE events # <<>> /\ TakeStop(Head(events))
        <4>1. Head(events) \in Message /\ Head(events) \in In(events)
          BY <1>0, <3>1, InTail DEF TypeOK
        <4>2. QED
          BY <3>1, <4>1 DEF OneStop, Marked
      <3>2. CASE Receives /\ Frame.kind = "stepping" /\ TakeStop(Frame)
        BY <1>0, <3>2, ReceivesTyped DEF OneStop, Marked
      <3>3. QED
        BY <1>5, <3>1, <3>2 DEF Stopped
    <2> DEFINE c == [call EXCEPT !.hit = m, !.fresh = IsFresh(m)]
    <2>2. c \in Call
      BY <1>0, IsFreshTyped, ChangedCall
    <2>3. c.hit = m /\ c.fresh = IsFresh(m)
      BY <1>0 DEF Call
    <2>4. CaptureOrFinish(c)
      BY <2>1 DEF TakeStop
    <2> HIDE DEF c
    <2>5. call'.hit = m /\ IsFresh(m)
      BY <2>2, <2>3, <2>4, FinishCall
    <2>6. CurrentStop = m.stop /\ \A r \in In(toEmu) : r.kind # "resume"
      BY <2>5 DEF IsFresh, In
    <2>7. stoppedAt # NoAddr /\ stops = m.stop /\ UNCHANGED <<stoppedAt, stops>>
      BY <1>5, <2>1, <2>6 DEF CurrentStop, Stopped, emuVars
    <2>8. In(toClient') \subseteq In(toClient)
      BY <1>5, ClientTakes DEF Client
    <2>9. QED
      BY <2>2, <2>4, <2>5, <2>6, <2>7, <2>8, FinishHalted
  <1>6. CASE Captured
    <2>1. Noted \in Call
      BY <1>6, NotedTyped DEF Captured, Asking, AwaitsReply
    <2> DEFINE c == [Noted EXCEPT !.captured = @ + 1]
    <2>2. c \in Call
      BY <2>1 DEF Call
    <2>3. CaptureOrFinish(c) /\ UNCHANGED <<serial, stoppedAt, stops>>
      BY <1>6 DEF Captured, emuVars
    <2>4. In(toClient') \subseteq In(toClient)
      BY <1>6, ClientTakes DEF Client
    <2>5. call'.hit = call.hit /\ call'.fresh = call.fresh /\ pc = "capture"
      <3>1. ~Begins
        BY <2>3 DEF Begins, TypeInv, TypeOK
      <3>2. pc = "capture"
        BY <1>6 DEF Captured
      <3>3. Notes \/ Goes
        BY <3>1, CallSteps
      <3>4. QED
        BY <3>2, <3>3 DEF Notes, Goes
    <2>6. \A r \in In(toEmu) : r.kind # "resume"
      BY <1>0, <2>5
    <2>7. QED
      BY <1>0, <2>2, <2>3, <2>4, <2>5, <2>6, FinishHalted
  <1>7. QED
    BY <1>1, <1>2, <1>3, <1>4, <1>5, <1>6
       DEF Next, Emulator, Client, Installed, InstallFails, ObserveFails, Removed, Probed,
           CloseBreakpoint, BreakpointClosed, CloseTransport, Caller, Observe, Probe,
           LeaveBlock, Interrupt

\* An observation whose stop event was taken at its stop has captured nothing
\* but that stop, however late its answers are (session.py, observe_breakpoint).
THEOREM CapturesAreOfOneStop == Spec => []CapturesSeeOneStop
  <1>1. Init => OneStop
    BY InEmpty DEF Init, NewCall, OneStop, Marked, NothingCaptured, Halted, CapturesSeeOneStop
  <1>2. TypeInv /\ OneStop /\ [Next]_vars => OneStop'
    BY MarkedStep, NothingCapturedStep, HaltedStep, CapturesStep DEF OneStop
  <1>3. OneStop => CapturesSeeOneStop
    BY DEF OneStop
  <1>4. QED
    BY <1>1, <1>2, <1>3, TypeInvariant, PTL DEF Spec

-----------------------------------------------------------------------------
(* What the emulator may hold once it has served what is on its way *)

Adds(r, a) == r.kind = "add" /\ r.at = a
Removes(r, a) == r.kind = "remove" /\ r.at = a

Held(bs, q, a) ==
    \/ a \in bs /\ \A i \in 1 .. Len(q) : ~Removes(q[i], a)
    \/ \E i \in 1 .. Len(q) : Adds(q[i], a) /\ \A j \in i + 1 .. Len(q) : ~Removes(q[j], a)

LEMMA HeldEmpty ==
    ASSUME NEW bs, NEW a
    PROVE  Held(bs, <<>>, a) <=> a \in bs
  BY DEF Held

\* Serving a request, or refusing one, adds nothing that was not to be held.
LEMMA HeldServed ==
    ASSUME NEW q \in Seq(Request), q # <<>>, NEW bs, NEW bs2, NEW a,
           a \in bs2 => (a \in bs /\ ~Removes(Head(q), a)) \/ Adds(Head(q), a),
           Held(bs2, Tail(q), a)
    PROVE  Held(bs, q, a)
  <1>1. /\ Len(q) \in Nat \ {0} /\ Len(Tail(q)) = Len(q) - 1 /\ Head(q) = q[1]
        /\ \A i \in 1 .. Len(q) - 1 : Tail(q)[i] = q[i + 1]
    OBVIOUS
  <1>2. ASSUME NEW n \in 0 .. Len(q) - 1,
               \A j \in n + 1 .. Len(Tail(q)) : ~Removes(Tail(q)[j], a)
        PROVE  \A j \in n + 2 .. Len(q) : ~Removes(q[j], a)
    <2> SUFFICES ASSUME NEW j \in n + 2 .. Len(q) PROVE ~Removes(q[j], a)
      OBVIOUS
    <2>1. j - 1 \in n + 1 .. Len(Tail(q)) /\ j - 1 \in 1 .. Len(q) - 1 /\ (j - 1) + 1 = j
      BY <1>1
    <2>2. Tail(q)[j - 1] = q[j]
      BY <1>1, <2>1
    <2>3. QED
      BY <1>2, <2>1, <2>2
  <1>3. CASE a \in bs2 /\ \A j \in 1 .. Len(Tail(q)) : ~Removes(Tail(q)[j], a)
    <2>1. \A j \in 2 .. Len(q) : ~Removes(q[j], a)
      BY <1>1, <1>2, <1>3
    <2>2. CASE a \in bs /\ ~Removes(q[1], a)
      <3>1. \A j \in 1 .. Len(q) : j = 1 \/ j \in 2 .. Len(q)
        BY <1>1
      <3>2. QED
        BY <2>1, <2>2, <3>1 DEF Held
    <2>3. CASE Adds(q[1], a)
      <3>1. 1 \in 1 .. Len(q) /\ 1 + 1 = 2
        BY <1>1
      <3>2. QED
        BY <2>1, <2>3, <3>1 DEF Held
    <2>4. QED
      BY <1>1, <1>3, <2>2, <2>3
  <1>4. CASE \E i \in 1 .. Len(Tail(q)) :
                 /\ Adds(Tail(q)[i], a)
                 /\ \A j \in i + 1 .. Len(Tail(q)) : ~Removes(Tail(q)[j], a)
    <2>1. PICK i \in 1 .. Len(Tail(q)) :
                 /\ Adds(Tail(q)[i], a)
                 /\ \A j \in i + 1 .. Len(Tail(q)) : ~Removes(Tail(q)[j], a)
      BY <1>4
    <2>2. i \in 1 .. Len(q) - 1 /\ i + 1 \in 1 .. Len(q) /\ i + 2 = (i + 1) + 1
      BY <1>1
    <2>3. \A j \in i + 2 .. Len(q) : ~Removes(q[j], a)
      BY <1>2, <2>1, <2>2
    <2>4. Adds(q[i + 1], a)
      BY <1>1, <2>1, <2>2
    <2>5. QED
      BY <2>2, <2>3, <2>4 DEF Held
  <1>5. QED
    BY <1>3, <1>4 DEF Held

\* A request that is sent comes after all others.
LEMMA HeldAppend ==
    ASSUME NEW q \in Seq(Request), NEW r \in Request, NEW bs, NEW a,
           Held(bs, Append(q, r), a)
    PROVE  ~Removes(r, a) /\ (Held(bs, q, a) \/ Adds(r, a))
  <1>1. /\ Len(q) \in Nat /\ Len(Append(q, r)) = Len(q) + 1
        /\ Append(q, r)[Len(q) + 1] = r
        /\ \A i \in 1 .. Len(q) : Append(q, r)[i] = q[i]
    OBVIOUS
  <1>2. CASE a \in bs /\ \A i \in 1 .. Len(Append(q, r)) : ~Removes(Append(q, r)[i], a)
    <2>1. Len(q) + 1 \in 1 .. Len(Append(q, r))
          /\ \A i \in 1 .. Len(q) : i \in 1 .. Len(Append(q, r))
      BY <1>1
    <2>2. ~Removes(r, a) /\ \A i \in 1 .. Len(q) : ~Removes(q[i], a)
      BY <1>1, <1>2, <2>1
    <2>3. QED
      BY <1>2, <2>2 DEF Held
  <1>3. CASE \E i \in 1 .. Len(Append(q, r)) :
                 /\ Adds(Append(q, r)[i], a)
                 /\ \A j \in i + 1 .. Len(Append(q, r)) : ~Removes(Append(q, r)[j], a)
    <2>1. PICK i \in 1 .. Len(Append(q, r)) :
                 /\ Adds(Append(q, r)[i], a)
                 /\ \A j \in i + 1 .. Len(Append(q, r)) : ~Removes(Append(q, r)[j], a)
      BY <1>3
    <2>2. CASE i = Len(q) + 1
      <3>1. Adds(r, a)
        BY <1>1, <2>1, <2>2
      <3>2. QED
        BY <3>1 DEF Adds, Removes
    <2>3. CASE i \in 1 .. Len(q)
      <3>1. /\ Len(q) + 1 \in i + 1 .. Len(Append(q, r))
            /\ \A j \in i + 1 .. Len(q) : j \in i + 1 .. Len(Append(q, r)) /\ j \in 1 .. Len(q)
        BY <1>1, <2>3
      <3>2. ~Removes(r, a) /\ \A j \in i + 1 .. Len(q) : ~Removes(q[j], a)
        BY <1>1, <2>1, <3>1
      <3>3. QED
        BY <1>1, <2>1, <2>3, <3>2 DEF Held
    <2>4. QED
      BY <1>1, <2>2, <2>3
  <1>4. QED
    BY <1>2, <1>3 DEF Held

LEMMA TailOfAppend ==
    ASSUME NEW q \in Seq(Request), NEW r \in Request
    PROVE  /\ Append(q, r) # <<>>
           /\ q = <<>> => Head(Append(q, r)) = r /\ Tail(Append(q, r)) = <<>>
           /\ q # <<>> => /\ Head(Append(q, r)) = Head(q)
                          /\ Tail(Append(q, r)) = Append(Tail(q), r)
  OBVIOUS

-----------------------------------------------------------------------------
(* What a closed session leaves in the emulator *)

Linked ==
    /\ link = "closed" => pc \in Over
    /\ pc = "closed" => tracked = {}

\* The add request awaited is the last on its way, and nothing before it adds
\* its address; or it has been served, and if it was refused added nothing.
Queued ==
    \E q \in Seq(Request), r \in Request :
        /\ toEmu = Append(q, r) /\ Adds(r, call.at)
        /\ \A x \in In(q) : x.ticket # pending
        /\ ~Held(breakpoints, q, call.at)
        /\ \A m \in In(toClient) : m.ticket # pending

Met ==
    /\ toEmu = <<>>
    /\ \A m \in In(toClient) : m.ticket = pending /\ m.kind = "error" => call.at \notin breakpoints

\* What the session cannot answer for: an add it gave up, a removal that was refused.
Lost == lostAdds \cup denied

Accounted(a) == a \in Lost \/ a \in tracked \/ (pc = "add" /\ a = call.at)

HeldAccounted == \A a : Held(breakpoints, toEmu, a) => Accounted(a)
RemovalSent ==
    pc \in {"remove", "closing"} /\ call.at \notin Lost => ~Held(breakpoints, toEmu, call.at)
AddAwaited == pc = "add" /\ call.at \notin Lost => Queued \/ Met

Leaks == link # "down" => HeldAccounted /\ RemovalSent /\ AddAwaited

LEMMA LinkedStep == TypeInv /\ Linked /\ [Next]_vars => Linked'
  <1> SUFFICES ASSUME TypeInv, Linked, [Next]_vars PROVE Linked'
    OBVIOUS
  <1>1. CASE Emulator \/ LoseLink \/ UNCHANGED vars
    BY <1>1 DEF Emulator, Serve, Refuse, Hit, SendPing, LoseLink, vars, Linked
  <1>2. CASE Client
    BY <1>2 DEF Client, PassOver, Misread, Installed, InstallFails, Stopped, TakeStop,
                CaptureOrFinish, Captured, ObserveFails, Removed, Probed, CloseBreakpoint,
                BreakpointClosed, CloseTransport, Hangup, Over, Linked, Receives, Listens,
                Waiting, AwaitsReply
  <1>3. CASE Caller
    BY <1>3 DEF Caller, Observe, Probe, LeaveBlock, Interrupt, Hangup, Over, Linked
  <1>4. QED
    BY <1>1, <1>2, <1>3 DEF Next

LEMMA SentHolds ==
    ASSUME TypeInv, Linked, pc \notin Over, link # "down", UNCHANGED breakpoints,
           NEW r \in Request, toEmu' = Put(toEmu, r)
    PROVE  /\ toEmu' = Append(toEmu, r)
           /\ \A a : Held(breakpoints', toEmu', a)
                     => ~Removes(r, a) /\ (Held(breakpoints, toEmu, a) \/ Adds(r, a))
  <1>1. toEmu \in Seq(Request) /\ link = "up"
    BY DEF TypeInv, TypeOK, Linked
  <1>2. toEmu' = Append(toEmu, r)
    BY <1>1 DEF Put
  <1>3. QED
    BY <1>1, <1>2, HeldAppend

\* The emulator serves or refuses the next request.
LEMMA ServedLeaks ==
    ASSUME TypeInv, Leaks, link # "down", Serve \/ Refuse
    PROVE  HeldAccounted' /\ RemovalSent' /\ AddAwaited'
  <1> DEFINE h == Head(toEmu)
  <1>1. /\ toEmu \in Seq(Request) /\ toEmu # <<>> /\ toEmu' = Tail(toEmu)
        /\ toClient \in Seq(Message) /\ TypeOK
        /\ HeldAccounted /\ RemovalSent /\ AddAwaited
        /\ UNCHANGED <<pc, call, pending, tracked>> /\ Lost \subseteq Lost'
    BY DEF TypeInv, TypeOK, Leaks, Serve, Refuse, callVars, Lost
  <1>2. h \in Request /\ h \in In(toEmu)
    BY <1>1, InTail
  <1>3. \A a : a \in breakpoints' /\ a \notin Lost'
                => (a \in breakpoints /\ ~Removes(h, a)) \/ Adds(h, a)
    BY DEF Serve, Refuse, Undone, Adds, Removes, emuVars, Lost
  <1>4. \A a : Held(breakpoints', toEmu', a) /\ a \notin Lost' => Held(breakpoints, toEmu, a)
    BY <1>1, <1>3, HeldServed
  <1>5. HeldAccounted' /\ RemovalSent'
    BY <1>1, <1>4 DEF HeldAccounted, RemovalSent, Accounted
  <1>6. ASSUME pc = "add", call.at \notin Lost' PROVE Queued' \/ Met'
    <2>1. PICK q \in Seq(Request), r \in Request :
        /\ toEmu = Append(q, r) /\ Adds(r, call.at)
        /\ \A x \in In(q) : x.ticket # pending
        /\ ~Held(breakpoints, q, call.at)
        /\ \A m \in In(toClient) : m.ticket # pending
      BY <1>1, <1>6 DEF AddAwaited, Queued, Met
    <2>2. \A k \in Kinds \cup {"error"} : 
             In(Put(toClient, Reply(h, k))) \subseteq In(toClient) \cup {Reply(h, k)}
      BY <1>1, <1>2, ReplyTyped, InPut
    <2>3. CASE q = <<>>
      <3>1. h = r /\ toEmu' = <<>> /\ h.kind = "add"
        BY <1>1, <2>1, <2>3, TailOfAppend DEF Adds
      <3>2. CASE Serve
        <4>1. toClient' = Put(toClient, Reply(h, "add"))
          BY <3>1, <3>2 DEF Serve
        <4>2. In(toClient') \subseteq In(toClient) \cup {Reply(h, "add")}
          BY <2>2, <4>1 DEF Kinds
        <4>3. Reply(h, "add").kind # "error"
          BY DEF Reply
        <4>4. QED
          BY <1>1, <2>1, <3>1, <4>2, <4>3 DEF Met
      <3>3. CASE Refuse
        <4>1. call.at \notin breakpoints /\ UNCHANGED breakpoints
          BY <2>1, <2>3, <3>3, HeldEmpty DEF Refuse, emuVars
        <4>2. QED
          BY <1>1, <3>1, <4>1 DEF Met
      <3>4. QED
        BY <3>2, <3>3
    <2>4. CASE q # <<>>
      <3>1. h = Head(q) /\ toEmu' = Append(Tail(q), r)
        BY <1>1, <2>1, <2>4, TailOfAppend
      <3>2. h \in In(q) /\ In(Tail(q)) \subseteq In(q) /\ Tail(q) \in Seq(Request)
        BY <2>4, <3>1, InTail
      <3>3. ~Held(breakpoints', Tail(q), call.at)
        BY <1>3, <1>6, <2>1, <2>4, <3>1, HeldServed
      <3>4. \A m \in In(toClient') : m.ticket # pending
        <4>1. \A k : Reply(h, k).ticket # pending
          BY <2>1, <3>2 DEF Reply
        <4>2. \/ UNCHANGED toClient
              \/ \E k \in Kinds \cup {"error"} : toClient' = Put(toClient, Reply(h, k))
          BY <1>2 DEF Serve, Refuse, Request
        <4>3. QED
          BY <2>1, <2>2, <4>1, <4>2
      <3>5. Queued'
        BY <1>1, <2>1, <3>1, <3>2, <3>3, <3>4 DEF Queued
      <3>6. QED
        BY <3>5
    <2>5. QED
      BY <2>3, <2>4
  <1>7. AddAwaited'
    BY <1>1, <1>6 DEF AddAwaited
  <1>8. QED
    BY <1>5, <1>7

\* A step between two requests: at most an event is added to what comes back.
LEMMA QuietLeaks ==
    ASSUME TypeInv, Leaks, link # "down", NEW m, m.ticket = NoTicket,
           In(toClient') \subseteq In(toClient) \cup {m},
           UNCHANGED <<breakpoints, toEmu, pc, call, pending, tracked, lostAdds, denied>>
    PROVE  HeldAccounted' /\ RemovalSent' /\ AddAwaited'
  <1>1. HeldAccounted' /\ RemovalSent'
    BY DEF Leaks, HeldAccounted, RemovalSent, Accounted, Lost
  <1>2. pc = "add" => m.ticket # pending
    BY DEF TypeInv, Tickets, AwaitsReply, NoTicket
  <1>3. pc = "add" /\ Queued => Queued'
    BY <1>2 DEF Queued
  <1>4. pc = "add" /\ Met => Met'
    BY <1>2 DEF Met
  <1>5. QED
    BY <1>1, <1>3, <1>4 DEF Leaks, AddAwaited, Lost

\* What is held and accounted for stays so.
Kept == \A a : Held(breakpoints, toEmu, a) /\ Accounted(a) => Accounted(a)'

\* A step that sends nothing, and leaves the client between two waits.
LEMMA SilentLeaks ==
    ASSUME Leaks, link # "down", Kept, UNCHANGED <<breakpoints, toEmu>>,
           pc' \notin {"add", "remove", "closing"}
    PROVE  HeldAccounted' /\ RemovalSent' /\ AddAwaited'
  <1>1. HeldAccounted'
    BY DEF Leaks, HeldAccounted, Kept
  <1>2. QED
    BY <1>1 DEF RemovalSent, AddAwaited

\* A step that sends a request, which is no add.
LEMMA SendLeaks ==
    ASSUME TypeInv, Linked, Leaks, link # "down", Kept, pc \notin Over,
           UNCHANGED breakpoints, NEW r \in Request, toEmu' = Put(toEmu, r), r.kind # "add",
           pc' # "add", pc' \in {"remove", "closing"} => Removes(r, call'.at)
    PROVE  HeldAccounted' /\ RemovalSent' /\ AddAwaited'
  <1>1. \A a : Held(breakpoints', toEmu', a) => ~Removes(r, a) /\ Held(breakpoints, toEmu, a)
    BY SentHolds DEF Adds
  <1>2. HeldAccounted'
    BY <1>1 DEF Leaks, HeldAccounted, Kept
  <1>3. RemovalSent'
    BY <1>1 DEF RemovalSent
  <1>4. QED
    BY <1>2, <1>3 DEF AddAwaited

LEMMA AskLeaks ==
    ASSUME TypeInv, Linked, Leaks, link # "down", Kept, pc \notin Over,
           UNCHANGED breakpoints, NEW kind \in {"capture", "remove"},
           NEW a \in Addrs \cup {NoAddr}, Ask(kind, a),
           pc' # "add", pc' \in {"remove", "closing"} => kind = "remove" /\ call'.at = a
    PROVE  HeldAccounted' /\ RemovalSent' /\ AddAwaited'
  <1> DEFINE r == Req(kind, ticket, a)
  <1>1. toEmu' = Put(toEmu, r)
    BY DEF Ask
  <1>2. r \in Request
    BY AskTyped DEF TypeInv, Kinds
  <1>3. r.kind = kind /\ r.at = a
    BY DEF Req
  <1> HIDE DEF r
  <1>4. QED
    BY <1>1, <1>2, <1>3, SendLeaks DEF Removes

LEMMA ResumeLeaks ==
    ASSUME TypeInv, Linked, Leaks, link # "down", Kept, pc \notin Over,
           UNCHANGED breakpoints, Resume, pc' \notin {"add", "remove", "closing"}
    PROVE  HeldAccounted' /\ RemovalSent' /\ AddAwaited'
  <1> DEFINE r == Req("resume", ticket, NoAddr)
  <1>1. toEmu' = Put(toEmu, r)
    BY DEF Resume
  <1>2. r \in Request
    BY ResumeTyped DEF TypeInv
  <1>3. r.kind # "add"
    BY DEF Req
  <1> HIDE DEF r
  <1>4. QED
    BY <1>1, <1>2, <1>3, SendLeaks

\* The next capture, or the removal that ends the observation.
LEMMA FinishLeaks ==
    ASSUME TypeInv, Linked, Leaks, link # "down", pc \in {"wait", "capture"},
           UNCHANGED <<breakpoints, tracked, lostAdds, denied>>, NEW c \in Call, CaptureOrFinish(c)
    PROVE  HeldAccounted' /\ RemovalSent' /\ AddAwaited'
  <1>1. Kept
    BY DEF Kept, Accounted, Lost
  <1>2. pc \notin Over
    BY DEF Over
  <1>3. c.at \in Addrs \cup {NoAddr}
    BY DEF Call
  <1>4. CASE c.captured < Captures
    <2>1. Ask("capture", NoAddr) /\ pc' = "capture"
      BY <1>4 DEF CaptureOrFinish
    <2>2. QED
      BY <1>1, <1>2, <2>1, AskLeaks
  <1>5. CASE ~(c.captured < Captures)
    <2>1. Ask("remove", c.at) /\ pc' = "remove" /\ call' = [c EXCEPT !.observed = TRUE]
      BY <1>5 DEF CaptureOrFinish
    <2>2. call'.at = c.at
      BY <2>1 DEF Call
    <2>3. QED
      BY <1>1, <1>2, <1>3, <2>1, <2>2, AskLeaks
  <1>6. QED
    BY <1>4, <1>5

\* The add request is the call's last, so what is held of its address before
\* it is only what an earlier add that was lost may have left.
LEMMA ObserveLeaks ==
    ASSUME TypeInv, Linked, Tracking, Leaks, link # "down", NEW a \in Addrs, Observe(a)
    PROVE  HeldAccounted' /\ RemovalSent' /\ AddAwaited'
  <1> DEFINE r == [Req("add", ticket, a) EXCEPT !.serial = serial + 1]
  <1>1. /\ TypeOK /\ toEmu \in Seq(Request) /\ serial + 1 \in Nat /\ ticket \in Nat
        /\ HeldAccounted
    BY DEF TypeInv, TypeOK, Leaks
  <1>2. Req("add", ticket, a) \in Request
    BY <1>1, ReqTyped DEF Kinds
  <1>3. r \in Request
    BY <1>1, <1>2, ChangedSerial
  <1>4. r.kind = "add" /\ r.at = a
    BY DEF Req
  <1>5. /\ toEmu' = Put(toEmu, r) /\ pending' = ticket /\ pc' = "add" /\ call'.at = a
        /\ pc = "idle" /\ UNCHANGED <<breakpoints, toClient, tracked, lostAdds, denied>>
    BY DEF Observe, NewCall, emuVars
  <1> HIDE DEF r
  <1>6. pc \notin Over /\ tracked = {}
    BY <1>5 DEF Over, Tracking
  <1>7. /\ toEmu' = Append(toEmu, r)
        /\ \A b : Held(breakpoints', toEmu', b) => Held(breakpoints, toEmu, b) \/ Adds(r, b)
    BY <1>3, <1>5, <1>6, SentHolds
  <1>8. HeldAccounted'
    BY <1>1, <1>4, <1>5, <1>7 DEF HeldAccounted, Accounted, Adds, Lost
  <1>9. RemovalSent'
    BY <1>5 DEF RemovalSent
  <1>10. ASSUME a \notin Lost PROVE Queued'
    <2>1. ~Held(breakpoints', toEmu, a)
      BY <1>1, <1>5, <1>6, <1>10 DEF HeldAccounted, Accounted
    <2>2. \A x \in In(toEmu) : x.ticket # pending'
      BY <1>1, <1>5 DEF TypeInv, Tickets, RequestFits
    <2>3. \A m \in In(toClient') : m.ticket # pending'
      BY <1>5, NewTicketUnanswered
    <2>4. Adds(r, call'.at)
      BY <1>4, <1>5 DEF Adds
    <2>5. QED
      BY <1>1, <1>3, <1>5, <1>7, <2>1, <2>2, <2>3, <2>4 DEF Queued
  <1>11. QED
    BY <1>5, <1>8, <1>9, <1>10 DEF AddAwaited, Lost

\* A refused add is none that the emulator holds.
LEMMA RefusedAdd ==
    ASSUME TypeInv, Leaks, link # "down", pc = "add", Refused, Held(breakpoints, toEmu, call.at)
    PROVE  call.at \in Lost
  <1>1. Frame \in In(toClient) /\ Frame.ticket = pending /\ Frame.kind = "error"
    BY ReceivesTyped DEF Refused, Mine, TypeInv
  <1>2. ~Queued
    BY <1>1 DEF Queued
  <1>3. ~Met
    BY <1>1, HeldEmpty DEF Met
  <1>4. QED
    BY <1>2, <1>3 DEF Leaks, AddAwaited

LEMMA LeaksClient ==
    ASSUME TypeInv, Linked, Leaks, link # "down", Client
    PROVE  HeldAccounted' /\ RemovalSent' /\ AddAwaited'
  <1>0. TypeOK /\ call \in Call /\ call.at \in Addrs \cup {NoAddr}
    BY DEF TypeInv, TypeOK, Call
  <1>1. CASE PassOver \/ Misread
    <2>1. In(toClient') \subseteq In(toClient)
      BY <1>1, ClientTakes DEF Client
    <2>2. UNCHANGED <<breakpoints, toEmu, pc, call, pending, tracked, lostAdds, denied>>
      BY <1>1 DEF PassOver, Misread, emuVars, callVars
    <2>3. NoHit.ticket = NoTicket
      BY DEF NoHit, Event
    <2>4. QED
      BY <2>1, <2>2, <2>3, QuietLeaks
  <1>2. CASE Installed
    <2>1. /\ pc = "add" /\ tracked' = tracked \cup {call.at} /\ Resume /\ pc' = "wait"
          /\ UNCHANGED <<breakpoints, lostAdds, denied>>
      BY <1>2 DEF Installed, emuVars
    <2>2. Kept
      BY <2>1 DEF Kept, Accounted, Lost
    <2>3. QED
      BY <2>1, <2>2, ResumeLeaks DEF Over
  <1>3. CASE InstallFails
    <2>1. pc = "add" /\ pc' = "idle" /\ UNCHANGED <<breakpoints, toEmu, tracked>>
      BY <1>3 DEF InstallFails, emuVars
    <2>2. CASE Refused /\ UNCHANGED <<lostAdds, denied>>
      <3>1. Kept
        BY <2>1, <2>2, RefusedAdd DEF Kept, Accounted, Lost
      <3>2. QED
        BY <2>1, <3>1, SilentLeaks
    <2>3. CASE lostAdds' = lostAdds \cup {call.at} /\ UNCHANGED denied
      <3>1. Kept
        BY <2>1, <2>3 DEF Kept, Accounted, Lost
      <3>2. QED
        BY <2>1, <3>1, SilentLeaks
    <2>4. QED
      BY <1>3, <2>2, <2>3 DEF InstallFails
  <1>4. CASE Stopped
    <2>1. PICK m \in Message : TakeStop(m)
      <3>1. CASE events # <<>> /\ TakeStop(Head(events))
        BY <1>0, <3>1, InTail DEF TypeOK
      <3>2. CASE Receives /\ TakeStop(Frame)
        BY <1>0, <3>2, ReceivesTyped
      <3>3. QED
        BY <1>4, <3>1, <3>2 DEF Stopped
    <2>2. [call EXCEPT !.hit = m, !.fresh = IsFresh(m)] \in Call
      BY <1>0, IsFreshTyped, ChangedCall
    <2>3. pc = "wait" /\ UNCHANGED <<breakpoints, tracked, lostAdds, denied>>
      BY <1>4 DEF Stopped, emuVars
    <2>4. QED
      BY <2>1, <2>2, <2>3, FinishLeaks DEF TakeStop
  <1>5. CASE Captured
    <2>1. Noted \in Call
      BY <1>5, NotedTyped DEF Captured, Asking, AwaitsReply
    <2>2. [Noted EXCEPT !.captured = @ + 1] \in Call
      BY <2>1 DEF Call
    <2>3. pc = "capture" /\ UNCHANGED <<breakpoints, tracked, lostAdds, denied>>
      BY <1>5 DEF Captured, emuVars
    <2>4. CaptureOrFinish([Noted EXCEPT !.captured = @ + 1])
      BY <1>5 DEF Captured
    <2>5. QED
      BY <2>2, <2>3, <2>4, FinishLeaks
  <1>6. CASE ObserveFails
    <2>1. /\ pc \in {"wait", "capture"} /\ Ask("remove", call.at) /\ pc' = "remove"
          /\ UNCHANGED <<breakpoints, tracked, lostAdds, denied, call>>
      BY <1>6 DEF ObserveFails, emuVars, callVars
    <2>2. Kept
      BY <2>1 DEF Kept, Accounted, Lost
    <2>3. QED
      BY <1>0, <2>1, <2>2, AskLeaks DEF Over
  <1>7. CASE Removed
    <2>1. /\ pc = "remove" /\ tracked' = tracked \ {call.at} /\ Resume
          /\ pc' \in {"exit", "idle"} /\ UNCHANGED <<breakpoints, lostAdds, denied>>
      BY <1>7 DEF Removed, emuVars
    <2>2. Kept
      BY <2>1 DEF Kept, Accounted, Lost, Leaks, RemovalSent
    <2>3. QED
      BY <2>1, <2>2, ResumeLeaks DEF Over
  <1>8. CASE Probed \/ CloseTransport
    <2>1. /\ pc # "add" /\ pc' \in {"idle", "closed"}
          /\ UNCHANGED <<breakpoints, toEmu, tracked, lostAdds, denied>>
      BY <1>8 DEF Probed, CloseTransport, emuVars
    <2>2. Kept
      BY <2>1 DEF Kept, Accounted, Lost
    <2>3. QED
      BY <2>1, <2>2, SilentLeaks
  <1>9. CASE CloseBreakpoint
    <2>1. /\ pc = "exit" /\ pc' = "closing" /\ UNCHANGED <<breakpoints, tracked, lostAdds, denied>>
      BY <1>9 DEF CloseBreakpoint, emuVars
    <2>2. PICK a \in tracked : Ask("remove", a) /\ call' = [call EXCEPT !.at = a]
      BY <1>9 DEF CloseBreakpoint
    <2>3. call'.at = a /\ a \in Addrs \cup {NoAddr}
      BY <1>0, <2>2 DEF TypeOK, Call
    <2>4. Kept
      BY <2>1 DEF Kept, Accounted, Lost
    <2>5. QED
      BY <2>1, <2>2, <2>3, <2>4, AskLeaks DEF Over
  <1>10. CASE BreakpointClosed
    <2>1. /\ pc = "closing" /\ tracked' = tracked \ {call.at} /\ pc' = "exit"
          /\ UNCHANGED <<breakpoints, toEmu, lostAdds, denied>>
      BY <1>10 DEF BreakpointClosed, emuVars
    <2>2. Kept
      BY <2>1 DEF Kept, Accounted, Lost, Leaks, RemovalSent
    <2>3. QED
      BY <2>1, <2>2, SilentLeaks
  <1>11. QED
    BY <1>1, <1>2, <1>3, <1>4, <1>5, <1>6, <1>7, <1>8, <1>9, <1>10 DEF Client

LEMMA LeaksCaller ==
    ASSUME TypeInv, Linked, Tracking, Leaks, link # "down", Caller
    PROVE  HeldAccounted' /\ RemovalSent' /\ AddAwaited'
  <1>0. TypeOK /\ call \in Call /\ call.at \in Addrs \cup {NoAddr}
    BY DEF TypeInv, TypeOK, Call
  <1>1. CASE \E a \in Addrs : Observe(a)
    BY <1>1, ObserveLeaks
  <1>2. CASE Probe
    <2> DEFINE r == [Req("probe", ticket, NoAddr) EXCEPT !.serial = serial + 1]
    <2>1. Req("probe", ticket, NoAddr) \in Request
      BY <1>0, ReqTyped DEF Kinds, TypeOK
    <2>2. r \in Request
      <3>1. serial + 1 \in Nat
        BY <1>0 DEF TypeOK
      <3>2. QED
        BY <2>1, <3>1, ChangedSerial
    <2>3. r.kind # "add"
      BY DEF Req
    <2>4. /\ toEmu' = Put(toEmu, r) /\ pc = "idle" /\ pc' = "probe"
          /\ UNCHANGED <<breakpoints, tracked, lostAdds, denied>>
      BY <1>2 DEF Probe, emuVars
    <2> HIDE DEF r
    <2>5. Kept
      BY <2>4 DEF Kept, Accounted, Lost
    <2>6. QED
      BY <2>2, <2>3, <2>4, <2>5, SendLeaks DEF Over
  <1>3. CASE LeaveBlock
    <2>1. /\ pc = "idle" /\ pc' = "exit"
          /\ UNCHANGED <<breakpoints, toEmu, tracked, lostAdds, denied>>
      BY <1>3 DEF LeaveBlock, emuVars
    <2>2. Kept
      BY <2>1 DEF Kept, Accounted, Lost
    <2>3. QED
      BY <2>1, <2>2, SilentLeaks
  <1>4. CASE Interrupt
    <2>1. UNCHANGED <<breakpoints, tracked, denied>>
      BY <1>4 DEF Interrupt, emuVars
    <2>2. CASE /\ pc \in {"wait", "capture"} /\ Ask("remove", call.at) /\ pc' = "remove"
               /\ call' = [call EXCEPT !.interrupted = TRUE] /\ UNCHANGED lostAdds
      <3>1. call'.at = call.at
        BY <1>0, <2>2 DEF Call
      <3>2. Kept
        BY <2>1, <2>2 DEF Kept, Accounted, Lost
      <3>3. QED
        BY <1>0, <2>1, <2>2, <3>1, <3>2, AskLeaks DEF Over
    <2>3. CASE /\ pc' \in {"exit", "abandoned"} /\ UNCHANGED toEmu
               /\ pc = "add" => lostAdds' = lostAdds \cup {call.at}
               /\ pc # "add" => UNCHANGED lostAdds
      <3>1. Kept
        BY <2>1, <2>3 DEF Kept, Accounted, Lost
      <3>2. QED
        BY <2>1, <2>3, <3>1, SilentLeaks
    <2>4. QED
      BY <1>4, <2>2, <2>3 DEF Interrupt
  <1>5. QED
    BY <1>1, <1>2, <1>3, <1>4 DEF Caller

LEMMA LeaksStep == TypeInv /\ Linked /\ Tracking /\ Leaks /\ [Next]_vars => Leaks'
  <1> SUFFICES ASSUME TypeInv, Linked, Tracking, Leaks, [Next]_vars, link' # "down"
               PROVE  HeldAccounted' /\ RemovalSent' /\ AddAwaited'
    BY DEF Leaks
  <1>1. link # "down"
    BY DEF Next, Emulator, Serve, Refuse, Hit, SendPing, LoseLink, vars, Client, PassOver, Misread,
           Installed, InstallFails, Stopped, Captured, ObserveFails, Removed, Probed,
           CloseBreakpoint, BreakpointClosed, CloseTransport, Hangup, Caller, Observe, Probe,
           LeaveBlock, Interrupt
  <1>2. CASE Serve \/ Refuse
    BY <1>1, <1>2, ServedLeaks
  <1>3. CASE Hit
    <2>1. PICK a \in breakpoints : toClient' = Put(toClient, Event("stepping", a, stops + 1))
      BY <1>3 DEF Hit
    <2> DEFINE m == Event("stepping", a, stops + 1)
    <2>2. m \in Message /\ m.ticket = NoTicket
      <3>1. a \in Addrs /\ stops + 1 \in Nat
        BY <2>1 DEF TypeInv, TypeOK
      <3>2. QED
        BY <3>1, EventTyped DEF Event
    <2>3. In(toClient') \subseteq In(toClient) \cup {m}
      BY <2>1, <2>2, InPut DEF TypeInv, TypeOK
    <2>4. UNCHANGED <<breakpoints, toEmu, pc, call, pending, tracked, lostAdds, denied>>
      BY <1>3 DEF Hit, callVars
    <2> HIDE DEF m
    <2>5. QED
      BY <1>1, <2>2, <2>3, <2>4, QuietLeaks
  <1>4. CASE SendPing
    <2> DEFINE m == Event("ping", NoAddr, 0)
    <2>1. In(toClient') \subseteq In(toClient) \cup {m}
      BY <1>4 DEF SendPing, In
    <2>2. m.ticket = NoTicket
      BY DEF Event
    <2>3. UNCHANGED <<breakpoints, toEmu, pc, call, pending, tracked, lostAdds, denied>>
      BY <1>4 DEF SendPing, callVars
    <2> HIDE DEF m
    <2>4. QED
      BY <1>1, <2>1, <2>2, <2>3, QuietLeaks
  <1>5. CASE UNCHANGED vars
    <2>1. NoHit.ticket = NoTicket
      BY DEF NoHit, Event
    <2>2. In(toClient') \subseteq In(toClient) \cup {NoHit}
      BY <1>5 DEF vars
    <2>3. UNCHANGED <<breakpoints, toEmu, pc, call, pending, tracked, lostAdds, denied>>
      BY <1>5 DEF vars
    <2>4. QED
      BY <1>1, <2>1, <2>2, <2>3, QuietLeaks
  <1>6. CASE LoseLink
    BY <1>6 DEF LoseLink
  <1>7. QED
    BY <1>1, <1>2, <1>3, <1>4, <1>5, <1>6, LeaksClient, LeaksCaller DEF Next, Emulator

\* Once a session is closed over a link that held, and its requests are served,
\* the emulator holds none of its breakpoints but those whose add was given up
\* unanswered and those whose removal it refused (session.py, the finally clause
\* of observe_breakpoint, and close).
THEOREM OnlyLostAddsRemain == Spec => []OnlyLostAddsLeak
  <1>1. Init => Linked /\ Tracking /\ Leaks
    BY HeldEmpty DEF Init, Linked, Tracking, Leaks, HeldAccounted, RemovalSent, AddAwaited
  <1>2. TypeInv /\ Linked /\ Tracking /\ Leaks /\ [Next]_vars => Linked' /\ Tracking' /\ Leaks'
    BY LinkedStep, TrackingStep, LeaksStep
  <1>3. Linked /\ Leaks => OnlyLostAddsLeak
    BY HeldEmpty DEF Linked, Leaks, HeldAccounted, Accounted, Lost, OnlyLostAddsLeak, Settled
  <1>4. QED
    BY <1>1, <1>2, <1>3, TypeInvariant, PTL DEF Spec

-----------------------------------------------------------------------------
(* What a closed session leaves of the CPU *)

\* With st the stop the emulator is at and bs its breakpoints: it will be
\* running once it has served q.  Nothing can stop it any more, or a resume is
\* on its way that finds no breakpoint left.
AtRest(bs, st, q) ==
    \/ /\ bs = {} /\ st = NoAddr
       /\ \A i \in 1 .. Len(q) : q[i].kind # "add"
    \/ \E i \in 1 .. Len(q) :
          /\ q[i].kind = "resume"
          /\ \A j \in i + 1 .. Len(q) : q[j].kind # "add"
          /\ \A a : ~Held(bs, SubSeq(q, 1, i - 1), a)

\* The add request awaited is the last on its way, and but for it the CPU will
\* be running; or it has been served, and if it was refused the CPU runs.
AddWaits ==
    \E q \in Seq(Request), r \in Request :
        /\ toEmu = Append(q, r) /\ r.kind = "add"
        /\ \A x \in In(q) : x.ticket # pending
        /\ AtRest(breakpoints, stoppedAt, q)
        /\ \A m \in In(toClient) : m.ticket # pending

AddServed ==
    /\ toEmu = <<>>
    /\ \A m \in In(toClient) :
          m.ticket = pending /\ m.kind = "error" => breakpoints = {} /\ stoppedAt = NoAddr

Undisturbed == link # "down" /\ Lost = {} /\ interrupts = 0

Observing == {"add", "wait", "capture", "remove"}

RestsBetween == pc \notin Observing => AtRest(breakpoints, stoppedAt, toEmu)
RestsBefore == pc = "add" => AddWaits \/ AddServed

Rests == Undisturbed => RestsBetween /\ RestsBefore

LEMMA AtRestServed ==
    ASSUME NEW q \in Seq(Request), q # <<>>, NEW bs, NEW bs2, NEW st, NEW st2,
           \A a : a \in bs2 => (a \in bs /\ ~Removes(Head(q), a)) \/ Adds(Head(q), a),
           st2 \in {st, NoAddr}, Head(q).kind = "resume" => st2 = NoAddr,
           AtRest(bs, st, q)
    PROVE  AtRest(bs2, st2, Tail(q))
  <1>1. /\ Len(q) \in Nat \ {0} /\ Len(Tail(q)) = Len(q) - 1 /\ Head(q) = q[1]
        /\ \A i \in 1 .. Len(q) - 1 : Tail(q)[i] = q[i + 1]
    OBVIOUS
  <1>2. ASSUME bs = {}, Head(q).kind # "add" PROVE bs2 = {}
    BY <1>2 DEF Adds
  <1>3. ASSUME NEW n \in 1 .. Len(q), \A j \in n + 1 .. Len(q) : q[j].kind # "add",
               NEW k \in n .. Len(q) - 1
        PROVE  \A j \in k + 1 .. Len(Tail(q)) : Tail(q)[j].kind # "add"
    BY <1>1, <1>3
  <1>4. CASE bs = {} /\ st = NoAddr /\ \A i \in 1 .. Len(q) : q[i].kind # "add"
    <2>1. Head(q).kind # "add"
      BY <1>1, <1>4
    <2>2. bs2 = {} /\ st2 = NoAddr
      BY <1>2, <1>4, <2>1
    <2>3. \A i \in 1 .. Len(Tail(q)) : Tail(q)[i].kind # "add"
      BY <1>1, <1>4
    <2>4. QED
      BY <2>2, <2>3 DEF AtRest
  <1>5. ASSUME NEW i \in 1 .. Len(q), q[i].kind = "resume",
               \A j \in i + 1 .. Len(q) : q[j].kind # "add",
               \A a : ~Held(bs, SubSeq(q, 1, i - 1), a)
        PROVE  AtRest(bs2, st2, Tail(q))
    <2>1. CASE i = 1
      <3>1. SubSeq(q, 1, i - 1) = <<>>
        BY <2>1
      <3>2. bs = {}
        BY <1>5, <3>1, HeldEmpty
      <3>3. Head(q).kind = "resume"
        BY <1>1, <1>5, <2>1
      <3>4. bs2 = {} /\ st2 = NoAddr
        BY <1>2, <3>2, <3>3
      <3>5. \A j \in 1 .. Len(Tail(q)) : Tail(q)[j].kind # "add"
        BY <1>1, <1>5, <2>1
      <3>6. QED
        BY <3>4, <3>5 DEF AtRest
    <2>2. CASE i # 1
      <3> DEFINE p == SubSeq(q, 1, i - 1)
      <3>1. i - 1 \in 1 .. Len(Tail(q)) /\ i - 1 \in 0 .. Len(q) /\ i - 1 # 0
        BY <1>1, <1>5, <2>2
      <3>2. p \in Seq(Request) /\ Len(p) = i - 1 /\ p # <<>> /\ Head(p) = Head(q)
        BY <1>1, <3>1
      <3>3. Tail(p) = SubSeq(Tail(q), 1, (i - 1) - 1)
        BY <1>1, <3>1, <3>2
      <3> HIDE DEF p
      <3>4. ASSUME NEW a, Held(bs2, Tail(p), a) PROVE FALSE
        <4>1. Held(bs, p, a)
          BY <3>2, <3>4, HeldServed
        <4>2. QED
          BY <1>5, <4>1 DEF p
      <3>5. Tail(q)[i - 1].kind = "resume"
        BY <1>1, <1>5, <3>1
      <3>6. \A j \in (i - 1) + 1 .. Len(Tail(q)) : Tail(q)[j].kind # "add"
        BY <1>1, <1>5, <3>1
      <3>7. QED
        BY <3>1, <3>3, <3>4, <3>5, <3>6 DEF AtRest
    <2>3. QED
      BY <2>1, <2>2
  <1>6. QED
    BY <1>4, <1>5 DEF AtRest

LEMMA AtRestAppend ==
    ASSUME NEW q \in Seq(Request), NEW r \in Request, r.kind # "add", NEW bs, NEW st,
           AtRest(bs, st, q)
    PROVE  AtRest(bs, st, Append(q, r))
  <1>1. /\ Len(q) \in Nat /\ Len(Append(q, r)) = Len(q) + 1
        /\ Append(q, r)[Len(q) + 1] = r
        /\ \A i \in 1 .. Len(q) : Append(q, r)[i] = q[i]
    OBVIOUS
  <1>2. \A n \in Nat : (\A j \in n + 1 .. Len(q) : q[j].kind # "add")
                       => \A j \in n + 1 .. Len(Append(q, r)) : Append(q, r)[j].kind # "add"
    <2> SUFFICES ASSUME NEW n \in Nat, \A j \in n + 1 .. Len(q) : q[j].kind # "add",
                        NEW j \in n + 1 .. Len(Append(q, r))
                 PROVE  Append(q, r)[j].kind # "add"
      OBVIOUS
    <2>1. CASE j = Len(q) + 1
      BY <1>1, <2>1
    <2>2. CASE j # Len(q) + 1
      <3>1. j \in n + 1 .. Len(q) /\ j \in 1 .. Len(q)
        BY <1>1, <2>2
      <3>2. QED
        BY <1>1, <3>1
    <2>3. QED
      BY <2>1, <2>2
  <1>3. CASE bs = {} /\ st = NoAddr /\ \A i \in 1 .. Len(q) : q[i].kind # "add"
    <2>1. 0 \in Nat /\ 0 + 1 = 1
      OBVIOUS
    <2>2. \A i \in 1 .. Len(Append(q, r)) : Append(q, r)[i].kind # "add"
      BY <1>2, <1>3, <2>1
    <2>3. QED
      BY <1>3, <2>2 DEF AtRest
  <1>4. ASSUME NEW i \in 1 .. Len(q), q[i].kind = "resume",
               \A j \in i + 1 .. Len(q) : q[j].kind # "add",
               \A a : ~Held(bs, SubSeq(q, 1, i - 1), a)
        PROVE  AtRest(bs, st, Append(q, r))
    <2>1. i \in Nat /\ i \in 1 .. Len(Append(q, r)) /\ i - 1 \in 0 .. Len(q)
      BY <1>1, <1>4
    <2>2. SubSeq(Append(q, r), 1, i - 1) = SubSeq(q, 1, i - 1)
      BY <1>1, <2>1
    <2>3. Append(q, r)[i].kind = "resume"
      BY <1>1, <1>4
    <2>4. \A j \in i + 1 .. Len(Append(q, r)) : Append(q, r)[j].kind # "add"
      BY <1>2, <1>4, <2>1
    <2>5. QED
      BY <1>4, <2>1, <2>2, <2>3, <2>4 DEF AtRest
  <1>5. QED
    BY <1>3, <1>4 DEF AtRest

\* The resume that ends an observation, once its removal is on its way.
LEMMA AtRestResumed ==
    ASSUME NEW q \in Seq(Request), NEW r \in Request, r.kind = "resume", NEW bs, NEW st,
           \A a : ~Held(bs, q, a)
    PROVE  AtRest(bs, st, Append(q, r))
  <1>1. /\ Len(q) \in Nat /\ Len(Append(q, r)) = Len(q) + 1
        /\ Append(q, r)[Len(q) + 1] = r
        /\ SubSeq(Append(q, r), 1, (Len(q) + 1) - 1) = q
    OBVIOUS
  <1>2. /\ Len(q) + 1 \in 1 .. Len(Append(q, r))
        /\ \A j \in (Len(q) + 1) + 1 .. Len(Append(q, r)) : Append(q, r)[j].kind # "add"
    BY <1>1
  <1>3. QED
    BY <1>1, <1>2 DEF AtRest

\* The emulator serves or refuses the next request.
LEMMA ServedRests ==
    ASSUME TypeInv, RestsBetween, RestsBefore, Lost' = {}, Serve \/ Refuse
    PROVE  RestsBetween' /\ RestsBefore'
  <1> DEFINE h == Head(toEmu)
  <1>1. /\ toEmu \in Seq(Request) /\ toEmu # <<>> /\ toEmu' = Tail(toEmu)
        /\ toClient \in Seq(Message) /\ TypeOK /\ UNCHANGED <<pc, pending>>
    BY DEF TypeInv, TypeOK, Serve, Refuse
  <1>2. h \in Request
    BY <1>1, InTail
  <1>3. \A a : a \in breakpoints' => (a \in breakpoints /\ ~Removes(h, a)) \/ Adds(h, a)
    BY DEF Serve, Refuse, Undone, Adds, Removes, emuVars, Lost
  <1>4. stoppedAt' \in {stoppedAt, NoAddr} /\ (h.kind = "resume" => stoppedAt' = NoAddr)
    BY DEF Serve, Refuse, Undone, emuVars, Lost
  <1>5. RestsBetween'
    <2>1. pc \notin Observing => AtRest(breakpoints', stoppedAt', Tail(toEmu))
      BY <1>1, <1>3, <1>4, AtRestServed DEF RestsBetween
    <2>2. QED
      BY <1>1, <2>1 DEF RestsBetween
  <1>6. ASSUME pc = "add" PROVE AddWaits' \/ AddServed'
    <2>1. PICK q \in Seq(Request), r \in Request :
        /\ toEmu = Append(q, r) /\ r.kind = "add"
        /\ \A x \in In(q) : x.ticket # pending
        /\ AtRest(breakpoints, stoppedAt, q)
        /\ \A m \in In(toClient) : m.ticket # pending
      BY <1>1, <1>6 DEF RestsBefore, AddWaits, AddServed
    <2>2. \A k \in Kinds \cup {"error"} :
             In(Put(toClient, Reply(h, k))) \subseteq In(toClient) \cup {Reply(h, k)}
      BY <1>1, <1>2, ReplyTyped, InPut
    <2>3. CASE q = <<>>
      <3>1. h = r /\ toEmu' = <<>> /\ h.kind = "add"
        BY <1>1, <2>1, <2>3, TailOfAppend
      <3>2. CASE Serve
        <4>1. toClient' = Put(toClient, Reply(h, "add"))
          BY <3>1, <3>2 DEF Serve
        <4>2. In(toClient') \subseteq In(toClient) \cup {Reply(h, "add")}
          BY <2>2, <4>1 DEF Kinds
        <4>3. Reply(h, "add").kind # "error"
          BY DEF Reply
        <4>4. QED
          BY <1>1, <2>1, <3>1, <4>2, <4>3 DEF AddServed
      <3>3. CASE Refuse
        <4>1. breakpoints = {} /\ stoppedAt = NoAddr
          BY <2>1, <2>3, HeldEmpty DEF AtRest
        <4>2. UNCHANGED <<breakpoints, stoppedAt>>
          BY <3>3 DEF Refuse, emuVars
        <4>3. QED
          BY <3>1, <4>1, <4>2 DEF AddServed
      <3>4. QED
        BY <3>2, <3>3
    <2>4. CASE q # <<>>
      <3>1. h = Head(q) /\ toEmu' = Append(Tail(q), r)
        BY <1>1, <2>1, <2>4, TailOfAppend
      <3>2. h \in In(q) /\ In(Tail(q)) \subseteq In(q) /\ Tail(q) \in Seq(Request)
        BY <2>4, <3>1, InTail
      <3>3. AtRest(breakpoints', stoppedAt', Tail(q))
        BY <1>3, <1>4, <2>1, <2>4, <3>1, AtRestServed
      <3>4. \A m \in In(toClient') : m.ticket # pending
        <4>1. \A k : Reply(h, k).ticket # pending
          BY <2>1, <3>2 DEF Reply
        <4>2. \/ UNCHANGED toClient
              \/ \E k \in Kinds \cup {"error"} : toClient' = Put(toClient, Reply(h, k))
          BY <1>2 DEF Serve, Refuse, Request
        <4>3. QED
          BY <2>1, <2>2, <4>1, <4>2
      <3>5. QED
        BY <1>1, <2>1, <3>1, <3>2, <3>3, <3>4 DEF AddWaits
    <2>5. QED
      BY <2>3, <2>4
  <1>7. QED
    BY <1>1, <1>5, <1>6 DEF RestsBefore

\* A stop at a breakpoint, or any other step between two requests.
LEMMA QuietRests ==
    ASSUME TypeInv, RestsBetween, RestsBefore, NEW m, m.ticket = NoTicket,
           In(toClient') \subseteq In(toClient) \cup {m},
           stoppedAt' \in breakpoints \cup {stoppedAt},
           UNCHANGED <<breakpoints, toEmu, pc, pending>>
    PROVE  RestsBetween' /\ RestsBefore'
  <1>1. ASSUME NEW q, AtRest(breakpoints, stoppedAt, q)
        PROVE  AtRest(breakpoints', stoppedAt', q)
    BY <1>1 DEF AtRest
  <1>2. pc = "add" => m.ticket # pending
    BY DEF TypeInv, Tickets, AwaitsReply, NoTicket
  <1>3. pc = "add" /\ AddWaits => AddWaits'
    BY <1>1, <1>2 DEF AddWaits
  <1>4. pc = "add" /\ AddServed => AddServed'
    BY <1>2 DEF AddServed
  <1>5. QED
    BY <1>1, <1>3, <1>4 DEF RestsBetween, RestsBefore

\* A step that sends nothing, and one that sends a request which is no add.
LEMMA SilentRests ==
    ASSUME RestsBetween, UNCHANGED <<breakpoints, stoppedAt, toEmu>>,
           pc \notin Observing, pc' \notin Observing
    PROVE  RestsBetween' /\ RestsBefore'
  BY DEF RestsBetween, RestsBefore, Observing

LEMMA SentRests ==
    ASSUME TypeInv, Linked, link # "down", RestsBetween,
           UNCHANGED <<breakpoints, stoppedAt>>, pc \notin Observing \cup Over,
           pc' \notin Observing, NEW r \in Request, r.kind # "add", toEmu' = Put(toEmu, r)
    PROVE  RestsBetween' /\ RestsBefore'
  <1>1. toEmu \in Seq(Request) /\ toEmu' = Append(toEmu, r)
    BY SentHolds DEF TypeInv, TypeOK
  <1>2. AtRest(breakpoints', stoppedAt', toEmu')
    BY <1>1, AtRestAppend DEF RestsBetween
  <1>3. QED
    BY <1>2 DEF RestsBetween, RestsBefore, Observing

\* A refused add has been served, and changed nothing.
LEMMA InstallFailsRests ==
    ASSUME TypeInv, RestsBefore, InstallFails, Undisturbed'
    PROVE  RestsBetween' /\ RestsBefore'
  <1>1. /\ pc = "add" /\ pc' = "idle" /\ Refused
        /\ UNCHANGED <<breakpoints, stoppedAt, toEmu>>
    BY DEF InstallFails, Undisturbed, Lost, emuVars
  <1>2. Frame \in In(toClient) /\ Frame.ticket = pending /\ Frame.kind = "error"
    BY <1>1, ReceivesTyped DEF Refused, Mine, TypeInv
  <1>3. ~AddWaits
    BY <1>2 DEF AddWaits
  <1>4. toEmu = <<>> /\ breakpoints = {} /\ stoppedAt = NoAddr
    BY <1>1, <1>2, <1>3 DEF RestsBefore, AddServed
  <1>5. AtRest(breakpoints', stoppedAt', toEmu')
    BY <1>1, <1>4 DEF AtRest
  <1>6. QED
    BY <1>1, <1>5 DEF RestsBetween, RestsBefore

LEMMA RemovedRests ==
    ASSUME TypeInv, Linked, Tracking, Leaks, Undisturbed, Removed
    PROVE  RestsBetween' /\ RestsBefore'
  <1> DEFINE r == Req("resume", ticket, NoAddr)
  <1>1. /\ pc = "remove" /\ pc' \in {"idle", "exit"} /\ Resume
        /\ toEmu' = Put(toEmu, r) /\ UNCHANGED breakpoints
    BY DEF Removed, Resume, emuVars
  <1>2. r \in Request /\ r.kind = "resume"
    <2>1. r \in Request
      BY <1>1, ResumeTyped DEF TypeInv
    <2>2. r.kind = "resume"
      BY DEF Req
    <2>3. QED
      BY <2>1, <2>2
  <1> HIDE DEF r
  <1>3. toEmu \in Seq(Request) /\ toEmu' = Append(toEmu, r)
    BY <1>1, <1>2, SentHolds DEF TypeInv, TypeOK, Over, Undisturbed
  <1>4. \A a : ~Held(breakpoints, toEmu, a)
    BY <1>1 DEF Leaks, HeldAccounted, Accounted, RemovalSent, Tracking, Undisturbed
  <1>5. AtRest(breakpoints', stoppedAt', toEmu')
    BY <1>1, <1>2, <1>3, <1>4, AtRestResumed
  <1>6. QED
    BY <1>1, <1>5 DEF RestsBetween, RestsBefore

LEMMA ObserveRests ==
    ASSUME TypeInv, Linked, link # "down", RestsBetween, NEW a \in Addrs, Observe(a)
    PROVE  RestsBetween' /\ RestsBefore'
  <1> DEFINE r == [Req("add", ticket, a) EXCEPT !.serial = serial + 1]
  <1>1. TypeOK /\ toEmu \in Seq(Request) /\ serial + 1 \in Nat /\ ticket \in Nat
    BY DEF TypeInv, TypeOK
  <1>2. Req("add", ticket, a) \in Request
    BY <1>1, ReqTyped DEF Kinds
  <1>3. r \in Request
    BY <1>1, <1>2, ChangedSerial
  <1>4. r.kind = "add"
    BY DEF Req
  <1>5. /\ toEmu' = Put(toEmu, r) /\ pending' = ticket /\ pc' = "add" /\ pc = "idle"
        /\ UNCHANGED <<breakpoints, stoppedAt, toClient>>
    BY DEF Observe, emuVars
  <1> HIDE DEF r
  <1>6. toEmu' = Append(toEmu, r)
    BY <1>3, <1>5, SentHolds DEF Over
  <1>7. AtRest(breakpoints', stoppedAt', toEmu)
    BY <1>5 DEF RestsBetween, Observing
  <1>8. \A x \in In(toEmu) : x.ticket # pending'
    BY <1>1, <1>5 DEF TypeInv, Tickets, RequestFits
  <1>9. \A m \in In(toClient') : m.ticket # pending'
    BY <1>5, NewTicketUnanswered
  <1>10. AddWaits'
    BY <1>1, <1>3, <1>4, <1>6, <1>7, <1>8, <1>9 DEF AddWaits
  <1>11. QED
    BY <1>5, <1>10 DEF RestsBetween, RestsBefore, Observing

LEMMA RestsStep ==
    TypeInv /\ Linked /\ Tracking /\ Leaks /\ Rests /\ [Next]_vars => Rests'
  <1> SUFFICES ASSUME TypeInv, Linked, Tracking, Leaks, Rests, [Next]_vars, Undisturbed'
               PROVE  RestsBetween' /\ RestsBefore'
    BY DEF Rests
  <1>0. Undisturbed /\ ~LoseLink /\ ~Interrupt
    <2>1. link # "down" /\ ~LoseLink
      BY DEF Undisturbed, Next, Emulator, Serve, Refuse, Hit, SendPing, LoseLink, vars, Client,
             PassOver, Misread, Installed, InstallFails, Stopped, Captured, ObserveFails, Removed,
             Probed, CloseBreakpoint, BreakpointClosed, CloseTransport, Hangup, Caller, Observe,
             Probe, LeaveBlock, Interrupt
    <2>2. ~Interrupt
      BY DEF Undisturbed, Interrupt, TypeInv, TypeOK
    <2>3. Lost = {} /\ interrupts = 0
      BY <2>1, <2>2 DEF Undisturbed, Lost, Next, Emulator, Serve, Refuse, Hit, SendPing, vars, Client,
             PassOver, Misread, Installed, InstallFails, Stopped, Captured, ObserveFails, Removed,
             Probed, CloseBreakpoint, BreakpointClosed, CloseTransport, Caller, Observe,
             Probe, LeaveBlock
    <2>4. QED
      BY <2>1, <2>2, <2>3 DEF Undisturbed
  <1>1. link # "down" /\ RestsBetween /\ RestsBefore
    BY <1>0 DEF Rests, Undisturbed
  <1>2. CASE Serve \/ Refuse
    BY <1>1, <1>2, ServedRests DEF Undisturbed
  <1>3. CASE Hit
    <2>1. PICK a \in breakpoints :
              stoppedAt' = a /\ toClient' = Put(toClient, Event("stepping", a, stops + 1))
      BY <1>3 DEF Hit
    <2> DEFINE m == Event("stepping", a, stops + 1)
    <2>2. m \in Message /\ m.ticket = NoTicket
      <3>1. a \in Addrs /\ stops + 1 \in Nat
        BY <2>1 DEF TypeInv, TypeOK
      <3>2. QED
        BY <3>1, EventTyped DEF Event
    <2>3. In(toClient') \subseteq In(toClient) \cup {m}
      BY <2>1, <2>2, InPut DEF TypeInv, TypeOK
    <2>4. UNCHANGED <<breakpoints, toEmu, pc, pending>>
      BY <1>3 DEF Hit
    <2> HIDE DEF m
    <2>5. QED
      BY <1>1, <2>1, <2>2, <2>3, <2>4, QuietRests
  <1>4. CASE SendPing
    <2> DEFINE m == Event("ping", NoAddr, 0)
    <2>1. In(toClient') \subseteq In(toClient) \cup {m}
      BY <1>4 DEF SendPing, In
    <2>2. m.ticket = NoTicket
      BY DEF Event
    <2>3. UNCHANGED <<breakpoints, stoppedAt, toEmu, pc, pending>>
      BY <1>4 DEF SendPing
    <2> HIDE DEF m
    <2>4. QED
      BY <1>1, <2>1, <2>2, <2>3, QuietRests
  <1>5. CASE PassOver \/ Misread \/ UNCHANGED vars
    <2>1. NoHit.ticket = NoTicket
      BY DEF NoHit, Event
    <2>2. In(toClient') \subseteq In(toClient)
      BY <1>5, ClientTakes DEF Client, vars
    <2>3. UNCHANGED <<breakpoints, stoppedAt, toEmu, pc, pending>>
      BY <1>5 DEF PassOver, Misread, emuVars, vars
    <2>4. QED
      BY <1>1, <2>1, <2>2, <2>3, QuietRests
  <1>6. CASE Installed \/ Stopped \/ Captured \/ ObserveFails
    <2>1. pc' \in {"wait", "capture", "remove"}
      BY <1>6 DEF Installed, Stopped, TakeStop, Captured, CaptureOrFinish, ObserveFails
    <2>2. QED
      BY <2>1 DEF RestsBetween, RestsBefore, Observing
  <1>7. CASE InstallFails
    BY <1>1, <1>7, InstallFailsRests
  <1>8. CASE Removed
    BY <1>0, <1>8, RemovedRests
  <1>9. CASE Probed \/ LeaveBlock \/ BreakpointClosed \/ CloseTransport
    <2>1. /\ pc \notin Observing /\ pc' \notin Observing
          /\ UNCHANGED <<breakpoints, stoppedAt, toEmu>>
      BY <1>9 DEF Probed, LeaveBlock, BreakpointClosed, CloseTransport, emuVars, Observing
    <2>2. QED
      BY <1>1, <2>1, SilentRests
  <1>10. ASSUME NEW a \in Addrs, Observe(a) PROVE RestsBetween' /\ RestsBefore'
    BY <1>1, <1>10, ObserveRests
  <1>11. CASE Probe
    <2> DEFINE r == [Req("probe", ticket, NoAddr) EXCEPT !.serial = serial + 1]
    <2>1. Req("probe", ticket, NoAddr) \in Request
      BY ReqTyped DEF Kinds, TypeInv, TypeOK
    <2>2. r \in Request
      <3>1. serial + 1 \in Nat
        BY DEF TypeInv, TypeOK
      <3>2. QED
        BY <2>1, <3>1, ChangedSerial
    <2>3. r.kind # "add"
      BY DEF Req
    <2>4. /\ toEmu' = Put(toEmu, r) /\ pc = "idle" /\ pc' = "probe"
          /\ UNCHANGED <<breakpoints, stoppedAt>>
      BY <1>11 DEF Probe, emuVars
    <2> HIDE DEF r
    <2>5. QED
      BY <1>1, <2>2, <2>3, <2>4, SentRests DEF Over, Observing
  <1>12. CASE CloseBreakpoint
    <2>1. /\ pc = "exit" /\ pc' = "closing" /\ UNCHANGED <<breakpoints, stoppedAt>>
      BY <1>12 DEF CloseBreakpoint, emuVars
    <2>2. PICK a \in tracked : Ask("remove", a)
      BY <1>12 DEF CloseBreakpoint
    <2> DEFINE r == Req("remove", ticket, a)
    <2>3. a \in Addrs \cup {NoAddr}
      BY <2>2 DEF TypeInv, TypeOK
    <2>4. r \in Request /\ r.kind # "add" /\ toEmu' = Put(toEmu, r)
      BY <2>2, <2>3, AskTyped DEF TypeInv, Kinds, Ask, Req
    <2> HIDE DEF r
    <2>5. QED
      BY <1>1, <2>1, <2>4, SentRests DEF Over, Observing
  <1>13. QED
    BY <1>0, <1>2, <1>3, <1>4, <1>5, <1>6, <1>7, <1>8, <1>9, <1>10, <1>11, <1>12
       DEF Next, Emulator, Client, Caller

\* A session that lost no add, was refused no removal or resume and was not
\* interrupted leaves the CPU running once its requests are served (session.py,
\* the resume that ends the finally clause of observe_breakpoint).
THEOREM CpuRunsAtTheEnd == Spec => []CpuLeftRunning
  <1>1. Init => Linked /\ Tracking /\ Leaks /\ Rests
    <2>1. Init => Linked /\ Tracking /\ Leaks
      BY HeldEmpty DEF Init, Linked, Tracking, Leaks, HeldAccounted, RemovalSent, AddAwaited
    <2>2. Init => Rests
      BY DEF Init, Rests, RestsBetween, RestsBefore, AtRest
    <2>3. QED
      BY <2>1, <2>2
  <1>2. TypeInv /\ Linked /\ Tracking /\ Leaks /\ Rests /\ [Next]_vars
        => Linked' /\ Tracking' /\ Leaks' /\ Rests'
    BY LinkedStep, TrackingStep, LeaksStep, RestsStep
  <1>3. Rests => CpuLeftRunning
    BY DEF Rests, Undisturbed, RestsBetween, AtRest, CpuLeftRunning, Settled, Observing, Lost
  <1>4. QED
    BY <1>1, <1>2, <1>3, TypeInvariant, PTL DEF Spec

-----------------------------------------------------------------------------
(* Why a call comes to an end.  What can still be ahead of it is counted; *)
(* the wait for one answer takes no more than the messages that come.      *)

Stage ==
    CASE pc = "exit" -> IF tracked = {} THEN 1 ELSE 3
      [] pc = "closing" -> 2 [] pc = "idle" -> 4 [] pc \in {"probe", "remove"} -> 5
      [] pc = "capture" -> 5 + Captures - call.captured
      [] pc = "wait" -> 6 + Captures [] pc = "add" -> 7 + Captures [] OTHER -> 0

\* A capture is asked for only while one is missing, and close() finds at most
\* one breakpoint to take back: that of the call it has interrupted.
Counted ==
    /\ pc = "capture" => call.captured < Captures
    /\ pc = "exit" => \A a, b \in tracked : a = b
    /\ pc = "closing" => tracked \subseteq {call.at}

Falls == Stage' < Stage
PassesOn == Stage' = Stage /\ toClient # <<>> /\ toClient' = Tail(toClient)

LEMMA StageTyped == TypeOK /\ Counted => Stage \in Nat
  <1> SUFFICES ASSUME TypeOK, Counted PROVE Stage \in Nat
    OBVIOUS
  <1>1. Captures \in Nat /\ call.captured \in Nat
    BY BoundsAssumption DEF TypeOK, Call
  <1>2. CASE pc = "capture"
    BY <1>1, <1>2 DEF Counted, Stage
  <1>3. CASE pc # "capture"
    BY <1>1, <1>3 DEF Stage
  <1>4. QED
    BY <1>2, <1>3

\* The step that asks for the next capture, or ends the observation.
LEMMA FinishCounts ==
    ASSUME NEW c \in Call, CaptureOrFinish(c)
    PROVE  \/ pc' = "capture" /\ call'.captured = c.captured /\ c.captured < Captures
           \/ pc' = "remove"
  BY DEF CaptureOrFinish

\* A stop, or a capture, leaves one capture less to ask for.
LEMMA ObservationFalls ==
    ASSUME TypeInv, Stopped \/ Captured
    PROVE  /\ pc' = "capture" => call'.captured < Captures
           /\ pc' \in {"capture", "remove"}
           /\ Counted => Falls
  <1>0. TypeOK /\ call \in Call /\ Captures \in Nat
    BY BoundsAssumption DEF TypeInv, TypeOK
  <1>1. CASE Stopped
    <2>1. PICK m \in Message : TakeStop(m)
      <3>1. CASE events # <<>> /\ TakeStop(Head(events))
        <4>1. Head(events) \in Message
          BY <1>0, <3>1, InTail DEF TypeOK
        <4>2. QED
          BY <3>1, <4>1
      <3>2. CASE Receives /\ TakeStop(Frame)
        BY <1>0, <3>2, ReceivesTyped
      <3>3. QED
        BY <1>1, <3>1, <3>2 DEF Stopped
    <2> DEFINE c == [call EXCEPT !.hit = m, !.fresh = IsFresh(m)]
    <2>2. c \in Call
      BY <1>0, IsFreshTyped, ChangedCall
    <2>3. CaptureOrFinish(c)
      BY <2>1 DEF TakeStop
    <2> HIDE DEF c
    <2>4. c.captured \in Nat
      BY <2>2 DEF Call
    <2>5. CASE pc' = "capture" /\ call'.captured = c.captured /\ c.captured < Captures
      <3>1. Stage = 6 + Captures
        BY <1>1 DEF Stopped, Stage
      <3>2. Stage' = 5 + Captures - c.captured
        BY <2>5 DEF Stage
      <3>3. QED
        BY <1>0, <2>4, <2>5, <3>1, <3>2 DEF Falls
    <2>6. CASE pc' = "remove"
      <3>1. Stage = 6 + Captures
        BY <1>1 DEF Stopped, Stage
      <3>2. Stage' = 5
        BY <2>6 DEF Stage
      <3>3. QED
        BY <1>0, <2>6, <3>1, <3>2 DEF Falls
    <2>7. QED
      BY <2>2, <2>3, <2>5, <2>6, FinishCounts
  <1>2. CASE Captured
    <2>1. Answered /\ pc = "capture"
      BY <1>2 DEF Captured
    <2>2. PICK a \in Answer : Noted = [call EXCEPT !.answers = call.answers \cup {a}]
      BY <2>1, NotedTyped DEF Asking, AwaitsReply
    <2>3. Noted \in Call /\ Noted.captured = call.captured
      BY <1>0, <2>1, <2>2, NotedTyped DEF Asking, AwaitsReply, Call
    <2> DEFINE c == [Noted EXCEPT !.captured = @ + 1]
    <2>4. c \in Call /\ c.captured = call.captured + 1
      BY <2>3 DEF Call
    <2>5. CaptureOrFinish(c)
      BY <1>2 DEF Captured
    <2> HIDE DEF c
    <2>6. call.captured \in Nat
      BY <1>0 DEF Call
    <2>7. Stage = 5 + Captures - call.captured
      BY <2>1 DEF Stage
    <2>8. CASE pc' = "capture" /\ call'.captured = c.captured /\ c.captured < Captures
      <3>1. Stage' = 5 + Captures - c.captured
        BY <2>8 DEF Stage
      <3>2. QED
        BY <1>0, <2>4, <2>6, <2>7, <2>8, <3>1 DEF Falls
    <2>9. CASE pc' = "remove"
      <3>1. Stage' = 5
        BY <2>9 DEF Stage
      <3>2. Counted => call.captured < Captures
        BY <2>1 DEF Counted
      <3>3. QED
        BY <1>0, <2>6, <2>7, <2>9, <3>1, <3>2 DEF Falls
    <2>10. QED
      BY <2>4, <2>5, <2>8, <2>9, FinishCounts
  <1>3. QED
    BY <1>1, <1>2

LEMMA CountedStep == TypeInv /\ Tracking /\ Counted /\ [Next]_vars => Counted'
  <1> SUFFICES ASSUME TypeInv, Tracking, Counted, [Next]_vars PROVE Counted'
    OBVIOUS
  <1>1. CASE Emulator \/ LoseLink \/ UNCHANGED vars \/ PassOver \/ Misread
    BY <1>1 DEF Emulator, Serve, Refuse, Hit, SendPing, LoseLink, PassOver, Misread,
                callVars, vars, Counted
  <1>2. CASE Installed \/ InstallFails \/ ObserveFails \/ Probed \/ CloseTransport
    BY <1>2 DEF Installed, InstallFails, ObserveFails, Probed, CloseTransport, Counted
  <1>3. CASE Stopped \/ Captured
    BY <1>3, ObservationFalls DEF Counted
  <1>4. CASE Removed
    BY <1>4 DEF Removed, Tracking, Counted
  <1>5. CASE LeaveBlock
    BY <1>5 DEF LeaveBlock, Tracking, Counted
  <1>6. CASE CloseBreakpoint
    <2>1. PICK a \in tracked : call' = [call EXCEPT !.at = a]
      BY <1>6 DEF CloseBreakpoint
    <2>2. call'.at = a
      BY <2>1 DEF TypeInv, TypeOK, Call
    <2>3. QED
      BY <1>6, <2>1, <2>2 DEF CloseBreakpoint, Counted
  <1>7. CASE BreakpointClosed
    BY <1>7 DEF BreakpointClosed, Counted
  <1>8. CASE Interrupt
    <2>1. UNCHANGED tracked
      BY <1>8 DEF Interrupt
    <2>2. CASE pc' \in {"remove", "abandoned"}
      BY <2>2 DEF Counted
    <2>3. CASE pc' = "exit"
      <3>1. pc \in {"idle", "add", "probe", "remove"}
        BY <1>8, <2>3 DEF Interrupt
      <3>2. tracked \subseteq {call.at}
        BY <3>1 DEF Tracking
      <3>3. QED
        BY <2>1, <2>3, <3>2 DEF Counted
    <2>4. QED
      BY <1>8, <2>2, <2>3 DEF Interrupt
  <1>9. ASSUME NEW a \in Addrs, Observe(a) PROVE Counted'
    BY <1>9 DEF Observe, Counted
  <1>10. CASE Probe
    BY <1>10 DEF Probe, Counted
  <1>11. QED
    BY <1>1, <1>2, <1>3, <1>4, <1>5, <1>6, <1>7, <1>8, <1>9, <1>10 DEF Next, Client, Caller

\* Each step of the client brings the call nearer to its end, or takes a
\* message off the connection.
LEMMA ClientFalls ==
    TypeInv /\ Tracking /\ Counted /\ Client => Falls \/ PassesOn
  <1> SUFFICES ASSUME TypeInv, Tracking, Counted, Client PROVE Falls \/ PassesOn
    OBVIOUS
  <1>0. Captures \in Nat
    BY BoundsAssumption
  <1>1. CASE PassOver \/ Misread
    <2>1. toClient # <<>> /\ toClient' = Tail(toClient) /\ UNCHANGED <<pc, tracked, call>>
      BY <1>1 DEF PassOver, Misread, Receives, callVars
    <2>2. QED
      BY <2>1 DEF PassesOn, Stage
  <1>2. CASE Installed
    BY <1>0, <1>2 DEF Installed, Falls, Stage
  <1>3. CASE InstallFails
    BY <1>0, <1>3 DEF InstallFails, Falls, Stage
  <1>4. CASE Stopped \/ Captured
    BY <1>4, ObservationFalls
  <1>5. CASE ObserveFails
    <2>1. Stage' = 5
      BY <1>5 DEF ObserveFails, Stage
    <2>2. CASE pc = "wait"
      BY <1>0, <2>1, <2>2 DEF Falls, Stage
    <2>3. CASE pc = "capture"
      <3>1. call.captured \in Nat /\ call.captured < Captures
        BY <2>3 DEF Counted, TypeInv, TypeOK, Call
      <3>2. Stage = 5 + Captures - call.captured
        BY <2>3 DEF Stage
      <3>3. QED
        BY <1>0, <2>1, <3>1, <3>2 DEF Falls
    <2>4. QED
      BY <1>5, <2>2, <2>3 DEF ObserveFails
  <1>6. CASE Removed
    <2>1. pc = "remove" /\ tracked' = {} /\ pc' \in {"idle", "exit"}
      BY <1>6 DEF Removed, Tracking
    <2>2. QED
      BY <2>1 DEF Falls, Stage
  <1>7. CASE Probed
    BY <1>7 DEF Probed, Falls, Stage
  <1>8. CASE CloseBreakpoint
    BY <1>8 DEF CloseBreakpoint, Falls, Stage
  <1>9. CASE BreakpointClosed
    <2>1. pc = "closing" /\ pc' = "exit" /\ tracked' = {}
      BY <1>9 DEF BreakpointClosed, Counted
    <2>2. QED
      BY <2>1 DEF Falls, Stage
  <1>10. CASE CloseTransport
    BY <1>10 DEF CloseTransport, Falls, Stage
  <1>11. QED
    BY <1>1, <1>2, <1>3, <1>4, <1>5, <1>6, <1>7, <1>8, <1>9, <1>10 DEF Client

\* The emulator and the connection leave the call where it is.
LEMMA EmulatorLeavesStage == Emulator \/ LoseLink => Stage' = Stage
  <1>1. Emulator \/ LoseLink => UNCHANGED <<pc, tracked, call>>
    BY DEF Emulator, Serve, Refuse, Hit, SendPing, LoseLink, callVars
  <1>2. QED
    BY <1>1 DEF Stage

\* The end of the block, or an interrupt, leaves less to do.
LEMMA LeavingFalls ==
    TypeInv /\ Tracking /\ Counted /\ (LeaveBlock \/ Interrupt) => Falls
  <1> SUFFICES ASSUME TypeInv, Tracking, Counted, LeaveBlock \/ Interrupt PROVE Falls
    OBVIOUS
  <1>0. Captures \in Nat
    BY BoundsAssumption
  <1>1. CASE LeaveBlock
    BY <1>1 DEF LeaveBlock, Tracking, Falls, Stage
  <1>2. CASE Interrupt
    <2>1. UNCHANGED tracked
      BY <1>2 DEF Interrupt
    <2>2. CASE pc \in {"wait", "capture"}
      <3>1. Stage' = 5
        BY <1>2, <2>2 DEF Interrupt, Stage
      <3>2. CASE pc = "wait"
        BY <1>0, <3>1, <3>2 DEF Falls, Stage
      <3>3. CASE pc = "capture"
        <4>1. call.captured \in Nat /\ call.captured < Captures
          BY <3>3 DEF Counted, TypeInv, TypeOK, Call
        <4>2. Stage = 5 + Captures - call.captured
          BY <3>3 DEF Stage
        <4>3. QED
          BY <1>0, <3>1, <4>1, <4>2 DEF Falls
      <3>4. QED
        BY <2>2, <3>2, <3>3
    <2>3. CASE pc \in {"idle", "add", "probe", "remove"}
      <3>1. Stage' = IF tracked = {} THEN 1 ELSE 3
        BY <1>2, <2>1, <2>3 DEF Interrupt, Stage
      <3>2. Stage \in Nat /\ Stage > 3
        BY <1>0, <2>3 DEF Stage
      <3>3. QED
        BY <3>1, <3>2 DEF Falls
    <2>4. CASE pc \in {"exit", "closing"}
      <3>1. Stage' = 0
        BY <1>2, <2>4 DEF Interrupt, Stage
      <3>2. Stage \in {1, 2, 3}
        BY <2>4 DEF Stage
      <3>3. QED
        BY <3>1, <3>2 DEF Falls
    <2>5. QED
      BY <1>2, <2>2, <2>3, <2>4 DEF Interrupt
  <1>3. QED
    BY <1>1, <1>2

\* A call comes to an end: it has a number of stages left, which none but its
\* caller can raise, and every step of the client lowers it or takes one of the
\* messages that have come (transport.py, request and wait_for_event;
\* session.py, observe_breakpoint and close).
THEOREM CallsCountDown ==
    Spec => /\ [](Stage \in Nat)
            /\ [][/\ Client => \/ Stage' < Stage
                             \/ /\ Stage' = Stage
                                /\ toClient # <<>> /\ toClient' = Tail(toClient)
                  /\ Emulator \/ LoseLink => Stage' = Stage
                  /\ LeaveBlock \/ Interrupt => Stage' < Stage]_vars
  <1>1. Init => Tracking /\ Counted
    BY DEF Init, Tracking, Counted
  <1>2. TypeInv /\ Tracking /\ Counted /\ [Next]_vars => Tracking' /\ Counted'
    BY TrackingStep, CountedStep
  <1>3. TypeInv /\ Counted => Stage \in Nat
    BY StageTyped DEF TypeInv
  <1>4. TypeInv /\ Tracking /\ Counted =>
          /\ Client => \/ Stage' < Stage
                       \/ /\ Stage' = Stage
                          /\ toClient # <<>> /\ toClient' = Tail(toClient)
          /\ Emulator \/ LoseLink => Stage' = Stage
          /\ LeaveBlock \/ Interrupt => Stage' < Stage
    BY ClientFalls, EmulatorLeavesStage, LeavingFalls DEF Falls, PassesOn
  <1>5. QED
    BY <1>1, <1>2, <1>3, <1>4, TypeInvariant, PTL DEF Spec
=============================================================================
