---------------------------- MODULE WsHubSafety ----------------------------
(***************************************************************************)
(* The safety of the hub, for any number of connections, senders and        *)
(* events, stalled pages included.                                          *)
(***************************************************************************)
EXTENDS WsHubProps, TLAPS

-----------------------------------------------------------------------------
(* The invariant *)

\* What the RWMutex promises its users: the handler that is about to change the
\* map is the one writer, and who walks over the map is a reader.
LockInv ==
  /\ \A c \in Conns : handler[c] \in {"register", "leave"} => writer = c
  /\ \A s \in Senders :
       /\ cast[s].pc \in {"iterate", "write"} => s \in readers
       /\ s \in waiting => cast[s].pc = "rlock"
       /\ cast[s].pc = "write" => cast[s].to \in Conns
       /\ cast[s].pc # "idle" => cast[s].event \in Events

SafeInv == TypeOK /\ LockInv /\ HubKnowsTheServed /\ NoWriteDuringClose

-----------------------------------------------------------------------------
(* Types *)

\* What one assignment to a sender's place leaves behind.
LEMMA CastFacts ==
  ASSUME cast \in [Senders -> Casts], NEW s \in Senders, NEW r \in Casts,
         cast' = [cast EXCEPT ![s] = r]
  PROVE  /\ cast' \in [Senders -> Casts]
         /\ cast'[s] = r
         /\ \A t \in Senders \ {s} : cast'[t] = cast[t]
  OBVIOUS

\* The place of a sender, before and after each of its steps.
LEMMA CastSteps ==
  ASSUME TypeOK, LockInv, NEW s \in Senders
  PROVE  /\ Idle \in Casts
         /\ Broadcast(s) =>
              LET r == [Idle EXCEPT !.pc = "rlock", !.event = events + 1]
              IN  r \in Casts /\ cast' = [cast EXCEPT ![s] = r]
         /\ Enter(s) =>
              LET r == [cast[s] EXCEPT !.pc = "iterate", !.todo = clients]
              IN  r \in Casts /\ cast' = [cast EXCEPT ![s] = r]
         /\ \A c \in Conns : WriteStart(s, c) =>
              LET r == [cast[s] EXCEPT !.pc = "write", !.to = c]
              IN  r \in Casts /\ cast' = [cast EXCEPT ![s] = r]
         /\ (WriteSucceeds(s) \/ WriteFails(s)) =>
              LET r == [cast[s] EXCEPT !.pc = "iterate", !.to = None,
                                       !.todo = @ \ {cast[s].to}]
              IN  r \in Casts /\ cast' = [cast EXCEPT ![s] = r]
         /\ (WritePanics(s) \/ Return(s)) => cast' = [cast EXCEPT ![s] = Idle]
<1> cast[s] \in Casts  BY DEF TypeOK
<1> USE DEF Casts
<1>1. Idle \in Casts  BY DEF Idle
<1>2. Broadcast(s) => [Idle EXCEPT !.pc = "rlock", !.event = events + 1] \in Casts
  <2> HAVE Broadcast(s)
  <2>1. events + 1 \in Events  BY HubAssumption DEF Broadcast, Events, TypeOK
  <2> QED BY <2>1 DEF Idle
<1>3. [cast[s] EXCEPT !.pc = "iterate", !.todo = clients] \in Casts  BY DEF TypeOK
<1>4. \A c \in Conns : [cast[s] EXCEPT !.pc = "write", !.to = c] \in Casts  OBVIOUS
<1>5. [cast[s] EXCEPT !.pc = "iterate", !.to = None, !.todo = @ \ {cast[s].to}] \in Casts
  OBVIOUS
<1>6. Enter(s) => cast' = [cast EXCEPT ![s] = [cast[s] EXCEPT !.pc = "iterate", !.todo = clients]]
  BY DEF TypeOK, Enter
<1>7. \A c \in Conns : WriteStart(s, c) =>
        cast' = [cast EXCEPT ![s] = [cast[s] EXCEPT !.pc = "write", !.to = c]]
  BY DEF TypeOK, WriteStart
<1>8. (WriteSucceeds(s) \/ WriteFails(s)) =>
        cast' = [cast EXCEPT ![s] = [cast[s] EXCEPT !.pc = "iterate", !.to = None,
                                                    !.todo = @ \ {cast[s].to}]]
  BY DEF TypeOK, WriteSucceeds, WriteFails
<1>9. Broadcast(s) =>
        cast' = [cast EXCEPT ![s] = [Idle EXCEPT !.pc = "rlock", !.event = events + 1]]
  BY DEF Broadcast
<1>10. (WritePanics(s) \/ Return(s)) => cast' = [cast EXCEPT ![s] = Idle]
  BY DEF WritePanics, Return
<1> QED
  BY <1>1, <1>2, <1>3, <1>4, <1>5, <1>6, <1>7, <1>8, <1>9, <1>10

\* The same field by field.
LEMMA CastFields ==
  ASSUME TypeOK, LockInv, NEW s \in Senders
  PROVE  /\ Broadcast(s) =>
              /\ cast'[s].pc = "rlock" /\ cast'[s].event = events + 1
              /\ cast'[s].todo = {} /\ cast'[s].to = None
         /\ Enter(s) =>
              /\ cast'[s].pc = "iterate" /\ cast'[s].event = cast[s].event
              /\ cast'[s].todo = clients /\ cast'[s].to = cast[s].to
         /\ \A c \in Conns : WriteStart(s, c) =>
              /\ cast'[s].pc = "write" /\ cast'[s].event = cast[s].event
              /\ cast'[s].todo = cast[s].todo /\ cast'[s].to = c
         /\ (WriteSucceeds(s) \/ WriteFails(s)) =>
              /\ cast'[s].pc = "iterate" /\ cast'[s].event = cast[s].event
              /\ cast'[s].todo = cast[s].todo \ {cast[s].to} /\ cast'[s].to = None
         /\ (WritePanics(s) \/ Return(s)) => cast'[s] = Idle
         /\ (Broadcast(s) \/ SenderStep(s)) =>
              /\ cast' \in [Senders -> Casts]
              /\ \A t \in Senders \ {s} : cast'[t] = cast[t]
<1> DEFINE Moved == /\ cast' \in [Senders -> Casts]
                    /\ \A t \in Senders \ {s} : cast'[t] = cast[t]
<1>0. cast \in [Senders -> Casts] /\ cast[s] \in Casts  BY DEF TypeOK
<1> USE <1>0
<1>1. Broadcast(s) =>
        /\ cast'[s].pc = "rlock" /\ cast'[s].event = events + 1
        /\ cast'[s].todo = {} /\ cast'[s].to = None
        /\ Moved
  <2> HAVE Broadcast(s)
  <2> DEFINE r == [Idle EXCEPT !.pc = "rlock", !.event = events + 1]
  <2>1. r \in Casts /\ cast' = [cast EXCEPT ![s] = r]  BY CastSteps
  <2>2. r.pc = "rlock" /\ r.event = events + 1 /\ r.todo = {} /\ r.to = None
    BY DEF Casts, Idle
  <2> HIDE DEF r
  <2>3. Moved /\ cast'[s] = r  BY <2>1, CastFacts
  <2> QED BY <2>2, <2>3
<1>2. Enter(s) =>
        /\ cast'[s].pc = "iterate" /\ cast'[s].event = cast[s].event
        /\ cast'[s].todo = clients /\ cast'[s].to = cast[s].to
        /\ Moved
  <2> HAVE Enter(s)
  <2> DEFINE r == [cast[s] EXCEPT !.pc = "iterate", !.todo = clients]
  <2>1. r \in Casts /\ cast' = [cast EXCEPT ![s] = r]  BY CastSteps
  <2>2. r.pc = "iterate" /\ r.event = cast[s].event /\ r.todo = clients /\ r.to = cast[s].to
    BY DEF Casts, Idle
  <2> HIDE DEF r
  <2>3. Moved /\ cast'[s] = r  BY <2>1, CastFacts
  <2> QED BY <2>2, <2>3
<1>3. \A c \in Conns : WriteStart(s, c) =>
        /\ cast'[s].pc = "write" /\ cast'[s].event = cast[s].event
        /\ cast'[s].todo = cast[s].todo /\ cast'[s].to = c
        /\ Moved
  <2> TAKE c \in Conns
  <2> HAVE WriteStart(s, c)
  <2> DEFINE r == [cast[s] EXCEPT !.pc = "write", !.to = c]
  <2>1. r \in Casts /\ cast' = [cast EXCEPT ![s] = r]  BY CastSteps
  <2>2. r.pc = "write" /\ r.event = cast[s].event /\ r.todo = cast[s].todo /\ r.to = c
    BY DEF Casts, Idle
  <2> HIDE DEF r
  <2>3. Moved /\ cast'[s] = r  BY <2>1, CastFacts
  <2> QED BY <2>2, <2>3
<1>4. (WriteSucceeds(s) \/ WriteFails(s)) =>
        /\ cast'[s].pc = "iterate" /\ cast'[s].event = cast[s].event
        /\ cast'[s].todo = cast[s].todo \ {cast[s].to} /\ cast'[s].to = None
        /\ Moved
  <2> HAVE (WriteSucceeds(s) \/ WriteFails(s))
  <2> DEFINE r == [cast[s] EXCEPT !.pc = "iterate", !.to = None,
                                  !.todo = @ \ {cast[s].to}]
  <2>1. r \in Casts /\ cast' = [cast EXCEPT ![s] = r]  BY CastSteps
  <2>2. r.pc = "iterate" /\ r.event = cast[s].event /\ r.todo = cast[s].todo \ {cast[s].to} /\ r.to = None
    BY DEF Casts, Idle
  <2> HIDE DEF r
  <2>3. Moved /\ cast'[s] = r  BY <2>1, CastFacts
  <2> QED BY <2>2, <2>3
<1>5. (WritePanics(s) \/ Return(s)) => cast'[s] = Idle /\ Moved
  BY CastSteps, CastFacts
<1> QED BY <1>1, <1>2, <1>3, <1>4, <1>5 DEF SenderStep

\* The lock keeps its types, whatever is done to it.
LEMMA LockTypes ==
  ASSUME TypeOK, NEW c \in Conns, NEW s \in Senders,
         Announce(c) \/ Unlock \/ RLock(s) \/ RUnlock(s)
  PROVE  /\ writer' \in Conns \cup {None}
         /\ readers' \subseteq Senders /\ waiting' \subseteq Senders
<1>1. CASE Announce(c)  BY <1>1 DEF TypeOK, Announce
<1>2. CASE Unlock       BY <1>2 DEF TypeOK, Unlock
<1>3. CASE RLock(s)     BY <1>3 DEF TypeOK, RLock
<1>4. CASE RUnlock(s)   BY <1>4 DEF TypeOK, RUnlock
<1> QED BY <1>1, <1>2, <1>3, <1>4

\* Every step of a handler, a pinger or a browser keeps the types.
LEMMA TypeConn ==
  ASSUME TypeOK, NEW c \in Conns,
         \/ Connect(c) \/ HandlerStep(c) \/ PingEnds(c)
         \/ PeerLeaves(c) \/ PeerStalls(c) \/ PeerResumes(c)
  PROVE  TypeOK'
<1> USE HubAssumption DEF TypeOK, mutex, conn, history
<1>1. CASE Connect(c)       BY <1>1 DEF Connect
<1>2. CASE RegisterLock(c)  BY <1>2 DEF RegisterLock, Announce
<1>3. CASE Register(c)      BY <1>3 DEF Register, Unlock
<1>4. CASE ReadEnds(c)      BY <1>4 DEF ReadEnds
<1>5. CASE LeaveLock(c)     BY <1>5 DEF LeaveLock, Announce
<1>6. CASE Leave(c)         BY <1>6 DEF Leave, Unlock
<1>7. CASE Close(c)         BY <1>7 DEF Close
<1>8. CASE PingEnds(c)      BY <1>8 DEF PingEnds
<1>9. CASE PeerLeaves(c) \/ PeerStalls(c) \/ PeerResumes(c)
  BY <1>9 DEF PeerLeaves, PeerStalls, PeerResumes
<1> QED BY <1>1, <1>2, <1>3, <1>4, <1>5, <1>6, <1>7, <1>8, <1>9 DEF HandlerStep

\* So does every step of a sender.
LEMMA TypeCast ==
  ASSUME TypeOK, LockInv, NEW s \in Senders, Broadcast(s) \/ SenderStep(s)
  PROVE  TypeOK'
<1> cast' \in [Senders -> Casts]  BY CastFields
<1> USE HubAssumption DEF TypeOK, mutex, conn, history
<1>1. CASE Broadcast(s)     BY <1>1 DEF Broadcast, RLock
<1>2. CASE Enter(s)         BY <1>2 DEF Enter
<1>3. CASE \E c \in Conns : WriteStart(s, c)  BY <1>3 DEF WriteStart
<1>4. CASE WriteSucceeds(s)
  <2>1. cast[s].to \in Conns /\ cast[s].event \in Events
    BY <1>4 DEF WriteSucceeds, LockInv
  <2> QED BY <1>4, <2>1 DEF WriteSucceeds
<1>5. CASE WriteFails(s)
  <2>1. cast[s].to \in Conns  BY <1>5 DEF WriteFails, LockInv
  <2> QED BY <1>5, <2>1 DEF WriteFails
<1>6. CASE WritePanics(s)   BY <1>6 DEF WritePanics, RUnlock
<1>7. CASE Return(s)        BY <1>7 DEF Return, RUnlock
<1> QED BY <1>1, <1>2, <1>3, <1>4, <1>5, <1>6, <1>7 DEF SenderStep

-----------------------------------------------------------------------------
(* The lock, the map and the sockets *)

\* No step of a handler, a pinger or a browser breaks the lock, the map or a
\* write: the map changes hands only when no sender is in the loop.
LEMMA SafeConn ==
  ASSUME SafeInv, NEW c \in Conns,
         \/ Connect(c) \/ HandlerStep(c) \/ PingEnds(c)
         \/ PeerLeaves(c) \/ PeerStalls(c) \/ PeerResumes(c)
  PROVE  SafeInv'
<1>1. TypeOK'  BY TypeConn DEF SafeInv
<1>2. cast' = cast
  BY DEF HandlerStep, Connect, RegisterLock, Register, ReadEnds, LeaveLock, Leave, Close,
         PingEnds, PeerLeaves, PeerStalls, PeerResumes
<1>3. LockInv'
  <2> USE <1>2, HubAssumption DEF SafeInv, LockInv, TypeOK, mutex
  <2>1. CASE RegisterLock(c) \/ LeaveLock(c)
    BY <2>1 DEF RegisterLock, LeaveLock, Announce
  <2>2. CASE Register(c) \/ Leave(c)
    BY <2>2 DEF Register, Leave, Unlock, Exclusive
  <2>3. CASE Connect(c) \/ ReadEnds(c) \/ Close(c) \/ PingEnds(c)
    BY <2>3 DEF Connect, ReadEnds, Close, PingEnds
  <2>4. CASE PeerLeaves(c) \/ PeerStalls(c) \/ PeerResumes(c)
    BY <2>4 DEF PeerLeaves, PeerStalls, PeerResumes
  <2> QED BY <2>1, <2>2, <2>3, <2>4 DEF HandlerStep
<1>4. HubKnowsTheServed'
  <2> USE DEF SafeInv, HubKnowsTheServed, TypeOK
  <2>1. CASE RegisterLock(c) \/ LeaveLock(c)  BY <2>1 DEF RegisterLock, LeaveLock
  <2>2. CASE Register(c)  BY <2>2 DEF Register
  <2>3. CASE Leave(c)     BY <2>3 DEF Leave
  <2>4. CASE Connect(c)   BY <2>4 DEF Connect
  <2>5. CASE ReadEnds(c)  BY <2>5 DEF ReadEnds
  <2>6. CASE Close(c)     BY <2>6 DEF Close
  <2>7. CASE PingEnds(c)  BY <2>7 DEF PingEnds
  <2>8. CASE PeerLeaves(c) \/ PeerStalls(c) \/ PeerResumes(c)
    BY <2>8 DEF PeerLeaves, PeerStalls, PeerResumes
  <2> QED BY <2>1, <2>2, <2>3, <2>4, <2>5, <2>6, <2>7, <2>8 DEF HandlerStep
<1>5. NoWriteDuringClose'
  <2> USE <1>2 DEF SafeInv, NoWriteDuringClose, TypeOK
  <2>1. CASE RegisterLock(c) \/ LeaveLock(c)  BY <2>1 DEF RegisterLock, LeaveLock
  <2>2. CASE Register(c) \/ Leave(c)
    BY <2>2 DEF Register, Leave, Exclusive, LockInv
  <2>3. CASE Connect(c) \/ ReadEnds(c) \/ Close(c)  BY <2>3 DEF Connect, ReadEnds, Close
  <2>4. CASE PingEnds(c) \/ PeerLeaves(c) \/ PeerStalls(c) \/ PeerResumes(c)
    BY <2>4 DEF PingEnds, PeerLeaves, PeerStalls, PeerResumes
  <2> QED BY <2>1, <2>2, <2>3, <2>4 DEF HandlerStep
<1> QED BY <1>1, <1>3, <1>4, <1>5 DEF SafeInv

\* Neither does a step of a sender: it only writes to clients of the map, and
\* closes whom it removes.
LEMMA SafeCast ==
  ASSUME SafeInv, NEW s \in Senders, Broadcast(s) \/ SenderStep(s)
  PROVE  SafeInv'
<1>1. TypeOK'  BY TypeCast DEF SafeInv
<1>2. /\ cast' \in [Senders -> Casts]
      /\ \A t \in Senders \ {s} : cast'[t] = cast[t]
  BY CastFields DEF SafeInv
<1>3. handler' = handler /\ peer' = peer /\ writer' = writer
  BY DEF SenderStep, Broadcast, Enter, WriteStart, WriteSucceeds, WriteFails, WritePanics,
         Return, RLock, RUnlock, conn, mutex
<1>4. LockInv'
  <2> SUFFICES ASSUME NEW t \in Senders
               PROVE  /\ cast'[t].pc \in {"iterate", "write"} => t \in readers'
                      /\ t \in waiting' => cast'[t].pc = "rlock"
                      /\ cast'[t].pc = "write" => cast'[t].to \in Conns
                      /\ cast'[t].pc # "idle" => cast'[t].event \in Events
    BY <1>3 DEF LockInv, SafeInv
  <2>1. CASE t # s
    <3>1. readers \ {s} \subseteq readers' /\ waiting' \ {s} \subseteq waiting
      BY DEF SenderStep, Broadcast, Enter, WriteStart, WriteSucceeds, WriteFails, WritePanics,
             Return, RLock, RUnlock, mutex
    <3> QED BY <1>2, <2>1, <3>1 DEF SafeInv, LockInv
  <2>2. CASE t = s
    <3> SafeInv /\ LockInv /\ TypeOK /\ cast'[t] = cast'[s]  BY <2>2 DEF SafeInv
    <3> USE <2>2 DEF LockInv
    <3>1. CASE Broadcast(s)
      <4>1. events + 1 \in Events
        BY <3>1, HubAssumption DEF Broadcast, Events, TypeOK
      <4> QED BY <3>1, <4>1, CastFields
    <3>2. CASE Enter(s)
      <4>1. cast'[s].pc = "iterate" /\ cast'[s].event = cast[s].event
        BY <3>2, CastFields
      <4> QED BY <3>2, <4>1 DEF Enter, mutex
    <3>3. CASE \E c \in Conns : WriteStart(s, c)
      <4> PICK c \in Conns : WriteStart(s, c)  BY <3>3
      <4>1. cast'[s].pc = "write" /\ cast'[s].event = cast[s].event /\ cast'[s].to = c
        BY CastFields
      <4> QED BY <4>1 DEF WriteStart, mutex
    <3>4. CASE WriteSucceeds(s) \/ WriteFails(s)
      <4>1. cast'[s].pc = "iterate" /\ cast'[s].event = cast[s].event
        BY <3>4, CastFields
      <4> QED BY <3>4, <4>1 DEF WriteSucceeds, WriteFails, mutex
    <3>5. CASE WritePanics(s) \/ Return(s)
      <4>1. cast'[s].pc = "idle"  BY <3>5, CastFields DEF Idle
      <4> QED BY <3>5, <4>1 DEF WritePanics, Return, RUnlock
    <3> QED BY <3>1, <3>2, <3>3, <3>4, <3>5 DEF SenderStep
  <2> QED BY <2>1, <2>2
<1>5. HubKnowsTheServed'
  <2> USE <1>3 DEF SafeInv, HubKnowsTheServed, conn
  <2>1. CASE WriteFails(s)
    <3>1. cast[s].to \in Conns  BY <2>1 DEF WriteFails, LockInv
    <3> QED BY <2>1, <3>1 DEF WriteFails, TypeOK
  <2>2. CASE ~WriteFails(s)
    <3>1. clients' = clients /\ socket' = socket
      BY <2>2 DEF SenderStep, Broadcast, Enter, WriteStart, WriteSucceeds, WritePanics, Return
    <3> QED BY <3>1
  <2> QED BY <2>1, <2>2
<1>6. NoWriteDuringClose'
  <2> SUFFICES ASSUME NEW c \in Conns, cast'[s].pc = "write", cast'[s].to = c
               PROVE  handler[c] \in {"reading", "done", "leave"}
    BY <1>2, <1>3 DEF SafeInv, NoWriteDuringClose
  <2>1. PICK d \in Conns : WriteStart(s, d)
    BY CastFields DEF SafeInv, SenderStep, Idle
  <2>2. d = c  BY <2>1, CastFields DEF SafeInv
  <2> QED BY <2>1, <2>2 DEF WriteStart, SafeInv, HubKnowsTheServed
<1> QED BY <1>1, <1>4, <1>5, <1>6 DEF SafeInv

\* The invariant holds of every reachable state.
THEOREM SafeInvHolds == Spec => []SafeInv
<1>1. Init => SafeInv
  <2>1. Init => LockInv /\ HubKnowsTheServed /\ NoWriteDuringClose
    BY DEF Init, LockInv, HubKnowsTheServed, NoWriteDuringClose, Idle
  <2>2. Init => TypeOK
    <3> HAVE Init
    <3>1. Idle \in Casts  BY DEF Idle, Casts
    <3>2. cast \in [Senders -> Casts]  BY <3>1 DEF Init
    <3>3. got \in [Conns -> Seq(Events)] /\ since \in [Conns -> 0 .. MaxEvents]
      BY HubAssumption DEF Init
    <3>4. events \in 0 .. MaxEvents  BY HubAssumption DEF Init
    <3>7. down \in BOOLEAN  BY DEF Init
    <3>5. /\ socket \in [Conns -> {"new", "open", "broken", "closed"}]
          /\ peer \in [Conns -> {"absent", "listening", "stalled", "gone"}]
          /\ handler \in [Conns -> {"none", "upgraded", "register", "reading",
                                    "done", "leave", "closing", "over"}]
          /\ pinger \in [Conns -> BOOLEAN]
      BY DEF Init
    <3>6. /\ clients \subseteq Conns /\ writer \in Conns \cup {None}
          /\ readers \subseteq Senders /\ waiting \subseteq Senders
      BY DEF Init
    <3> QED BY <3>2, <3>3, <3>4, <3>5, <3>6, <3>7 DEF TypeOK
  <2> QED BY <2>1, <2>2 DEF SafeInv
<1>2. SafeInv /\ [Next]_vars => SafeInv'
  <2> SUFFICES ASSUME SafeInv, [Next]_vars PROVE SafeInv'
    OBVIOUS
  <2>1. CASE Next  BY <2>1, SafeConn, SafeCast DEF Next
  <2>2. CASE UNCHANGED vars
    BY <2>2 DEF vars, mutex, conn, history, SafeInv, TypeOK, LockInv, HubKnowsTheServed,
                NoWriteDuringClose
  <2> QED BY <2>1, <2>2
<1> QED BY <1>1, <1>2, PTL DEF Spec

\* Every variable of the hub keeps its type.
THEOREM TypeOKHolds == Spec => []TypeOK
<1>1. SafeInv => TypeOK  BY DEF SafeInv
<1> QED BY <1>1, SafeInvHolds, PTL

\* The hub knows exactly the connections that are being served, however
\* handlers, broadcasts and departures overlap.
THEOREM HubKnowsTheServedHolds == Spec => []HubKnowsTheServed
<1>1. SafeInv => HubKnowsTheServed  BY DEF SafeInv
<1> QED BY <1>1, SafeInvHolds, PTL

\* No broadcast writes to a socket that its handler is about to close.
THEOREM NoWriteDuringCloseHolds == Spec => []NoWriteDuringClose
<1>1. SafeInv => NoWriteDuringClose  BY DEF SafeInv
<1> QED BY <1>1, SafeInvHolds, PTL

-----------------------------------------------------------------------------
(* What the browsers are told *)

\* A broadcast that is under way has an event of its own, and nobody it has still
\* to write to has been told of it.
SaidInv ==
  /\ \A s \in Senders :
       /\ cast[s].pc = "idle" => cast[s] = Idle
       /\ cast[s].event <= events
       /\ cast[s].pc = "write" => cast[s].to \in cast[s].todo
       /\ cast[s].pc = "rlock" => cast[s].todo = {}
  /\ \A s, t \in Senders :
       s # t /\ cast[s].pc # "idle" => cast[s].event # cast[t].event
  /\ \A c \in Conns : \A i \in DOMAIN got[c] :
       /\ got[c][i] <= events
       /\ \A s \in Senders :
            cast[s].pc = "rlock" \/ c \in cast[s].todo => got[c][i] # cast[s].event
  /\ AtMostOnce

\* A successful write makes what was told to one connection longer by one event, and
\* no other step changes what was told.
LEMMA GotSteps ==
  ASSUME SafeInv, NEW s \in Senders
  PROVE  /\ (Broadcast(s) \/ SenderStep(s)) /\ ~WriteSucceeds(s) => got' = got
         /\ WriteSucceeds(s) =>
              LET c == cast[s].to IN
              /\ c \in Conns /\ DOMAIN got'[c] = 1 .. (Len(got[c]) + 1)
              /\ DOMAIN got[c] = 1 .. Len(got[c]) /\ Len(got[c]) \in Nat
              /\ \A i \in 1 .. Len(got[c]) : got'[c][i] = got[c][i]
              /\ got'[c][Len(got[c]) + 1] = cast[s].event
              /\ \A d \in Conns \ {c} : got'[d] = got[d]
<1>1. (Broadcast(s) \/ SenderStep(s)) /\ ~WriteSucceeds(s) => got' = got
  BY DEF SenderStep, Broadcast, Enter, WriteStart, WriteFails, WritePanics, Return, history
<1>2. ASSUME WriteSucceeds(s)
      PROVE  LET c == cast[s].to IN
             /\ c \in Conns /\ DOMAIN got'[c] = 1 .. (Len(got[c]) + 1)
             /\ DOMAIN got[c] = 1 .. Len(got[c]) /\ Len(got[c]) \in Nat
             /\ \A i \in 1 .. Len(got[c]) : got'[c][i] = got[c][i]
             /\ got'[c][Len(got[c]) + 1] = cast[s].event
             /\ \A d \in Conns \ {c} : got'[d] = got[d]
  <2> DEFINE c == cast[s].to
             e == cast[s].event
  <2>1. c \in Conns /\ e \in Events  BY <1>2 DEF WriteSucceeds, SafeInv, LockInv
  <2>2. got \in [Conns -> Seq(Events)]  BY DEF SafeInv, TypeOK
  <2>3. got' = [got EXCEPT ![c] = Append(got[c], e)]
    BY <1>2, <2>1, <2>2 DEF WriteSucceeds
  <2> HIDE DEF c, e
  <2>4. got'[c] = Append(got[c], e) /\ \A d \in Conns \ {c} : got'[d] = got[d]
    BY <2>1, <2>2, <2>3
  <2>5. got[c] \in Seq(Events)  BY <2>1, <2>2
  <2> QED BY <2>1, <2>4, <2>5 DEF c, e
<1> QED BY <1>1, <1>2

\* At first nobody has been told anything.
LEMMA NothingTold == ASSUME Init PROVE \A c \in Conns : DOMAIN got[c] = {}
<1> TAKE c \in Conns
<1>1. got[c] = << >>  BY DEF Init
<1>2. Len(got[c]) = 0 /\ got[c] \in Seq(Events)  BY <1>1
<1> QED BY <1>2

\* A sender's step keeps that nobody is told twice.
LEMMA SaidCast ==
  ASSUME SafeInv, SaidInv, NEW s \in Senders, Broadcast(s) \/ SenderStep(s)
  PROVE  SaidInv'
<1>0. /\ TypeOK /\ LockInv /\ cast \in [Senders -> Casts]
      /\ events \in Nat /\ Idle.event = 0 /\ Idle.pc = "idle" /\ Idle.todo = {}
  BY HubAssumption DEF SafeInv, TypeOK, Idle
<1>1. /\ cast' \in [Senders -> Casts]
      /\ \A t \in Senders \ {s} : cast'[t] = cast[t]
  BY <1>0, CastFields
<1>2. \A t \in Senders : cast[t].event \in Nat /\ cast[t].todo \subseteq Conns
  BY <1>0 DEF Casts, Events
<1>3. \/ events' = events /\ ~Broadcast(s)
      \/ events' = events + 1 /\ Broadcast(s) /\ got' = got
  BY DEF SenderStep, Broadcast, Enter, WriteStart, WriteSucceeds, WriteFails, WritePanics,
         Return, history
<1>4. \/ /\ events' = events /\ cast[s].pc # "idle" /\ cast'[s].event = cast[s].event
         /\ cast'[s].pc \in {"iterate", "write"}
         /\ cast'[s].pc = "write" => cast'[s].to \in cast'[s].todo
         /\ cast[s].pc = "rlock" \/ cast'[s].todo \subseteq cast[s].todo
      \/ events' = events + 1 /\ cast'[s].event = events + 1 /\ cast'[s].pc = "rlock" /\ cast'[s].todo = {}
      \/ events' = events /\ cast'[s] = Idle
  <2>1. CASE Broadcast(s)  BY <2>1, <1>0, CastFields DEF Broadcast
  <2>2. CASE Enter(s)      BY <2>2, <1>0, CastFields DEF Enter
  <2>3. CASE \E c \in Conns : WriteStart(s, c)
    BY <2>3, <1>0, CastFields DEF WriteStart
  <2>4. CASE WriteSucceeds(s) \/ WriteFails(s)
    BY <2>4, <1>0, CastFields DEF WriteSucceeds, WriteFails
  <2>5. CASE WritePanics(s) \/ Return(s)
    BY <2>5, <1>0, CastFields DEF WritePanics, Return
  <2> QED BY <2>1, <2>2, <2>3, <2>4, <2>5 DEF SenderStep
<1>5. \A t \in Senders :
        /\ cast'[t].pc = "idle" => cast'[t] = Idle
        /\ cast'[t].event <= events'
        /\ cast'[t].pc = "write" => cast'[t].to \in cast'[t].todo
        /\ cast'[t].pc = "rlock" => cast'[t].todo = {}
  <2> TAKE t \in Senders
  <2>1. CASE t # s
    BY <1>0, <1>1, <1>2, <1>3, <2>1 DEF SaidInv
  <2>2. CASE t = s
    BY <1>0, <1>2, <1>4, <2>2 DEF SaidInv
  <2> QED BY <2>1, <2>2
<1>6. \A r, t \in Senders :
        r # t /\ cast'[r].pc # "idle" => cast'[r].event # cast'[t].event
  <2> TAKE r, t \in Senders
  <2> HAVE r # t /\ cast'[r].pc # "idle"
  <2>0. \A u \in Senders : cast[u].pc # "idle" => cast[u].event # 0
    BY <1>0 DEF LockInv, Events
  <2>1. CASE r # s /\ t # s  BY <1>1, <2>1 DEF SaidInv
  <2>2. CASE r = s
    <3>1. cast'[t] = cast[t] /\ cast[t].event <= events  BY <1>1, <2>2 DEF SaidInv
    <3> QED BY <1>0, <1>2, <1>4, <2>2, <3>1 DEF SaidInv
  <2>3. CASE t = s
    <3>1. cast'[r] = cast[r] /\ cast[r].event <= events /\ cast[r].event # 0
      BY <1>1, <2>3, <2>0 DEF SaidInv
    <3> QED BY <1>0, <1>1, <1>2, <1>4, <2>3, <3>1 DEF SaidInv
  <2> QED BY <2>1, <2>2, <2>3
<1>7. ASSUME NEW c \in Conns, NEW i \in DOMAIN got'[c]
      PROVE  /\ got'[c][i] <= events'
             /\ \A t \in Senders :
                  cast'[t].pc = "rlock" \/ c \in cast'[t].todo => got'[c][i] # cast'[t].event
  <2>1. CASE i \in DOMAIN got[c] /\ got'[c][i] = got[c][i]
    <3>0. got[c] \in Seq(Events)  BY DEF SafeInv, TypeOK
    <3>4. got[c][i] \in Events  BY <2>1, <3>0
    <3>1. got[c][i] \in Nat  BY <3>4 DEF Events
    <3>2. got'[c][i] <= events'  BY <1>0, <1>3, <2>1, <3>1 DEF SaidInv
    <3>3. ASSUME NEW t \in Senders, cast'[t].pc = "rlock" \/ c \in cast'[t].todo
          PROVE  got[c][i] # cast'[t].event
      <4>1. CASE t # s  BY <1>1, <2>1, <3>3, <4>1 DEF SaidInv
      <4>2. CASE t = s
        <5>1. got[c][i] <= events  BY <2>1 DEF SaidInv
        <5> QED BY <1>0, <1>4, <2>1, <3>1, <3>3, <4>2, <5>1 DEF SaidInv
      <4> QED BY <4>1, <4>2
    <3> QED BY <2>1, <3>2, <3>3
  <2>2. CASE ~(i \in DOMAIN got[c] /\ got'[c][i] = got[c][i])
    <3>0. WriteSucceeds(s) /\ c = cast[s].to  BY <2>2, GotSteps
    <3>5. i \in 1 .. (Len(got[c]) + 1) /\ Len(got[c]) \in Nat  BY <3>0, GotSteps
    <3>6. i \notin 1 .. Len(got[c])  BY <2>2, <3>0, GotSteps
    <3>7. i = Len(got[c]) + 1  BY <3>5, <3>6
    <3>1. WriteSucceeds(s) /\ c = cast[s].to /\ got'[c][i] = cast[s].event
      BY <3>0, <3>7, GotSteps
    <3>2. cast'[s].todo = cast[s].todo \ {c} /\ cast'[s].pc = "iterate" /\ cast[s].pc = "write"
      BY <1>0, <3>1, CastFields DEF WriteSucceeds
    <3>3. events' = events  BY <3>1 DEF WriteSucceeds
    <3>4. \A t \in Senders \ {s} : cast'[t].event # cast[s].event
      BY <1>1, <3>2 DEF SaidInv
    <3> QED BY <3>1, <3>2, <3>3, <3>4 DEF SaidInv
  <2> QED BY <2>1, <2>2
<1>8. AtMostOnce'
  <2>1. CASE ~WriteSucceeds(s)  BY <2>1, GotSteps DEF SaidInv, AtMostOnce
  <2>2. CASE WriteSucceeds(s)
    <3> DEFINE c == cast[s].to
               n == Len(got[c])
    <3>1. c \in cast[s].todo  BY <2>2 DEF WriteSucceeds, SaidInv
    <3>2. \A i \in 1 .. n : got[c][i] # cast[s].event
      BY <2>2, <3>1, GotSteps DEF SaidInv
    <3>3. \A i, j \in 1 .. n : i # j => got[c][i] # got[c][j]
      BY <2>2, GotSteps DEF SaidInv, AtMostOnce
    <3>6. /\ DOMAIN got'[c] = 1 .. (n + 1) /\ n \in Nat
          /\ \A i \in 1 .. n : got'[c][i] = got[c][i]
          /\ got'[c][n + 1] = cast[s].event
      BY <2>2, GotSteps
    <3>4. \A i, j \in DOMAIN got'[c] : i # j => got'[c][i] # got'[c][j]
      <4> HIDE DEF c, n
      <4> TAKE i, j \in DOMAIN got'[c]
      <4>1. i \in 1 .. n \/ i = n + 1  BY <3>6
      <4>2. j \in 1 .. n \/ j = n + 1  BY <3>6
      <4> QED BY <3>2, <3>3, <3>6, <4>1, <4>2
    <3>5. ASSUME NEW d \in Conns \ {c}
          PROVE  \A i, j \in DOMAIN got'[d] : i # j => got'[d][i] # got'[d][j]
      BY <2>2, GotSteps DEF SaidInv, AtMostOnce
    <3> HIDE DEF c, n
    <3> QED BY <3>4, <3>5 DEF AtMostOnce
  <2> QED BY <2>1, <2>2
<1> QED BY <1>5, <1>6, <1>7, <1>8 DEF SaidInv

\* The steps of handlers, pingers and browsers neither broadcast nor write.
LEMMA ConnIsSilent ==
  ASSUME NEW c \in Conns,
         \/ Connect(c) \/ HandlerStep(c) \/ PingEnds(c)
         \/ PeerLeaves(c) \/ PeerStalls(c) \/ PeerResumes(c)
  PROVE  cast' = cast /\ events' = events /\ got' = got
BY DEF HandlerStep, Connect, RegisterLock, Register, ReadEnds, LeaveLock, Leave, Close,
       PingEnds, PeerLeaves, PeerStalls, PeerResumes, history

\* Every event that is on its way or was heard has been announced.
LEMMA SaidInvHolds == Spec => []SaidInv
<1>1. Init => SaidInv
  <2> SUFFICES ASSUME Init PROVE SaidInv
    OBVIOUS
  <2>1. \A s \in Senders : cast[s] = Idle  BY DEF Init
  <2>2. \A c \in Conns : DOMAIN got[c] = {}  BY NothingTold
  <2>3. events = 0  BY DEF Init
  <2> QED BY <2>1, <2>2, <2>3 DEF SaidInv, AtMostOnce, Idle
<1>2. SafeInv /\ SaidInv /\ [Next]_vars => SaidInv'
  <2> SUFFICES ASSUME SafeInv, SaidInv, [Next]_vars PROVE SaidInv'
    OBVIOUS
  <2>1. ASSUME cast' = cast, events' = events, got' = got
        PROVE  SaidInv'
    BY <2>1 DEF SaidInv, AtMostOnce
  <2>2. CASE Next  BY <2>1, <2>2, ConnIsSilent, SaidCast DEF Next
  <2>3. CASE UNCHANGED vars  BY <2>1, <2>3 DEF vars, history
  <2> QED BY <2>2, <2>3
<1> QED BY <1>1, <1>2, SafeInvHolds, PTL DEF Spec

\* No browser is told of the same event twice, however many broadcasts overlap.
THEOREM AtMostOnceHolds == Spec => []AtMostOnce
<1>1. SaidInv => AtMostOnce  BY DEF SaidInv
<1> QED BY <1>1, SaidInvHolds, PTL

-----------------------------------------------------------------------------
(* One sender at a time *)

\* Broadcasts do not overlap when one goroutine makes them all.
OneCast == \A s, t \in Senders : s = t

\* The broadcast under way is the last one, and a client that has not heard of an
\* event is on the list of a broadcast that is under way.
TellInv ==
  /\ \A s \in Senders : cast[s].pc # "idle" => cast[s].event = events
  /\ \A c \in clients : \A e \in (since[c] + 1) .. events :
       \/ e \in Heard(c)
       \/ \E s \in Senders :
            cast[s].event = e /\ (cast[s].pc = "rlock" \/ c \in cast[s].todo)

\* The steps of a connection and of its page cost no client an event.
LEMMA TellConn ==
  ASSUME SafeInv, TellInv, NEW c \in Conns,
         \/ Connect(c) \/ HandlerStep(c) \/ PingEnds(c)
         \/ PeerLeaves(c) \/ PeerStalls(c) \/ PeerResumes(c)
  PROVE  TellInv'
<1>1. cast' = cast /\ events' = events /\ got' = got  BY ConnIsSilent
<1>2. ASSUME NEW d \in clients', NEW e \in (since'[d] + 1) .. events
      PROVE  d \in clients /\ since'[d] = since[d]
  <2>1. CASE Register(c)
    <3>1. clients' = clients \cup {c} /\ since' = [since EXCEPT ![c] = events]
      BY <2>1 DEF Register
    <3>2. events \in Nat /\ since \in [Conns -> 0 .. MaxEvents] /\ clients \subseteq Conns
      BY HubAssumption DEF SafeInv, TypeOK
    <3>3. CASE d = c
      <4>1. since'[d] = events  BY <3>1, <3>2, <3>3
      <4> QED BY <3>2, <4>1
    <3> QED BY <3>1, <3>2, <3>3
  <2>2. CASE ~Register(c)
    <3>1. since' = since /\ clients' \subseteq clients
      BY <2>2 DEF HandlerStep, Connect, RegisterLock, ReadEnds, LeaveLock, Leave, Close,
         PingEnds, PeerLeaves, PeerStalls, PeerResumes, history
    <3> QED BY <3>1
  <2> QED BY <2>1, <2>2
<1> QED BY <1>1, <1>2 DEF TellInv, Heard

\* The steps of a broadcast cost no client an event.
LEMMA TellCast ==
  ASSUME OneCast, SafeInv, SaidInv, TellInv, NEW s \in Senders, Broadcast(s) \/ SenderStep(s)
  PROVE  TellInv'
<1>0. /\ TypeOK /\ LockInv /\ events \in Nat /\ since' = since
      /\ \A t \in Senders : t = s
  BY HubAssumption DEF SafeInv, TypeOK, OneCast, SenderStep, Broadcast, Enter, WriteStart,
     WriteSucceeds, WriteFails, WritePanics, Return, history
<1>1. \A t \in Senders : cast'[t].pc # "idle" => cast'[t].event = events'
  <2>1. CASE Broadcast(s)  BY <1>0, <2>1, CastFields DEF Broadcast
  <2>2. CASE Enter(s)      BY <1>0, <2>2, CastFields DEF Enter, TellInv
  <2>3. CASE \E c \in Conns : WriteStart(s, c)
    BY <1>0, <2>3, CastFields DEF WriteStart, TellInv
  <2>4. CASE WriteSucceeds(s) \/ WriteFails(s)
    BY <1>0, <2>4, CastFields DEF WriteSucceeds, WriteFails, TellInv
  <2>5. CASE WritePanics(s) \/ Return(s)  BY <1>0, <2>5, CastFields DEF Idle
  <2> QED BY <2>1, <2>2, <2>3, <2>4, <2>5 DEF SenderStep
<1>2. ASSUME NEW c \in clients', NEW e \in (since[c] + 1) .. events'
      PROVE  \/ e \in Heard(c)'
             \/ cast'[s].event = e /\ (cast'[s].pc = "rlock" \/ c \in cast'[s].todo)
  <2>0. c \in clients /\ c \in Conns
    BY <1>0 DEF TypeOK, SenderStep, Broadcast, Enter, WriteStart, WriteSucceeds, WriteFails,
       WritePanics, Return
  <2>1. CASE Broadcast(s)
    <3>1. cast'[s].event = events + 1 /\ cast'[s].pc = "rlock"  BY <1>0, <2>1, CastFields
    <3>2. events' = events + 1 /\ got' = got /\ cast[s].pc = "idle"
      BY <2>1 DEF Broadcast, history
    <3>3. CASE e = events + 1  BY <3>1, <3>3
    <3>4. CASE e # events + 1
      <4>1. e \in (since[c] + 1) .. events
        BY <1>0, <2>0, <3>2, <3>4 DEF TypeOK
      <4>2. cast[s] = Idle  BY <3>2 DEF SaidInv
      <4>3. e \in Heard(c)
        BY <1>0, <2>0, <4>1, <4>2 DEF TellInv, Idle
      <4> QED BY <3>2, <4>3 DEF Heard
    <3> QED BY <3>3, <3>4
  <2>2. CASE SenderStep(s)
    <3>1. events' = events
      BY <2>2 DEF SenderStep, Enter, WriteStart, WriteSucceeds, WriteFails, WritePanics, Return
    <3>2. \/ e \in Heard(c)
          \/ cast[s].event = e /\ (cast[s].pc = "rlock" \/ c \in cast[s].todo)
      BY <1>0, <1>2, <2>0, <3>1 DEF TellInv
    <3>3. ASSUME e \in Heard(c) PROVE e \in Heard(c)'
      <4>1. PICK i \in DOMAIN got[c] : got[c][i] = e  BY <3>3 DEF Heard
      <4>2. i \in DOMAIN got'[c] /\ got'[c][i] = e
        BY <2>0, <2>2, <4>1, GotSteps
      <4> QED BY <4>2 DEF Heard
    <3>4. ASSUME cast[s].event = e, cast[s].pc = "rlock" \/ c \in cast[s].todo
          PROVE  \/ e \in Heard(c)'
                 \/ cast'[s].event = e /\ (cast'[s].pc = "rlock" \/ c \in cast'[s].todo)
      <4>1. CASE Enter(s)  BY <1>0, <2>0, <3>4, <4>1, CastFields
      <4>2. CASE \E d \in Conns : WriteStart(s, d)
        BY <1>0, <3>4, <4>2, CastFields DEF WriteStart
      <4>3. CASE WriteSucceeds(s)
        <5>1. CASE c = cast[s].to
          <6>1. /\ DOMAIN got'[c] = 1 .. (Len(got[c]) + 1) /\ Len(got[c]) \in Nat
                /\ got'[c][Len(got[c]) + 1] = e
            BY <3>4, <4>3, <5>1, GotSteps
          <6>2. Len(got[c]) + 1 \in DOMAIN got'[c]  BY <6>1
          <6> QED BY <6>1, <6>2 DEF Heard
        <5>2. CASE c # cast[s].to
          BY <1>0, <3>4, <4>3, <5>2, CastFields DEF WriteSucceeds
        <5> QED BY <5>1, <5>2
      <4>4. CASE WriteFails(s)
        <5>1. c # cast[s].to  BY <4>4 DEF WriteFails
        <5> QED BY <1>0, <3>4, <4>4, <5>1, CastFields DEF WriteFails
      <4>5. CASE WritePanics(s)  BY <1>0, <4>5 DEF WritePanics
      <4>6. CASE Return(s)  BY <2>0, <3>4, <4>6 DEF Return
      <4> QED BY <2>2, <4>1, <4>2, <4>3, <4>4, <4>5, <4>6 DEF SenderStep
    <3> QED BY <3>2, <3>3, <3>4
  <2> QED BY <2>1, <2>2
<1> QED BY <1>0, <1>1, <1>2 DEF TellInv

\* With one broadcast at a time, whom it did not reach yet is still on its list.
LEMMA TellInvHolds == ASSUME OneCast PROVE Spec => []TellInv
<1>1. Init => TellInv
  <2> SUFFICES ASSUME Init PROVE TellInv
    OBVIOUS
  <2>1. \A s \in Senders : cast[s] = Idle  BY DEF Init
  <2>2. \A c \in Conns : DOMAIN got[c] = {}  BY NothingTold
  <2>3. clients = {}  BY DEF Init
  <2> QED BY <2>1, <2>2, <2>3 DEF TellInv, Idle
<1>2. SafeInv /\ SaidInv /\ TellInv /\ [Next]_vars => TellInv'
  <2> SUFFICES ASSUME SafeInv, SaidInv, TellInv, [Next]_vars PROVE TellInv'
    OBVIOUS
  <2>1. CASE Next  BY <2>1, TellConn, TellCast DEF Next
  <2>2. CASE UNCHANGED vars
    BY <2>2 DEF vars, history, TellInv, Heard
  <2> QED BY <2>1, <2>2
<1> QED BY <1>1, <1>2, SafeInvHolds, SaidInvHolds, PTL DEF Spec

\* As long as broadcasts do not overlap, no page misses an event, whatever happens to
\* the other pages.
THEOREM NoneMissedHolds == ASSUME OneCast PROVE Spec => []NoneMissed
<1>1. TellInv => NoneMissed  BY DEF TellInv, NoneMissed
<1> QED BY <1>1, TellInvHolds, PTL
=============================================================================
