------------------------------- MODULE WsHub -------------------------------
(***************************************************************************)
(* The WebSocket hub: the set of connected browsers and the broadcast of an *)
(* event to all of them.                                                    *)
(*                                                                          *)
(* Every connection has a handler goroutine (register, read loop,           *)
(* unregister, close) and a ping goroutine. Every caller of BroadcastEvent  *)
(* (an SMTP session that stored a mail, an HTTP handler that deleted one)   *)
(* holds the read lock of the hub while it writes to the clients one after  *)
(* the other. The write has no deadline, and a client whose write fails is  *)
(* closed and removed from the map under that read lock.                    *)
(*                                                                          *)
(* sync.RWMutex is modelled with its rule for fairness: a writer that waits *)
(* keeps new readers out, and Unlock admits the readers that waited for it. *)
(*                                                                          *)
(* Source: http/websocket.go                                                *)
(***************************************************************************)
EXTENDS Naturals, Sequences

CONSTANTS
  Conns,          \* connections, each one used once
  Senders,        \* goroutines that call BroadcastEvent
  SmtpSenders,    \* those of them that are SMTP sessions
  None,           \* neither a connection nor a sender
  MaxEvents,      \* bound on the number of events
  Stalls          \* whether a browser may stop reading without leaving

ASSUME HubAssumption ==
  /\ SmtpSenders \subseteq Senders
  /\ None \notin Conns
  /\ MaxEvents \in Nat
  /\ Stalls \in BOOLEAN

VARIABLES
  clients,        \* hub.clients
  writer,         \* the connection whose handler holds or awaits mu.Lock
  readers,        \* the senders that hold mu.RLock
  waiting,        \* the senders that wait in mu.RLock
  socket,         \* the server's end of each connection
  peer,           \* what the browser does
  handler,        \* where handleWebSocket is, for each connection
  pinger,         \* whether the ping goroutine runs
  cast,           \* where BroadcastEvent is, for each sender
  events,         \* number of events so far; they are numbered from 1
  down            \* the process died

\* What the browsers were sent. No code reads these.
VARIABLES
  got,            \* the events written to each connection, in order
  since           \* the number of events when a connection registered

mutex   == <<writer, readers, waiting>>
conn    == <<socket, peer, handler, pinger>>
history == <<got, since>>
vars    == <<clients, mutex, conn, cast, events, down, history>>

Events == 1 .. MaxEvents

Idle == [pc |-> "idle", event |-> 0, todo |-> {}, to |-> None]

Heard(c) == {got[c][i] : i \in DOMAIN got[c]}

Init ==
  /\ clients = {}
  /\ writer = None /\ readers = {} /\ waiting = {}
  /\ socket = [c \in Conns |-> "new"]
  /\ peer = [c \in Conns |-> "absent"]
  /\ handler = [c \in Conns |-> "none"]
  /\ pinger = [c \in Conns |-> FALSE]
  /\ cast = [s \in Senders |-> Idle]
  /\ events = 0 /\ down = FALSE
  /\ got = [c \in Conns |-> <<>>]
  /\ since = [c \in Conns |-> 0]

-----------------------------------------------------------------------------
(* The lock *)

\* mu.Lock up to the wait for the readers: later readers stay out.
Announce(c) == writer = None /\ writer' = c /\ UNCHANGED <<readers, waiting>>

Exclusive(c) == writer = c /\ readers = {}

Unlock == writer' = None /\ readers' = waiting /\ waiting' = {}

RLock(s) ==
  /\ IF writer = None
       THEN readers' = readers \cup {s} /\ UNCHANGED waiting
       ELSE waiting' = waiting \cup {s} /\ UNCHANGED readers
  /\ UNCHANGED writer

RUnlock(s) == readers' = readers \ {s} /\ UNCHANGED <<writer, waiting>>

-----------------------------------------------------------------------------
(* Mistakes the code could contain. None of them is part of the model: each *)
(* stands in for an action of its name to show that a property notices.     *)

\* The handler trusts the broadcast to remove the client.
LeaveForgets(c) ==
  /\ handler[c] = "leave" /\ Exclusive(c)
  /\ handler' = [handler EXCEPT ![c] = "closing"]
  /\ Unlock
  /\ UNCHANGED <<clients, socket, peer, pinger, cast, events, down, history>>

\* The client is removed without the lock.
LeaveUnlocked(c) ==
  /\ handler[c] = "leave" /\ writer = c
  /\ clients' = clients \ {c}
  /\ handler' = [handler EXCEPT ![c] = "closing"]
  /\ writer' = None /\ readers' = readers \cup waiting /\ waiting' = {}
  /\ UNCHANGED <<socket, peer, pinger, cast, events, down, history>>

\* The first write error ends the broadcast.
WriteErrorReturns(s) ==
  LET c == cast[s].to IN
  /\ cast[s].pc = "write"
  /\ socket[c] # "open" \/ peer[c] = "gone"
  /\ socket' = [socket EXCEPT ![c] = "closed"]
  /\ clients' = clients \ {c}
  /\ RUnlock(s)
  /\ cast' = [cast EXCEPT ![s] = Idle]
  /\ UNCHANGED <<peer, handler, pinger, events, down, history>>

\* The write is tried again on the next round of the loop.
WriteTwice(s) ==
  LET c == cast[s].to IN
  /\ cast[s].pc = "write"
  /\ socket[c] = "open" /\ peer[c] # "stalled"
  /\ got' = [got EXCEPT ![c] = Append(@, cast[s].event)]
  /\ cast' = [cast EXCEPT ![s].pc = "iterate", ![s].to = None]
  /\ UNCHANGED <<clients, mutex, conn, events, down, since>>

\* The function returns with the read lock held.
ReturnKeepsLock(s) ==
  /\ cast[s].pc = "iterate"
  /\ cast[s].todo \cap clients = {}
  /\ cast' = [cast EXCEPT ![s] = Idle]
  /\ UNCHANGED <<clients, mutex, conn, events, down, history>>

\* The done channel is never closed.
PingDoneNever(c) ==
  /\ pinger[c]
  /\ peer[c] = "stalled"
  /\ pinger' = [pinger EXCEPT ![c] = FALSE]
  /\ UNCHANGED <<clients, mutex, socket, peer, handler, cast, events, down, history>>

-----------------------------------------------------------------------------
(* handleWebSocket *)

Connect(c) ==
  /\ handler[c] = "none"
  /\ handler' = [handler EXCEPT ![c] = "upgraded"]
  /\ socket' = [socket EXCEPT ![c] = "open"]
  /\ peer' = [peer EXCEPT ![c] = "listening"]
  /\ UNCHANGED <<clients, mutex, pinger, cast, events, down, history>>

RegisterLock(c) ==
  /\ handler[c] = "upgraded"
  /\ handler' = [handler EXCEPT ![c] = "register"]
  /\ Announce(c)
  /\ UNCHANGED <<clients, socket, peer, pinger, cast, events, down, history>>

\* The ping goroutine starts right after; the read deadline is 15 seconds off.
Register(c) ==
  /\ handler[c] = "register" /\ Exclusive(c)
  /\ clients' = clients \cup {c}
  /\ since' = [since EXCEPT ![c] = events]
  /\ handler' = [handler EXCEPT ![c] = "reading"]
  /\ pinger' = [pinger EXCEPT ![c] = TRUE]
  /\ Unlock
  /\ UNCHANGED <<socket, peer, cast, events, down, got>>

\* ReadMessage fails: the browser closed, the server closed the socket, or no
\* pong arrived in time, which a browser that is pinged and reads does not let
\* happen.
ReadEnds(c) ==
  /\ handler[c] = "reading"
  /\ \/ socket[c] = "closed"
     \/ peer[c] \in {"gone", "stalled"}
     \/ ~pinger[c]
  /\ handler' = [handler EXCEPT ![c] = "done"]
  /\ UNCHANGED <<clients, mutex, socket, peer, pinger, cast, events, down, history>>

LeaveLock(c) ==
  /\ handler[c] = "done"
  /\ handler' = [handler EXCEPT ![c] = "leave"]
  /\ Announce(c)
  /\ UNCHANGED <<clients, socket, peer, pinger, cast, events, down, history>>

Leave(c) ==
  /\ handler[c] = "leave" /\ Exclusive(c)
  /\ clients' = clients \ {c}
  /\ handler' = [handler EXCEPT ![c] = "closing"]
  /\ Unlock
  /\ UNCHANGED <<socket, peer, pinger, cast, events, down, history>>

Close(c) ==
  /\ handler[c] = "closing"
  /\ socket' = [socket EXCEPT ![c] = "closed"]
  /\ handler' = [handler EXCEPT ![c] = "over"]
  /\ UNCHANGED <<clients, mutex, peer, pinger, cast, events, down, history>>

\* The ping goroutine returns when done is closed or its write fails. A write
\* that times out half way makes every later write on the connection fail.
PingEnds(c) ==
  /\ pinger[c]
  /\ \/ /\ \/ handler[c] \in {"done", "leave", "closing", "over"}
           \/ socket[c] # "open" \/ peer[c] # "listening"
        /\ UNCHANGED socket
     \/ /\ socket[c] = "open" /\ peer[c] = "stalled"
        /\ socket' = [socket EXCEPT ![c] = "broken"]
  /\ pinger' = [pinger EXCEPT ![c] = FALSE]
  /\ UNCHANGED <<clients, mutex, peer, handler, cast, events, down, history>>

HandlerStep(c) ==
  \/ RegisterLock(c) \/ Register(c) \/ ReadEnds(c)
  \/ LeaveLock(c) \/ Leave(c) \/ Close(c)

-----------------------------------------------------------------------------
(* BroadcastEvent *)

Broadcast(s) ==
  /\ cast[s].pc = "idle" /\ events < MaxEvents
  /\ events' = events + 1
  /\ cast' = [cast EXCEPT ![s] = [Idle EXCEPT !.pc = "rlock", !.event = events + 1]]
  /\ RLock(s)
  /\ UNCHANGED <<clients, conn, down, history>>

Enter(s) ==
  /\ cast[s].pc = "rlock" /\ s \in readers \ waiting
  /\ cast' = [cast EXCEPT ![s].pc = "iterate", ![s].todo = clients]
  /\ UNCHANGED <<clients, mutex, conn, events, down, history>>

\* The range loop yields an entry that is still in the map.
WriteStart(s, c) ==
  /\ cast[s].pc = "iterate"
  /\ c \in cast[s].todo \cap clients
  /\ cast' = [cast EXCEPT ![s].pc = "write", ![s].to = c]
  /\ UNCHANGED <<clients, mutex, conn, events, down, history>>

\* A write to a browser that does not read blocks: there is no deadline.
WriteSucceeds(s) ==
  LET c == cast[s].to IN
  /\ cast[s].pc = "write"
  /\ socket[c] = "open" /\ peer[c] # "stalled"
  /\ got' = [got EXCEPT ![c] = Append(@, cast[s].event)]
  /\ cast' = [cast EXCEPT ![s].pc = "iterate", ![s].to = None, ![s].todo = @ \ {c}]
  /\ UNCHANGED <<clients, mutex, conn, events, down, since>>

\* The map is written under the read lock: when another sender is in the loop
\* the runtime may stop the process (concurrent map iteration and map write).
WriteFails(s) ==
  LET c == cast[s].to IN
  /\ cast[s].pc = "write"
  /\ socket[c] # "open" \/ peer[c] = "gone"
  /\ socket' = [socket EXCEPT ![c] = "closed"]
  /\ clients' = clients \ {c}
  /\ cast' = [cast EXCEPT ![s].pc = "iterate", ![s].to = None, ![s].todo = @ \ {c}]
  /\ \/ UNCHANGED down
     \/ down' = TRUE /\ \E t \in Senders \ {s} : cast[t].pc \in {"iterate", "write"}
  /\ UNCHANGED <<mutex, peer, handler, pinger, events, history>>

\* Two goroutines that write to one connection race: the one that finds the
\* other inside WriteMessage panics. net/http recovers a handler, and the
\* deferred RUnlock runs; nothing recovers an SMTP session.
WritePanics(s) ==
  /\ cast[s].pc = "write"
  /\ \E t \in Senders \ {s} : cast[t].pc = "write" /\ cast[t].to = cast[s].to
  /\ down' = (s \in SmtpSenders)
  /\ cast' = [cast EXCEPT ![s] = Idle]
  /\ RUnlock(s)
  /\ UNCHANGED <<clients, conn, events, history>>

Return(s) ==
  /\ cast[s].pc = "iterate"
  /\ cast[s].todo \cap clients = {}
  /\ cast' = [cast EXCEPT ![s] = Idle]
  /\ RUnlock(s)
  /\ UNCHANGED <<clients, conn, events, down, history>>

SenderStep(s) ==
  \/ Enter(s) \/ WriteSucceeds(s) \/ WriteFails(s) \/ WritePanics(s) \/ Return(s)
  \/ \E c \in Conns : WriteStart(s, c)

-----------------------------------------------------------------------------
(* The browsers *)

Online(c) == peer[c] \in {"listening", "stalled"}

PeerLeaves(c) ==
  /\ Online(c)
  /\ peer' = [peer EXCEPT ![c] = "gone"]
  /\ UNCHANGED <<clients, mutex, socket, handler, pinger, cast, events, down, history>>

\* The browser stops reading and the buffers towards it fill up.
PeerStalls(c) ==
  /\ Stalls /\ peer[c] = "listening"
  /\ peer' = [peer EXCEPT ![c] = "stalled"]
  /\ UNCHANGED <<clients, mutex, socket, handler, pinger, cast, events, down, history>>

PeerResumes(c) ==
  /\ peer[c] = "stalled"
  /\ peer' = [peer EXCEPT ![c] = "listening"]
  /\ UNCHANGED <<clients, mutex, socket, handler, pinger, cast, events, down, history>>

-----------------------------------------------------------------------------
Next ==
  /\ ~down
  /\ \/ \E c \in Conns : \/ Connect(c) \/ HandlerStep(c) \/ PingEnds(c)
                         \/ PeerLeaves(c) \/ PeerStalls(c) \/ PeerResumes(c)
     \/ \E s \in Senders : Broadcast(s) \/ SenderStep(s)

Spec == Init /\ [][Next]_vars

\* A goroutine that can run does, sync.Mutex starves none of the writers that
\* queue for the lock, and a blocked write goes on when the browser reads.
\* Nothing makes a browser connect, leave or resume, and nothing makes an
\* event happen.
Fairness ==
  /\ \A c \in Conns : SF_vars(~down /\ HandlerStep(c)) /\ WF_vars(~down /\ PingEnds(c))
  /\ \A s \in Senders : SF_vars(~down /\ SenderStep(s))

FairSpec == Spec /\ Fairness
=============================================================================
