----------------------------- MODULE WsHubProps -----------------------------
(* What the WebSocket hub owes the browsers and the server it runs in. *)
EXTENDS WsHub, FiniteSets

\* Where BroadcastEvent can be.
Casts == [pc : {"idle", "rlock", "iterate", "write"},
          event : Events \cup {0},
          todo : SUBSET Conns,
          to : Conns \cup {None}]

\* Every variable has its type.
TypeOK ==
  /\ clients \subseteq Conns
  /\ writer \in Conns \cup {None}
  /\ readers \subseteq Senders /\ waiting \subseteq Senders
  /\ socket \in [Conns -> {"new", "open", "broken", "closed"}]
  /\ peer \in [Conns -> {"absent", "listening", "stalled", "gone"}]
  /\ handler \in [Conns -> {"none", "upgraded", "register", "reading",
                            "done", "leave", "closing", "over"}]
  /\ pinger \in [Conns -> BOOLEAN]
  /\ cast \in [Senders -> Casts]
  /\ events \in 0 .. MaxEvents
  /\ down \in BOOLEAN
  /\ got \in [Conns -> Seq(Events)]
  /\ since \in [Conns -> 0 .. MaxEvents]

\* The hub knows exactly the connections that are being served: one whose
\* handler is past its unregistration is forgotten, whoever else removed it
\* before, and one that is read from is only missing if a broadcast closed it.
HubKnowsTheServed ==
  \A c \in Conns :
    /\ c \in clients => handler[c] \in {"reading", "done", "leave"}
    /\ handler[c] = "reading" /\ c \notin clients => socket[c] = "closed"

\* The handler closes its socket only when no broadcast is writing to it:
\* that is what the lock around the unregistration is for.
NoWriteDuringClose ==
  \A c \in Conns, s \in Senders :
    cast[s].pc = "write" /\ cast[s].to = c =>
      handler[c] \in {"reading", "done", "leave"}

\* BroadcastEvent reaches all connected clients: a client has every event that
\* was announced since it registered, unless that broadcast is still on its
\* way, and one client's failure does not cost another one an event.
NoneMissed ==
  \A c \in clients : \A e \in (since[c] + 1) .. events :
    e \in Heard(c) \/ \E s \in Senders : cast[s].event = e

\* No client is told the same thing twice, however many broadcasts overlap.
AtMostOnce ==
  \A c \in Conns : \A i, j \in DOMAIN got[c] : i # j => got[c][i] # got[c][j]

\* A browser that stays connected hears of every event.
Hears ==
  \A c \in Conns, e \in Events :
    (c \in clients /\ since[c] < e /\ e <= events)
      ~> (e \in Heard(c) \/ peer[c] # "listening" \/ socket[c] # "open" \/ down)

\* Every broadcast ends, so that the SMTP session or HTTP request that started
\* it is answered.
BroadcastEnds == \A s \in Senders : (cast[s].pc # "idle") ~> (cast[s].pc = "idle" \/ down)

\* When a browser is gone, its two goroutines end and its socket is closed.
GoneIsReleased ==
  \A c \in Conns :
    (peer[c] = "gone") ~> ((handler[c] = "over" /\ ~pinger[c] /\ socket[c] = "closed") \/ down)
=============================================================================
