----------------------------- MODULE MailServer -----------------------------
(***************************************************************************)
(* The two servers of the process around the storage engine.                *)
(*                                                                          *)
(* An SMTP session hands every mail to a handler that reads the behaviour   *)
(* settings, may wait, may refuse the mail, stores it, tells the browsers   *)
(* and sends it to the automatic relays before the sender gets its answer.  *)
(* HTTP requests change the settings and send stored mails to a relay. A    *)
(* signal stops the HTTP server, and with it the process.                   *)
(*                                                                          *)
(* Of the engine only what the servers can tell is kept: Set stores the     *)
(* mail, or it fails and may leave it in some layers, where one read finds  *)
(* it and another does not.                                                 *)
(*                                                                          *)
(* Source: smtp/smtpd.go, smtp/configuration.go, http/settings.go,          *)
(*         http/httpd.go (relays), cmd/server/main.go                       *)
(***************************************************************************)
EXTENDS Integers, Sequences, FiniteSets

CONSTANTS
  Mails,          \* mails that clients send, each one once
  Unreadable,     \* those mail.ReadMessage refuses
  Relays,         \* names in the relay configuration
  Relay,          \* Relay[r]: its configuration
  Requests,       \* HTTP handlers of settings and relay requests
  Waiters,        \* requests to GET /api/emails/wait, each one used once
  Puts,           \* the settings that clients may ask for
  MaxSettings,    \* bound: settings after which no more are asked for
  Batches,        \* the sets of mails that a relay request may name
  Queries,        \* the sets of mails that the queries of waiters match
  StoreFails      \* whether Set and SearchEmails may fail

ASSUME ServerAssumption ==
  /\ Unreadable \subseteq Mails
  /\ Relay \in [Relays -> [enabled : BOOLEAN, auto : BOOLEAN, mechanism : BOOLEAN]]
  /\ Puts \subseteq [rate : Int, delay : Int]
  /\ Batches \cup Queries \subseteq SUBSET Mails
  /\ MaxSettings \in Nat
  /\ StoreFails \in BOOLEAN

VARIABLES
  settings,       \* smtpSettings
  session,        \* session[m]: the handler of mail m
  stored,         \* the mails in the storage, those Set accepted
  leftover,       \* mails Set failed on and left in a layer or in the folder
  sent,           \* sent[m][r]: times the handler gave m to relay r
  request,        \* request[h]: the HTTP handler h
  waiter,         \* waiter[w]: the handler of a request that waits for a mail
  up              \* "serving", "stopping" (Shutdown runs), "exited"

\* What the outside saw. No code reads these.
VARIABLES
  announced,      \* mails the browsers were told of
  reply,          \* reply[m]: what the sender of m was answered
  released,       \* <<mail, relay>> pairs an HTTP request got through
  versions,       \* the settings so far, in the order they took effect
  answered,       \* number of the latest settings whose PUT was answered
  timedOut        \* whether the five seconds of Shutdown ran out

mailVars == <<session, stored, leftover, sent, announced, reply>>
httpVars == <<request, settings, released, versions, answered>>
stopVars == <<waiter, up, timedOut>>
vars     == <<mailVars, httpVars, stopVars>>

\* A configured mechanism RelayMessage knows.
Known(r) == Relay[r].mechanism

\* A mistake for the checks: a relay that is switched off is not skipped.
AllAutoRelays == {r \in Relays : Relay[r].auto}

\* The relays that the handler's loop does not skip.
AutoRelays == {r \in Relays : Relay[r].enabled /\ Relay[r].auto}

\* RelayConfigurations.Get.
Found(r) == Relay[r].enabled

Clamp(n, low, high) == IF n < low THEN low ELSE IF n > high THEN high ELSE n

\* DelayMs has no upper bound.
Clamped(s) == [rate  |-> Clamp(s.rate, 0, 100),
               delay |-> IF s.delay < 0 THEN 0 ELSE s.delay]

FirstSettings == [rate |-> 0, delay |-> 0]

NewSession == [pc |-> "new", used |-> FirstSettings, todo |-> {},
               earliest |-> 1, latest |-> 1]

NewRequest == [pc |-> "new", put |-> FirstSettings, version |-> 0, relay |-> {},
               ids |-> {}, todo |-> {}, succeeded |-> {}, failed |-> {}]

\* before: the mails it wants that were there when it came. hit: the mail it
\* found. failed: whether a search of its own failed.
NewWaiter == [pc |-> "new", wants |-> {}, before |-> {}, hit |-> {}, failed |-> FALSE]

Init ==
  /\ settings = FirstSettings /\ versions = <<FirstSettings>> /\ answered = 1
  /\ session = [m \in Mails |-> NewSession]
  /\ stored = {} /\ leftover = {} /\ announced = {} /\ released = {}
  /\ sent = [m \in Mails |-> [r \in Relays |-> 0]]
  /\ reply = [m \in Mails |-> "none"]
  /\ request = [h \in Requests |-> NewRequest]
  /\ waiter = [w \in Waiters |-> NewWaiter]
  /\ up = "serving" /\ timedOut = FALSE

Running == up # "exited"

-----------------------------------------------------------------------------
(* Mistakes the code could contain. None of them is part of the model: each *)
(* stands in for a definition to show that a property notices.              *)

\* The settings are the ones the server started with.
ArriveStale(m) ==
  /\ session[m].pc = "new"
  /\ session' = [session EXCEPT ![m] = [@ EXCEPT
       !.pc = "decide", !.used = versions[1],
       !.earliest = answered, !.latest = Len(versions)]]
  /\ UNCHANGED <<stored, leftover, sent, announced, reply, httpVars, stopVars>>

\* The answer waits until every relay in use took the mail.
AcceptWaits(m) ==
  /\ session[m].pc = "relay" /\ session[m].todo = {}
  /\ \A r \in Relays : Relay[r].enabled => sent[m][r] > 0
  /\ reply' = [reply EXCEPT ![m] = "accepted"]
  /\ session' = [session EXCEPT ![m].pc = "over"]
  /\ UNCHANGED <<stored, leftover, sent, announced, httpVars, stopVars>>

\* A rejection is reported after the mail was stored.
DecideStores(m) ==
  /\ session[m].pc = "decide"
  /\ \/ /\ session[m].used.rate > 0
        /\ stored' = stored \cup {m}
        /\ reply' = [reply EXCEPT ![m] = "rejected"]
        /\ session' = [session EXCEPT ![m].pc = "over"]
     \/ /\ session[m].used.rate < 100
        /\ session' = [session EXCEPT ![m].pc = "parse"]
        /\ UNCHANGED <<stored, reply>>
  /\ UNCHANGED <<leftover, sent, announced, httpVars, stopVars>>

\* The first mail that cannot be read ends the bulk operation.
ReleaseStops(h, m) ==
  LET q == request[h] IN
  /\ q.pc = "release" /\ m \in q.todo
  /\ IF m \in stored
       THEN request' = [request EXCEPT ![h].todo = @ \ {m}, ![h].succeeded = @ \cup {m}]
       ELSE request' = [request EXCEPT ![h].todo = {}, ![h].failed = @ \cup {m}]
  /\ released' = released \cup {<<m, r>> : r \in IF m \in stored THEN q.relay ELSE {}}
  /\ UNCHANGED <<settings, versions, answered, mailVars, stopVars>>

\* The first look is at the first tick.
WaitStartTicks(w, wants) ==
  /\ up = "serving"
  /\ waiter[w].pc = "new"
  /\ waiter' = [waiter EXCEPT ![w] = [@ EXCEPT
       !.pc = "select", !.wants = wants, !.before = stored \cap wants]]
  /\ UNCHANGED <<mailVars, httpVars, up, timedOut>>

\* The timeout leaves the select and not the loop.
WaitExpiresBreaks(w) ==
  /\ waiter[w].pc = "select"
  /\ waiter' = [waiter EXCEPT ![w].pc = "look"]
  /\ UNCHANGED <<mailVars, httpVars, up, timedOut>>

-----------------------------------------------------------------------------
(* One mail: Server.handler *)

\* The settings are copied under their lock, once, when the handler begins.
\* The SMTP server is not told of the signal and takes mails until the end.
Arrive(m) ==
  /\ session[m].pc = "new"
  /\ session' = [session EXCEPT ![m] = [@ EXCEPT
       !.pc = IF settings.delay > 0 THEN "delay" ELSE "decide",
       !.used = settings, !.earliest = answered, !.latest = Len(versions)]]
  /\ UNCHANGED <<stored, leftover, sent, announced, reply, httpVars, stopVars>>

Delay(m) ==
  /\ session[m].pc = "delay"
  /\ session' = [session EXCEPT ![m].pc = "decide"]
  /\ UNCHANGED <<stored, leftover, sent, announced, reply, httpVars, stopVars>>

Answer(m, code) ==
  /\ reply' = [reply EXCEPT ![m] = code]
  /\ session' = [session EXCEPT ![m].pc = "over"]

\* A number below 100 is drawn and compared with the rate: the mail is never
\* rejected at 0 and always at 100.
Decide(m) ==
  /\ session[m].pc = "decide"
  /\ \/ session[m].used.rate > 0 /\ Answer(m, "rejected")
     \/ /\ session[m].used.rate < 100
        /\ session' = [session EXCEPT ![m].pc = "parse"]
        /\ UNCHANGED reply
  /\ UNCHANGED <<stored, leftover, sent, announced, httpVars, stopVars>>

Parse(m) ==
  /\ session[m].pc = "parse"
  /\ IF m \in Unreadable
       THEN Answer(m, "error")
       ELSE session' = [session EXCEPT ![m].pc = "store"] /\ UNCHANGED reply
  /\ UNCHANGED <<stored, leftover, sent, announced, httpVars, stopVars>>

\* engine.Set ends at the first layer that fails. The layers before it keep the
\* mail, and a Write that failed leaves its file.
Store(m) ==
  /\ session[m].pc = "store"
  /\ \/ /\ StoreFails /\ Answer(m, "error")
        /\ leftover' \in {leftover, leftover \cup {m}}
        /\ UNCHANGED stored
     \/ /\ stored' = stored \cup {m}
        /\ session' = [session EXCEPT ![m].pc = "notify"]
        /\ UNCHANGED <<leftover, reply>>
  /\ UNCHANGED <<sent, announced, httpVars, stopVars>>

\* onNewEmail
Notify(m) ==
  /\ session[m].pc = "notify"
  /\ announced' = announced \cup {m}
  /\ session' = [session EXCEPT ![m].pc = "relay", ![m].todo = AutoRelays]
  /\ UNCHANGED <<stored, leftover, sent, reply, httpVars, stopVars>>

\* One round of the loop over the relays, a map, so in any order. Whether the
\* relay took the mail changes nothing: an error is logged.
RelayMail(m, r) ==
  /\ session[m].pc = "relay" /\ r \in session[m].todo
  /\ sent' = [sent EXCEPT ![m][r] = IF Known(r) THEN @ + 1 ELSE @]
  /\ session' = [session EXCEPT ![m].todo = @ \ {r}]
  /\ UNCHANGED <<stored, leftover, announced, reply, httpVars, stopVars>>

Accept(m) ==
  /\ session[m].pc = "relay" /\ session[m].todo = {}
  /\ Answer(m, "accepted")
  /\ UNCHANGED <<stored, leftover, sent, announced, httpVars, stopVars>>

MailStep(m) ==
  \/ Delay(m) \/ Decide(m) \/ Parse(m) \/ Store(m) \/ Notify(m) \/ Accept(m)
  \/ \E r \in Relays : RelayMail(m, r)

-----------------------------------------------------------------------------
(* PUT /api/settings: handlePutSettings *)

\* The HTTP server takes no request once Shutdown closed its listener. The
\* settings may be changed again.
PutStart(h, s) ==
  /\ up = "serving" /\ Len(versions) < MaxSettings
  /\ request[h].pc \in {"new", "over"}
  /\ request' = [request EXCEPT ![h] = [NewRequest EXCEPT !.pc = "put", !.put = s]]
  /\ UNCHANGED <<settings, released, versions, answered, mailVars, stopVars>>

PutStore(h) ==
  /\ request[h].pc = "put"
  /\ settings' = Clamped(request[h].put)
  /\ versions' = Append(versions, settings')
  /\ request' = [request EXCEPT ![h].pc = "broadcast", ![h].version = Len(versions')]
  /\ UNCHANGED <<released, answered, mailVars, stopVars>>

\* The browsers get a settings_changed event, which none of them handles, and
\* the caller its answer.
PutAnswer(h) ==
  /\ request[h].pc = "broadcast"
  /\ answered' = IF request[h].version > answered THEN request[h].version ELSE answered
  /\ request' = [request EXCEPT ![h].pc = "over"]
  /\ UNCHANGED <<settings, released, versions, mailVars, stopVars>>

-----------------------------------------------------------------------------
(* POST .../relay and .../bulk-relay: relayMessage, bulkRelayEmails *)

ReleaseStart(h, ids, r) ==
  /\ up = "serving"
  /\ request[h].pc = "new"
  /\ request' = [request EXCEPT ![h] = [@ EXCEPT
       !.pc = IF Found(r) THEN "release" ELSE "over",
       !.relay = {r}, !.ids = ids, !.todo = IF Found(r) THEN ids ELSE {}]]
  /\ UNCHANGED <<settings, released, versions, answered, mailVars, stopVars>>

\* A read for m may succeed: what is left over is in some layers and not in others.
MayBeRead(m) == m \in stored \cup leftover

\* GetRawEmail and RelayMessage for one id; the loop goes on whatever happens.
Release(h, m) ==
  LET q == request[h] IN
  /\ q.pc = "release" /\ m \in q.todo
  /\ \E works \in BOOLEAN :
       LET through == MayBeRead(m) /\ works /\ \A r \in q.relay : Known(r) IN
       /\ request' = [request EXCEPT ![h] = [q EXCEPT
            !.todo = q.todo \ {m},
            !.succeeded = IF through THEN q.succeeded \cup {m} ELSE q.succeeded,
            !.failed = IF through THEN q.failed ELSE q.failed \cup {m}]]
       /\ released' = IF through THEN released \cup {<<m, r>> : r \in q.relay} ELSE released
  /\ UNCHANGED <<settings, versions, answered, mailVars, stopVars>>

ReleaseAnswer(h) ==
  /\ request[h].pc = "release" /\ request[h].todo = {}
  /\ request' = [request EXCEPT ![h].pc = "over"]
  /\ UNCHANGED <<settings, released, versions, answered, mailVars, stopVars>>

\* relayMessage: one mail, whose relay and whose mail are looked up before
\* anything is sent, and whose answer is that of the relay.
ReleaseOneStart(h, m, r) ==
  /\ up = "serving"
  /\ request[h].pc = "new"
  /\ request' = [request EXCEPT ![h] = [@ EXCEPT
       !.pc = IF Found(r) THEN "one" ELSE "over", !.relay = {r}, !.ids = {m}]]
  /\ UNCHANGED <<settings, released, versions, answered, mailVars, stopVars>>

ReleaseOne(h) ==
  LET q == request[h] IN
  /\ q.pc = "one"
  /\ \E works \in BOOLEAN :
       LET through == works /\ \A m \in q.ids, r \in q.relay : MayBeRead(m) /\ Known(r) IN
       /\ request' = [request EXCEPT ![h] = [@ EXCEPT
            !.pc = "over",
            !.succeeded = IF through THEN q.ids ELSE {},
            !.failed = IF through THEN {} ELSE q.ids]]
       /\ released' = IF through THEN released \cup (q.ids \X q.relay) ELSE released
  /\ UNCHANGED <<settings, versions, answered, mailVars, stopVars>>

RequestStep(h) ==
  \/ PutStore(h) \/ PutAnswer(h) \/ ReleaseAnswer(h) \/ ReleaseOne(h)
  \/ \E m \in Mails : Release(h, m)

-----------------------------------------------------------------------------
(* GET /api/emails/wait: waitForEmail *)

WaitUnchanged == UNCHANGED <<mailVars, httpVars, up, timedOut>>

Waiting(w) == waiter[w].pc \in {"look", "select"}

WaitStart(w, wants) ==
  /\ up = "serving"
  /\ waiter[w].pc = "new"
  /\ waiter' = [waiter EXCEPT ![w] = [@ EXCEPT
       !.pc = "look", !.wants = wants, !.before = stored \cap wants]]
  /\ WaitUnchanged

\* findMatchingEmails: a search that fails counts as one that finds nothing.
WaitLook(w) ==
  LET wants == waiter[w].wants IN
  /\ waiter[w].pc = "look"
  /\ \/ \E m \in wants :
          /\ MayBeRead(m)
          /\ waiter' = [waiter EXCEPT ![w].pc = "found", ![w].hit = {m}]
     \/ /\ stored \cap wants = {}
        /\ waiter' = [waiter EXCEPT ![w].pc = "select"]
     \/ /\ StoreFails
        /\ waiter' = [waiter EXCEPT ![w].pc = "select", ![w].failed = TRUE]
  /\ WaitUnchanged

\* The deadline may pass between any two steps, and select then takes it or a
\* tick that is there too.
WaitExpires(w) ==
  /\ waiter[w].pc = "select"
  /\ waiter' = [waiter EXCEPT ![w].pc = "expired"]
  /\ WaitUnchanged

WaitTicks(w) ==
  /\ waiter[w].pc = "select"
  /\ waiter' = [waiter EXCEPT ![w].pc = "look"]
  /\ WaitUnchanged

\* The caller hangs up: the context of the request is done.
WaitGone(w) ==
  /\ waiter[w].pc = "select"
  /\ waiter' = [waiter EXCEPT ![w].pc = "gone"]
  /\ WaitUnchanged

-----------------------------------------------------------------------------
(* main: the signal, Shutdown, and the goroutine of ListenAndServe *)

InFlight == {h \in Requests : request[h].pc \notin {"new", "over"}}
              \cup {w \in Waiters : Waiting(w)}

Signal ==
  /\ up = "serving"
  /\ up' = "stopping"
  /\ UNCHANGED <<mailVars, httpVars, waiter, timedOut>>

\* Shutdown makes ListenAndServe return ErrServerClosed at once, an error like
\* any other to the goroutine that called it: FATAL ends the process.
ServerClosed ==
  /\ up = "stopping"
  /\ up' = "exited"
  /\ UNCHANGED <<mailVars, httpVars, waiter, timedOut>>

\* Shutdown returns, and main with it.
ShutdownReturns ==
  /\ up = "stopping"
  /\ \/ InFlight = {} /\ UNCHANGED timedOut
     \/ InFlight # {} /\ timedOut' = TRUE
  /\ up' = "exited"
  /\ UNCHANGED <<mailVars, httpVars, waiter>>

-----------------------------------------------------------------------------
Next ==
  /\ Running
  /\ \/ \E m \in Mails : Arrive(m) \/ MailStep(m)
     \/ \E h \in Requests :
          \/ \E s \in Puts : PutStart(h, s)
          \/ \E ids \in Batches, r \in Relays : ReleaseStart(h, ids, r)
          \/ \E m \in Mails, r \in Relays : ReleaseOneStart(h, m, r)
          \/ RequestStep(h)
     \/ \E w \in Waiters :
          \/ \E wants \in Queries : WaitStart(w, wants)
          \/ WaitLook(w) \/ WaitExpires(w) \/ WaitTicks(w) \/ WaitGone(w)
     \/ Signal \/ ServerClosed \/ ShutdownReturns

Spec == Init /\ [][Next]_vars

\* A goroutine that can run does, the engine returns, timers fire. Nothing is
\* assumed of what has no deadline: the broadcast, which writes to the browsers'
\* sockets, and the relays; a mail may stay there for ever. Go's select draws
\* among the ready channels at random, so one that is ready again and again is
\* taken: the deadline, whatever the ticker does.
Fairness ==
  /\ \A m \in Mails :
       WF_vars(Running /\ (Delay(m) \/ Decide(m) \/ Parse(m) \/ Store(m) \/ Accept(m)))
  /\ \A w \in Waiters : /\ WF_vars(Running /\ (WaitLook(w) \/ WaitTicks(w)))
                        /\ SF_vars(Running /\ WaitExpires(w))

FairSpec == Spec /\ Fairness
=============================================================================
