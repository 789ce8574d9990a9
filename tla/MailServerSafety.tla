-------------------------- MODULE MailServerSafety --------------------------
(***************************************************************************)
(* The safety of the two servers, for any mails, relays, settings, requests *)
(* and waiting callers, with or without failures of the storage; and, at    *)
(* the end, what a release sends, for any mail and any sender.              *)
(***************************************************************************)
EXTENDS MailServerProps, SenderRewrite, Induction, SequenceTheorems, FiniteSetTheorems, TLAPS

-----------------------------------------------------------------------------
(* The invariant, one conjunct per kind of handler *)

\* Which relays are given a mail, and how often.
Due(r) == IF Relay[r].enabled /\ Relay[r].auto /\ Relay[r].mechanism THEN 1 ELSE 0

Undecided == {"new", "delay", "decide"}
Unstored  == Undecided \cup {"parse", "store"}

\* How far a mail has come at each place of its handler.
MailInv(m) ==
  LET here == session[m].pc IN
  /\ here \in Unstored => m \notin stored
  /\ here \in {"store", "notify", "relay"} => m \notin Unreadable
  /\ m \in leftover => reply[m] = "error" /\ m \notin Unreadable
  /\ here \in Unstored \cup {"notify"} =>
       m \notin announced /\ \A r \in Relays : sent[m][r] = 0
  /\ here \in {"notify", "relay"} => m \in stored
  /\ here = "relay" =>
       /\ m \in announced /\ session[m].todo \subseteq AutoRelays
       /\ \A r \in Relays :
            sent[m][r] = IF r \in session[m].todo THEN 0 ELSE Due(r)
  /\ reply[m] # "none" => here = "over"
  /\ reply[m] \in {"rejected", "error"} =>
       m \notin stored \cup announced /\ \A r \in Relays : sent[m][r] = 0

\* What the handler's copy of the settings decides.
RateInv(m) ==
  /\ session[m].pc # "new" =>
       \E v \in session[m].earliest .. session[m].latest : versions[v] = session[m].used
  /\ session[m].pc \in {"parse", "store", "notify", "relay"} => session[m].used.rate < 100
  /\ reply[m] = "accepted" => session[m].used.rate < 100
  /\ reply[m] = "rejected" => session[m].used.rate > 0

\* A release under way: what is done, and what is left.
RequestInv(h) ==
  LET q == request[h] IN
  /\ q.pc \in {"new", "put", "broadcast"} =>
       q.relay = {} /\ q.ids = {} /\ q.succeeded = {} /\ q.failed = {}
  /\ q.pc \in {"release", "one"} => \A r \in q.relay : Relay[r].enabled
  /\ q.pc = "release" =>
       /\ q.succeeded \cap q.failed = {} /\ (q.succeeded \cup q.failed) \cap q.todo = {}
       /\ q.succeeded \cup q.failed \cup q.todo = q.ids
       /\ \A m \in q.succeeded, r \in q.relay : <<m, r>> \in released

\* What a caller that waits has seen.
WaiterInv(w) ==
  /\ waiter[w].pc # "new" => waiter[w].before \subseteq stored \cap waiter[w].wants
  /\ waiter[w].pc \in {"select", "expired"} => waiter[w].before = {} \/ waiter[w].failed
  /\ waiter[w].hit \subseteq stored \cup leftover

ServerInv ==
  /\ TypeOK
  /\ settings = versions[Len(versions)]
  /\ \A m \in Mails : MailInv(m) /\ RateInv(m)
  /\ \A h \in Requests : RequestInv(h)
  /\ \A w \in Waiters : WaiterInv(w)
  /\ AnnouncedIsStored /\ AcceptedIsComplete /\ ReleaseIsExact /\ WaitIsHonest

-----------------------------------------------------------------------------
(* Steps of a mail *)

\* What one assignment to a session leaves behind.
LEMMA SessionBecomes ==
  ASSUME TypeOK, NEW m \in Mails, NEW r \in Sessions(Len(versions)),
         session' = [session EXCEPT ![m] = r]
  PROVE  /\ session' \in [Mails -> Sessions(Len(versions))]
         /\ session'[m] = r
         /\ \A k \in Mails \ {m} : session'[k] = session[k]
  BY DEF TypeOK

\* What a step leaves of the other mails, and of everything that is not about mails.
Elsewhere(m) ==
  /\ session' \in [Mails -> Sessions(Len(versions))]
  /\ \A k \in Mails \ {m} : session'[k] = session[k]

\* The place of a handler goes to p, and the rest of it stays.
Goes(m, p) ==
  /\ Elsewhere(m)
  /\ session'[m].pc = p /\ session'[m].used = session[m].used
  /\ session'[m].earliest = session[m].earliest /\ session'[m].latest = session[m].latest

Places == {"new", "delay", "decide", "parse", "store", "notify", "relay", "over"}

\* A step that only moves the handler of a mail on.
LEMMA Going ==
  ASSUME TypeOK, NEW m \in Mails, NEW p \in Places,
         session' = [session EXCEPT ![m].pc = p]
  PROVE  Goes(m, p) /\ session'[m].todo = session[m].todo
<1> DEFINE r == [session[m] EXCEPT !.pc = p]
<1>1. session[m] \in Sessions(Len(versions))  BY DEF TypeOK
<1>2. r \in Sessions(Len(versions))  BY <1>1 DEF Sessions, Places
<1>3. session' = [session EXCEPT ![m] = r]  BY DEF TypeOK
<1>4. /\ r.pc = p /\ r.used = session[m].used /\ r.todo = session[m].todo
      /\ r.earliest = session[m].earliest /\ r.latest = session[m].latest
  BY <1>1 DEF Sessions
<1> HIDE DEF r
<1>5. Elsewhere(m) /\ session'[m] = r  BY <1>2, <1>3, SessionBecomes DEF Elsewhere
<1> QED BY <1>4, <1>5 DEF Goes

\* After the event come the automatic relays.
LEMMA NotifyGoes ==
  ASSUME TypeOK, NEW m \in Mails, Notify(m)
  PROVE  Goes(m, "relay") /\ session'[m].todo = AutoRelays
<1> DEFINE r == [session[m] EXCEPT !.pc = "relay", !.todo = AutoRelays]
<1>1. session[m] \in Sessions(Len(versions))  BY DEF TypeOK
<1>2. r \in Sessions(Len(versions))  BY <1>1 DEF Sessions, AutoRelays
<1>3. session' = [session EXCEPT ![m] = r]  BY DEF TypeOK, Notify
<1>4. /\ r.pc = "relay" /\ r.used = session[m].used /\ r.todo = AutoRelays
      /\ r.earliest = session[m].earliest /\ r.latest = session[m].latest
  BY <1>1 DEF Sessions
<1> HIDE DEF r
<1>5. Elsewhere(m) /\ session'[m] = r  BY <1>2, <1>3, SessionBecomes DEF Elsewhere
<1> QED BY <1>4, <1>5 DEF Goes

\* One round over the automatic relays: that relay, and no other, gets the mail.
LEMMA RelayGoes ==
  ASSUME TypeOK, NEW m \in Mails, NEW q \in Relays, RelayMail(m, q)
  PROVE  /\ Goes(m, "relay") /\ session'[m].todo = session[m].todo \ {q}
         /\ sent' \in [Mails -> [Relays -> Nat]]
         /\ sent'[m][q] = IF Known(q) THEN sent[m][q] + 1 ELSE sent[m][q]
         /\ \A k \in Mails, t \in Relays : k # m \/ t # q => sent'[k][t] = sent[k][t]
<1> DEFINE r == [session[m] EXCEPT !.todo = session[m].todo \ {q}]
<1>1. session[m] \in Sessions(Len(versions)) /\ session[m].pc = "relay"
  BY DEF TypeOK, RelayMail
<1>2. r \in Sessions(Len(versions))  BY <1>1 DEF Sessions
<1>3. session' = [session EXCEPT ![m] = r]  BY DEF TypeOK, RelayMail
<1>4. /\ r.pc = "relay" /\ r.used = session[m].used /\ r.todo = session[m].todo \ {q}
      /\ r.earliest = session[m].earliest /\ r.latest = session[m].latest
  BY <1>1 DEF Sessions
<1> HIDE DEF r
<1>5. Elsewhere(m) /\ session'[m] = r  BY <1>2, <1>3, SessionBecomes DEF Elsewhere
<1>6. /\ sent' \in [Mails -> [Relays -> Nat]]
      /\ sent'[m][q] = IF Known(q) THEN sent[m][q] + 1 ELSE sent[m][q]
      /\ \A k \in Mails, t \in Relays : k # m \/ t # q => sent'[k][t] = sent[k][t]
  BY DEF TypeOK, RelayMail
<1> QED BY <1>4, <1>5, <1>6 DEF Goes

\* The handler of a new mail takes the settings in force.
LEMMA ArriveGoes ==
  ASSUME TypeOK, NEW m \in Mails, Arrive(m)
  PROVE  /\ Elsewhere(m)
         /\ session'[m].pc \in {"delay", "decide"} /\ session'[m].used = settings
         /\ session'[m].earliest = answered /\ session'[m].latest = Len(versions)
<1> DEFINE r == [session[m] EXCEPT
                   !.pc = IF settings.delay > 0 THEN "delay" ELSE "decide",
                   !.used = settings, !.earliest = answered, !.latest = Len(versions)]
<1>1. session[m] \in Sessions(Len(versions))  BY DEF TypeOK
<1>2. Len(versions) \in 1 .. Len(versions) /\ answered \in 1 .. Len(versions)
  BY DEF TypeOK
<1>3. r \in Sessions(Len(versions))  BY <1>1, <1>2 DEF Sessions, TypeOK
<1>4. session' = [session EXCEPT ![m] = r]  BY DEF TypeOK, Arrive
<1>5. /\ r.pc \in {"delay", "decide"} /\ r.used = settings
      /\ r.earliest = answered /\ r.latest = Len(versions)
  BY <1>1 DEF Sessions
<1> HIDE DEF r
<1>6. Elsewhere(m) /\ session'[m] = r  BY <1>3, <1>4, SessionBecomes DEF Elsewhere
<1> QED BY <1>5, <1>6

\* A step of one mail adds at most that mail to what is stored, left over and
\* announced, and leaves all the others and the requests alone.
LEMMA MailFrame ==
  ASSUME TypeOK, NEW m \in Mails, Arrive(m) \/ MailStep(m)
  PROVE  /\ Elsewhere(m)
         /\ UNCHANGED <<httpVars, stopVars>>
         /\ stored \subseteq stored' /\ stored' \subseteq stored \cup {m}
         /\ leftover \subseteq leftover' /\ leftover' \subseteq leftover \cup {m}
         /\ announced \subseteq announced' /\ announced' \subseteq announced \cup {m}
         /\ sent' \in [Mails -> [Relays -> Nat]]
         /\ \A k \in Mails \ {m}, r \in Relays : sent'[k][r] = sent[k][r]
         /\ reply' \in [Mails -> {"none", "accepted", "rejected", "error"}]
         /\ \A k \in Mails \ {m} : reply'[k] = reply[k]
<1>1. Elsewhere(m)
  <2>1. CASE Arrive(m)  BY <2>1, ArriveGoes
  <2>2. CASE Notify(m)  BY <2>2, NotifyGoes DEF Goes
  <2>3. CASE \E r \in Relays : RelayMail(m, r)  BY <2>3, RelayGoes DEF Goes
  <2>4. CASE Delay(m) \/ Decide(m) \/ Parse(m) \/ Store(m) \/ Accept(m)
    <3>1. \E p \in Places : session' = [session EXCEPT ![m].pc = p]
      BY <2>4 DEF Delay, Decide, Parse, Store, Accept, Answer, Places
    <3> QED BY <3>1, Going DEF Goes
  <2> QED BY <2>1, <2>2, <2>3, <2>4 DEF MailStep
<1>2. /\ UNCHANGED <<httpVars, stopVars>>
      /\ stored \subseteq stored' /\ stored' \subseteq stored \cup {m}
      /\ leftover \subseteq leftover' /\ leftover' \subseteq leftover \cup {m}
      /\ announced \subseteq announced' /\ announced' \subseteq announced \cup {m}
  BY DEF MailStep, Arrive, Delay, Decide, Parse, Store, Notify, RelayMail, Accept
<1>3. /\ sent' \in [Mails -> [Relays -> Nat]]
      /\ \A k \in Mails \ {m}, r \in Relays : sent'[k][r] = sent[k][r]
  <2>1. CASE \E r \in Relays : RelayMail(m, r)  BY <2>1, RelayGoes
  <2>2. CASE ~\E r \in Relays : RelayMail(m, r)
    <3>1. sent' = sent
      BY <2>2 DEF MailStep, Arrive, Delay, Decide, Parse, Store, Notify, Accept
    <3> QED BY <3>1 DEF TypeOK
  <2> QED BY <2>1, <2>2
<1>4. /\ reply' \in [Mails -> {"none", "accepted", "rejected", "error"}]
      /\ \A k \in Mails \ {m} : reply'[k] = reply[k]
  <2>1. \/ reply' = reply
        \/ \E code \in {"accepted", "rejected", "error"} : reply' = [reply EXCEPT ![m] = code]
    BY DEF MailStep, Arrive, Delay, Decide, Parse, Store, Notify, RelayMail, Accept, Answer
  <2> QED BY <2>1 DEF TypeOK
<1> QED BY <1>1, <1>2, <1>3, <1>4

\* The steps of a mail keep the types.
LEMMA MailType ==
  ASSUME TypeOK, NEW m \in Mails, Arrive(m) \/ MailStep(m)
  PROVE  TypeOK'
<1>1. /\ settings' = settings /\ versions' = versions /\ answered' = answered
      /\ request' = request /\ released' = released /\ waiter' = waiter
      /\ up' = up /\ timedOut' = timedOut
  BY MailFrame DEF httpVars, stopVars
<1>2. /\ session' \in [Mails -> Sessions(Len(versions))]
      /\ stored' \subseteq Mails /\ leftover' \subseteq Mails /\ announced' \subseteq Mails
  BY MailFrame DEF Elsewhere, TypeOK
<1>3. /\ sent' \in [Mails -> [Relays -> Nat]]
      /\ reply' \in [Mails -> {"none", "accepted", "rejected", "error"}]
  BY MailFrame
<1> QED BY <1>1, <1>2, <1>3 DEF TypeOK

\* A mail's own step keeps what its place says of it.
LEMMA MailOwn ==
  ASSUME ServerInv, NEW m \in Mails, Arrive(m) \/ MailStep(m)
  PROVE  /\ MailInv(m)' /\ RateInv(m)'
         /\ reply'[m] = "accepted" =>
              m \in stored' /\ m \in announced' /\ \A r \in Relays : sent'[m][r] = Due(r)
<1>0. /\ TypeOK /\ MailInv(m) /\ RateInv(m) /\ released' = released /\ versions' = versions
      /\ reply[m] = "accepted" =>
           m \in stored /\ m \in announced /\ \A r \in Relays : sent[m][r] = Due(r)
  BY MailFrame DEF ServerInv, AcceptedIsComplete, httpVars, Due
<1>1. CASE Arrive(m)
  <2>1. /\ session[m].pc = "new" /\ session'[m].pc \in {"delay", "decide"}
        /\ session'[m].used = settings
        /\ session'[m].earliest = answered /\ session'[m].latest = Len(versions)
    BY <1>0, <1>1, ArriveGoes DEF Arrive
  <2>2. /\ stored' = stored /\ leftover' = leftover /\ announced' = announced
        /\ sent' = sent /\ reply' = reply
    BY <1>1 DEF Arrive
  <2>3. Len(versions) \in answered .. Len(versions) /\ settings = versions[Len(versions)]
    BY <1>0 DEF ServerInv, TypeOK
  <2>4. MailInv(m)'  BY <1>0, <2>1, <2>2 DEF MailInv, Unstored, Undecided
  <2>5. RateInv(m)'  BY <1>0, <2>1, <2>2, <2>3 DEF RateInv, MailInv
  <2> QED BY <1>0, <2>2, <2>4, <2>5
<1>2. CASE Delay(m) \/ Parse(m) \/ Store(m) \/ Decide(m)
  <2>1. PICK p \in {"decide", "parse", "store", "notify", "over"} :
          session' = [session EXCEPT ![m].pc = p]
    BY <1>2 DEF Delay, Parse, Store, Decide, Answer
  <2>2. Goes(m, p) /\ session'[m].todo = session[m].todo
    BY <1>0, <2>1, Going DEF Places
  <2>3. announced' = announced /\ sent' = sent
    BY <1>2 DEF Delay, Parse, Store, Decide
  <2>4. reply[m] = "none"
    BY <1>0, <1>2 DEF MailInv, TypeOK, Delay, Parse, Store, Decide
  <2>5. /\ \/ /\ p \in {"decide", "parse", "store"} /\ reply' = reply
              /\ stored' = stored /\ leftover' = leftover
           \/ p = "notify" /\ m \in stored' /\ leftover' = leftover /\ reply' = reply
           \/ /\ p = "over" /\ stored' = stored /\ reply'[m] \in {"rejected", "error"}
              /\ leftover' = leftover \/ (reply'[m] = "error" /\ m \notin Unreadable)
        /\ p \in {"store", "notify"} => m \notin Unreadable
        /\ p \in {"parse", "store", "notify"} => session[m].used.rate < 100
        /\ reply'[m] = "rejected" => session[m].used.rate > 0
    <3>1. \A q \in Places : session' = [session EXCEPT ![m].pc = q] => q = p
      BY <1>0, <2>2, Going DEF Goes
    <3>2. \A code \in {"rejected", "error"} : reply' = [reply EXCEPT ![m] = code] => reply'[m] = code
      BY <1>0 DEF TypeOK
    <3>3. CASE Delay(m)   BY <2>4, <3>1, <3>3 DEF Delay, Places
    <3>4. CASE Decide(m)
      <4>1. CASE Answer(m, "rejected") /\ session[m].used.rate > 0
        <5>1. p = "over" /\ reply'[m] = "rejected"
          BY <3>1, <3>2, <4>1 DEF Answer, Places
        <5> QED BY <3>4, <4>1, <5>1 DEF Decide
      <4>2. CASE /\ session[m].used.rate < 100 /\ reply' = reply
                 /\ session' = [session EXCEPT ![m].pc = "parse"]
        <5>1. p = "parse"  BY <3>1, <4>2 DEF Places
        <5> QED BY <2>4, <3>4, <4>2, <5>1 DEF Decide
      <4> QED BY <3>4, <4>1, <4>2 DEF Decide
    <3>5. CASE Parse(m) \/ Store(m)
      <4>1. session[m].used.rate < 100  BY <1>0, <3>5 DEF RateInv, Parse, Store
      <4>2. leftover' = leftover \/ m \notin Unreadable
        BY <1>0, <3>5 DEF MailInv, Parse, Store
      <4>3. CASE Answer(m, "error") /\ stored' = stored
        <5>1. p = "over" /\ reply'[m] = "error"
          BY <3>1, <3>2, <4>3 DEF Answer, Places
        <5> QED BY <4>2, <4>3, <5>1
      <4>4. CASE ~Answer(m, "error")
        <5>1. \/ session' = [session EXCEPT ![m].pc = "store"] /\ stored' = stored
              \/ session' = [session EXCEPT ![m].pc = "notify"] /\ m \in stored'
          BY <3>5, <4>4 DEF Parse, Store
        <5>2. \/ p = "store" /\ stored' = stored
              \/ p = "notify" /\ m \in stored'
          BY <3>1, <5>1 DEF Places
        <5>3. reply' = reply /\ leftover' = leftover  BY <3>5, <4>4 DEF Parse, Store
        <5>4. m \notin Unreadable  BY <1>0, <3>5, <4>4 DEF MailInv, Parse, Store
        <5> QED BY <2>4, <4>1, <5>2, <5>3, <5>4
      <4>5. CASE Answer(m, "error") /\ stored' # stored
        <5>1. session' = [session EXCEPT ![m].pc = "notify"]  BY <3>5, <4>5 DEF Parse, Store
        <5>2. p = "notify" /\ p = "over"  BY <3>1, <4>5, <5>1 DEF Answer, Places
        <5> QED BY <5>2
      <4> QED BY <4>3, <4>4, <4>5
    <3> QED BY <1>2, <3>3, <3>4, <3>5
  <2>6. session[m].pc \in Unstored /\ session[m].pc # "new"
    BY <1>2 DEF Delay, Parse, Store, Decide, Unstored, Undecided
  <2>7. MailInv(m)'
    BY <1>0, <2>2, <2>3, <2>4, <2>5, <2>6 DEF MailInv, Goes, Unstored, Undecided
  <2>9. RateInv(m)'
    BY <1>0, <2>2, <2>4, <2>5, <2>6 DEF RateInv, Goes
  <2> QED BY <2>4, <2>5, <2>7, <2>9
<1>3. CASE Notify(m)
  <2>1. Goes(m, "relay") /\ session'[m].todo = AutoRelays
    BY <1>0, <1>3, NotifyGoes
  <2>2. /\ stored' = stored /\ leftover' = leftover /\ m \in announced'
        /\ sent' = sent /\ reply' = reply
        /\ session[m].pc = "notify"
    BY <1>3 DEF Notify
  <2>3. \A r \in Relays \ AutoRelays : Due(r) = 0  BY DEF AutoRelays, Due
  <2>4. MailInv(m)'
    BY <1>0, <2>1, <2>2, <2>3 DEF MailInv, Goes, Unstored, Undecided
  <2>5. RateInv(m)'  BY <1>0, <2>1, <2>2 DEF RateInv, Goes
  <2> QED BY <1>0, <2>2, <2>4, <2>5 DEF MailInv
<1>4. CASE \E r \in Relays : RelayMail(m, r)
  <2> PICK q \in Relays : RelayMail(m, q)  BY <1>4
  <2>1. /\ Goes(m, "relay") /\ session'[m].todo = session[m].todo \ {q}
        /\ sent'[m][q] = IF Known(q) THEN sent[m][q] + 1 ELSE sent[m][q]
        /\ \A r \in Relays : r # q => sent'[m][r] = sent[m][r]
    BY <1>0, RelayGoes
  <2>2. /\ stored' = stored /\ leftover' = leftover /\ announced' = announced
        /\ reply' = reply
        /\ session[m].pc = "relay" /\ q \in session[m].todo
    BY DEF RelayMail
  <2>3. q \in AutoRelays /\ sent[m][q] = 0  BY <1>0, <2>2 DEF MailInv
  <2>4. sent'[m][q] = Due(q)  BY <2>1, <2>3 DEF Known, Due, AutoRelays
  <2>5. MailInv(m)'
    BY <1>0, <2>1, <2>2, <2>4 DEF MailInv, Goes, Unstored, Undecided
  <2>6. RateInv(m)'  BY <1>0, <2>1, <2>2 DEF RateInv, Goes
  <2>7. reply[m] = "none"  BY <1>0, <2>2 DEF MailInv
  <2> QED BY <2>2, <2>5, <2>6, <2>7
<1>5. CASE Accept(m)
  <2>1. Goes(m, "over")
    BY <1>0, <1>5, Going DEF Accept, Answer, Places
  <2>2. /\ stored' = stored /\ leftover' = leftover /\ announced' = announced
        /\ sent' = sent
        /\ reply'[m] = "accepted" /\ session[m].pc = "relay" /\ session[m].todo = {}
    BY <1>0, <1>5 DEF Accept, Answer, TypeOK
  <2>3. m \in stored /\ m \in announced /\ \A r \in Relays : sent[m][r] = Due(r)
    BY <1>0, <2>2 DEF MailInv
  <2>4. MailInv(m)'
    BY <1>0, <2>1, <2>2 DEF MailInv, Goes, Unstored, Undecided
  <2>5. RateInv(m)'  BY <1>0, <2>1, <2>2 DEF RateInv, Goes
  <2> QED BY <2>2, <2>3, <2>4, <2>5
<1> QED BY <1>1, <1>2, <1>3, <1>4, <1>5 DEF MailStep

\* What a place says of a mail stays true when other mails move.
LEMMA MailOther ==
  ASSUME ServerInv, NEW m \in Mails, Arrive(m) \/ MailStep(m), NEW k \in Mails, k # m
  PROVE  /\ MailInv(k)' /\ RateInv(k)'
         /\ reply'[k] = "accepted" =>
              k \in stored' /\ k \in announced' /\ \A r \in Relays : sent'[k][r] = Due(r)
<1>1. /\ session'[k] = session[k] /\ reply'[k] = reply[k] /\ versions' = versions
      /\ k \in stored' <=> k \in stored
      /\ k \in leftover' <=> k \in leftover
      /\ k \in announced' <=> k \in announced
      /\ \A r \in Relays : sent'[k][r] = sent[k][r]
  BY MailFrame DEF ServerInv, Elsewhere, httpVars
<1>2. /\ MailInv(k) /\ RateInv(k)
      /\ reply[k] = "accepted" =>
           k \in stored /\ k \in announced /\ \A r \in Relays : sent[k][r] = Due(r)
  BY DEF ServerInv, AcceptedIsComplete, Due
<1>3. MailInv(k)'  BY <1>1, <1>2 DEF MailInv
<1>4. RateInv(k)'  BY <1>1, <1>2 DEF RateInv
<1> QED BY <1>1, <1>2, <1>3, <1>4

\* The steps of a mail keep what is known of every mail's progress.
LEMMA MailKeeps ==
  ASSUME ServerInv, NEW m \in Mails, Arrive(m) \/ MailStep(m)
  PROVE  ServerInv'
<1>0. TypeOK  BY DEF ServerInv
<1>1. TypeOK'  BY <1>0, MailType
<1>2. \A k \in Mails :
        /\ MailInv(k)' /\ RateInv(k)'
        /\ reply'[k] = "accepted" =>
             k \in stored' /\ k \in announced' /\ \A r \in Relays : sent'[k][r] = Due(r)
  BY MailOwn, MailOther
<1>3. AcceptedIsComplete'  BY <1>2 DEF AcceptedIsComplete, Due
<1>4. /\ settings' = settings /\ versions' = versions /\ request' = request
      /\ released' = released /\ waiter' = waiter
      /\ stored \subseteq stored' /\ leftover \subseteq leftover'
      /\ announced' \subseteq announced \cup {m}
  BY <1>0, MailFrame DEF httpVars, stopVars
<1>5. AnnouncedIsStored'
  <2>1. m \in announced' => m \in stored'
    <3>1. session'[m].pc \in Unstored \cup {"notify"} => m \notin announced'
      BY <1>2 DEF MailInv
    <3>2. session'[m].pc = "relay" => m \in stored'
      BY <1>2 DEF MailInv
    <3>3. m \in announced => m \in stored'  BY <1>4 DEF ServerInv, AnnouncedIsStored
    <3>4. m \in announced' => m \in announced \/ Notify(m)
      BY DEF MailStep, Arrive, Delay, Decide, Parse, Store, RelayMail, Accept
    <3>5. Notify(m) => session'[m].pc = "relay"  BY <1>0, NotifyGoes DEF Goes
    <3> QED BY <3>2, <3>3, <3>4, <3>5
  <2> QED BY <1>4, <2>1 DEF ServerInv, AnnouncedIsStored, MayBeRead
<1>6. \A h \in Requests : RequestInv(h)'
  BY <1>4 DEF ServerInv, RequestInv
<1>7. \A w \in Waiters : WaiterInv(w)'
  BY <1>4 DEF ServerInv, WaiterInv
<1>8. ReleaseIsExact'  BY <1>4 DEF ServerInv, ReleaseIsExact
<1>9. WaitIsHonest'  BY <1>4 DEF ServerInv, WaitIsHonest
<1>10. settings' = versions'[Len(versions')]  BY <1>4 DEF ServerInv
<1> QED BY <1>1, <1>2, <1>3, <1>5, <1>6, <1>7, <1>8, <1>9, <1>10 DEF ServerInv

-----------------------------------------------------------------------------
(* Steps of a request *)

\* An assignment to one request, and what it leaves of the others.
LEMMA RequestBecomes ==
  ASSUME TypeOK, NEW h \in Requests, NEW n \in Nat, n >= Len(versions),
         NEW q \in HttpHandlers(n), request' = [request EXCEPT ![h] = q]
  PROVE  /\ request' \in [Requests -> HttpHandlers(n)]
         /\ request'[h] = q
         /\ \A g \in Requests \ {h} : request'[g] = request[g]
<1>1. Len(versions) \in Nat  BY DEF TypeOK
<1>2. HttpHandlers(Len(versions)) \subseteq HttpHandlers(n)
  <2>1. 0 .. Len(versions) \subseteq 0 .. n  BY <1>1
  <2> QED BY <2>1 DEF HttpHandlers
<1>3. request \in [Requests -> HttpHandlers(n)]  BY <1>2 DEF TypeOK
<1> QED BY <1>3

\* Everything a request step but PutStore leaves alone, and that releases only add.
RequestFrame(h) ==
  /\ UNCHANGED <<settings, versions, mailVars, stopVars>>
  /\ request' \in [Requests -> HttpHandlers(Len(versions))]
  /\ \A g \in Requests \ {h} : request'[g] = request[g]
  /\ answered' \in 1 .. Len(versions)
  /\ released \subseteq released' /\ released' \subseteq Mails \X Relays
  /\ \A pair \in released' \ released : MayBeRead(pair[1])

\* A request that was just begun or is over.
PutNext(h) ==
  LET q == request'[h] IN
  /\ RequestFrame(h)
  /\ q.pc \in {"put", "broadcast", "over"}
  /\ q.relay = {} /\ q.ids = {} /\ q.succeeded = {} /\ q.failed = {}

\* A PUT of settings begins: what it puts is within bounds.
LEMMA PutStarts ==
  ASSUME ServerInv, NEW h \in Requests, NEW s \in Puts, PutStart(h, s)
  PROVE  PutNext(h)
<1> DEFINE q == [NewRequest EXCEPT !.pc = "put", !.put = s]
<1>0. TypeOK  BY DEF ServerInv
<1>1. Len(versions) \in Nat /\ Len(versions) >= Len(versions)  BY <1>0 DEF TypeOK
<1>2. q \in HttpHandlers(Len(versions))
  <2>1. s \in [rate : Int, delay : Int]  BY ServerAssumption
  <2>2. 0 \in 0 .. Len(versions)  BY <1>1
  <2> QED BY <2>1, <2>2 DEF NewRequest, HttpHandlers
<1>3. q.pc = "put" /\ q.relay = {} /\ q.ids = {} /\ q.succeeded = {} /\ q.failed = {}
  BY DEF NewRequest
<1>4. request' = [request EXCEPT ![h] = q]  BY DEF PutStart
<1> HIDE DEF q
<1>5. /\ request' \in [Requests -> HttpHandlers(Len(versions))] /\ request'[h] = q
      /\ \A g \in Requests \ {h} : request'[g] = request[g]
  BY <1>0, <1>1, <1>2, <1>4, RequestBecomes
<1>6. /\ UNCHANGED <<settings, versions, mailVars, stopVars>>
      /\ released' = released /\ answered' = answered
  BY DEF PutStart
<1> QED BY <1>0, <1>3, <1>5, <1>6 DEF PutNext, RequestFrame, TypeOK

\* A PUT is answered: its settings or later ones are in force.
LEMMA PutAnswers ==
  ASSUME ServerInv, NEW h \in Requests, PutAnswer(h)
  PROVE  PutNext(h)
<1> DEFINE q == [request[h] EXCEPT !.pc = "over"]
<1>0. TypeOK /\ RequestInv(h) /\ request[h].pc = "broadcast"  BY DEF ServerInv, PutAnswer
<1>1. Len(versions) \in Nat /\ Len(versions) >= Len(versions)  BY <1>0 DEF TypeOK
<1>2. request[h] \in HttpHandlers(Len(versions))  BY <1>0 DEF TypeOK
<1>3. q \in HttpHandlers(Len(versions))  BY <1>2 DEF HttpHandlers
<1>4. /\ q.pc = "over" /\ q.relay = request[h].relay /\ q.ids = request[h].ids
      /\ q.succeeded = request[h].succeeded /\ q.failed = request[h].failed
  BY <1>2 DEF HttpHandlers
<1>5. request' = [request EXCEPT ![h] = q]  BY <1>0 DEF PutAnswer, TypeOK
<1> HIDE DEF q
<1>6. /\ request' \in [Requests -> HttpHandlers(Len(versions))] /\ request'[h] = q
      /\ \A g \in Requests \ {h} : request'[g] = request[g]
  BY <1>0, <1>1, <1>3, <1>5, RequestBecomes
<1>7. UNCHANGED <<settings, versions, mailVars, stopVars>> /\ released' = released
  BY DEF PutAnswer
<1>8. answered' \in 1 .. Len(versions)
  <2>1. request[h].version \in 0 .. Len(versions)  BY <1>2 DEF HttpHandlers
  <2> QED BY <1>0, <1>1, <2>1 DEF PutAnswer, TypeOK
<1> QED BY <1>0, <1>4, <1>6, <1>7, <1>8 DEF PutNext, RequestFrame, TypeOK, RequestInv

\* A release, of many mails or of one: what it now says of itself is exact.
ReleaseNext(h) ==
  LET q == request'[h] IN
  /\ RequestFrame(h)
  /\ q.pc \in {"release", "one", "over"}
  /\ RequestInv(h)'
  /\ q.pc = "over" =>
       /\ q.succeeded \cap q.failed = {}
       /\ (\A r \in q.relay : Relay[r].enabled) => q.succeeded \cup q.failed = q.ids
       /\ \A m \in q.succeeded, r \in q.relay : Relay[r].enabled /\ <<m, r>> \in released'

\* A release begins: nothing is accounted for and everything is to do.
LEMMA ReleaseStarts ==
  ASSUME ServerInv, NEW h \in Requests, NEW r \in Relays,
         \/ \E ids \in Batches : ReleaseStart(h, ids, r)
         \/ \E m \in Mails : ReleaseOneStart(h, m, r)
  PROVE  ReleaseNext(h)
<1>0. TypeOK /\ RequestInv(h) /\ request[h].pc = "new"
  BY DEF ServerInv, ReleaseStart, ReleaseOneStart
<1>1. Len(versions) \in Nat /\ Len(versions) >= Len(versions)  BY <1>0 DEF TypeOK
<1>2. request[h] \in HttpHandlers(Len(versions))  BY <1>0 DEF TypeOK
<1>3. PICK q \in HttpHandlers(Len(versions)) :
        /\ request' = [request EXCEPT ![h] = q]
        /\ q.pc = IF Found(r) THEN q.pc ELSE "over"
        /\ q.pc \in {"release", "one", "over"} /\ (q.pc = "over" => ~Found(r))
        /\ q.relay = {r} /\ q.succeeded = {} /\ q.failed = {}
        /\ q.pc = "release" => q.todo = q.ids
  <2>1. CASE \E ids \in Batches : ReleaseStart(h, ids, r)
    <3> PICK ids \in Batches : ReleaseStart(h, ids, r)  BY <2>1
    <3> DEFINE q == [request[h] EXCEPT
                       !.pc = IF Found(r) THEN "release" ELSE "over",
                       !.relay = {r}, !.ids = ids, !.todo = IF Found(r) THEN ids ELSE {}]
    <3>1. ids \in SUBSET Mails  BY ServerAssumption
    <3>2. q \in HttpHandlers(Len(versions))  BY <1>2, <3>1 DEF HttpHandlers
    <3>3. /\ q.pc = IF Found(r) THEN "release" ELSE "over"
          /\ q.relay = {r} /\ q.ids = ids /\ q.todo = IF Found(r) THEN ids ELSE {}
          /\ q.succeeded = request[h].succeeded /\ q.failed = request[h].failed
      BY <1>2 DEF HttpHandlers
    <3>4. request' = [request EXCEPT ![h] = q]  BY <1>0 DEF ReleaseStart, TypeOK
    <3> HIDE DEF q
    <3>5. q.succeeded = {} /\ q.failed = {}  BY <1>0, <3>3 DEF RequestInv
    <3> QED BY <3>2, <3>3, <3>4, <3>5
  <2>2. CASE \E m \in Mails : ReleaseOneStart(h, m, r)
    <3> PICK m \in Mails : ReleaseOneStart(h, m, r)  BY <2>2
    <3> DEFINE q == [request[h] EXCEPT
                       !.pc = IF Found(r) THEN "one" ELSE "over", !.relay = {r}, !.ids = {m}]
    <3>1. q \in HttpHandlers(Len(versions))  BY <1>2 DEF HttpHandlers
    <3>2. /\ q.pc = IF Found(r) THEN "one" ELSE "over"
          /\ q.relay = {r}
          /\ q.succeeded = request[h].succeeded /\ q.failed = request[h].failed
      BY <1>2 DEF HttpHandlers
    <3>3. request' = [request EXCEPT ![h] = q]  BY <1>0 DEF ReleaseOneStart, TypeOK
    <3> HIDE DEF q
    <3>4. q.succeeded = {} /\ q.failed = {}  BY <1>0, <3>2 DEF RequestInv
    <3> QED BY <3>1, <3>2, <3>3, <3>4
  <2> QED BY <2>1, <2>2
<1>4. /\ request' \in [Requests -> HttpHandlers(Len(versions))] /\ request'[h] = q
      /\ \A g \in Requests \ {h} : request'[g] = request[g]
  BY <1>0, <1>1, <1>3, RequestBecomes
<1>5. /\ UNCHANGED <<settings, versions, mailVars, stopVars>>
      /\ released' = released /\ answered' = answered
  BY DEF ReleaseStart, ReleaseOneStart
<1>6. RequestFrame(h)  BY <1>0, <1>4, <1>5 DEF RequestFrame, TypeOK
<1>7. RequestInv(h)'  BY <1>3, <1>4 DEF RequestInv, Found
<1> QED BY <1>3, <1>4, <1>6, <1>7 DEF ReleaseNext, Found

\* One round of a release: the mail moves to one of the two lists.
LEMMA ReleaseGoesOn ==
  ASSUME ServerInv, NEW h \in Requests, NEW m \in Mails, Release(h, m)
  PROVE  ReleaseNext(h)
<1>0. TypeOK /\ RequestInv(h) /\ request[h].pc = "release" /\ m \in request[h].todo
  BY DEF ServerInv, Release
<1>1. Len(versions) \in Nat /\ Len(versions) >= Len(versions)  BY <1>0 DEF TypeOK
<1>2. request[h] \in HttpHandlers(Len(versions))  BY <1>0 DEF TypeOK
<1>3. PICK works \in BOOLEAN :
        LET through == MayBeRead(m) /\ works /\ \A r \in request[h].relay : Known(r) IN
        /\ request' = [request EXCEPT ![h] = [request[h] EXCEPT
             !.todo = request[h].todo \ {m},
             !.succeeded = IF through THEN request[h].succeeded \cup {m}
                                      ELSE request[h].succeeded,
             !.failed = IF through THEN request[h].failed
                                   ELSE request[h].failed \cup {m}]]
        /\ released' = IF through THEN released \cup {<<m, r>> : r \in request[h].relay}
                                  ELSE released
  BY DEF Release
<1> DEFINE through == MayBeRead(m) /\ works /\ \A r \in request[h].relay : Known(r)
<1> DEFINE old == request[h]
           q == [old EXCEPT !.todo = old.todo \ {m},
                            !.succeeded = IF through THEN old.succeeded \cup {m} ELSE old.succeeded,
                            !.failed = IF through THEN old.failed ELSE old.failed \cup {m}]
<1>4. q \in HttpHandlers(Len(versions))  BY <1>2 DEF HttpHandlers
<1>5. /\ q.pc = "release" /\ q.relay = old.relay /\ q.ids = old.ids
      /\ q.todo = old.todo \ {m}
      /\ q.succeeded = IF through THEN old.succeeded \cup {m} ELSE old.succeeded
      /\ q.failed = IF through THEN old.failed ELSE old.failed \cup {m}
  BY <1>0, <1>2 DEF HttpHandlers
<1>6. request' = [request EXCEPT ![h] = q]  BY <1>3
<1>12. /\ released' = IF through THEN released \cup {<<m, r>> : r \in old.relay} ELSE released
       /\ through => MayBeRead(m)
  BY <1>3
<1> HIDE DEF q, through
<1>7. /\ request' \in [Requests -> HttpHandlers(Len(versions))] /\ request'[h] = q
      /\ \A g \in Requests \ {h} : request'[g] = request[g]
  BY <1>0, <1>1, <1>4, <1>6, RequestBecomes
<1>8. UNCHANGED <<settings, versions, mailVars, stopVars>> /\ answered' = answered
  BY DEF Release
<1>9. /\ released \subseteq released'
      /\ released' \subseteq Mails \X Relays
      /\ \A pair \in released' \ released : MayBeRead(pair[1])
      /\ through => \A r \in old.relay : <<m, r>> \in released'
  <2>1. old.relay \subseteq Relays  BY <1>2 DEF HttpHandlers
  <2> QED BY <1>0, <1>12, <2>1 DEF TypeOK
<1>10. RequestFrame(h)  BY <1>0, <1>7, <1>8, <1>9 DEF RequestFrame, TypeOK
<1>11. RequestInv(h)'
  <2>1. /\ \A r \in q.relay : Relay[r].enabled
        /\ q.succeeded \cap q.failed = {} /\ (q.succeeded \cup q.failed) \cap q.todo = {}
        /\ q.succeeded \cup q.failed \cup q.todo = q.ids
    BY <1>0, <1>5 DEF RequestInv
  <2>2. \A k \in q.succeeded, r \in q.relay : <<k, r>> \in released'
    BY <1>0, <1>5, <1>9 DEF RequestInv
  <2> QED BY <1>5, <1>7, <2>1, <2>2 DEF RequestInv
<1> QED BY <1>5, <1>7, <1>10, <1>11 DEF ReleaseNext

\* A release is answered: the two lists hold what it was given.
LEMMA ReleaseEnds ==
  ASSUME ServerInv, NEW h \in Requests, ReleaseAnswer(h) \/ ReleaseOne(h)
  PROVE  ReleaseNext(h)
<1>0. TypeOK /\ RequestInv(h)  BY DEF ServerInv
<1>1. Len(versions) \in Nat /\ Len(versions) >= Len(versions)  BY <1>0 DEF TypeOK
<1>2. request[h] \in HttpHandlers(Len(versions))  BY <1>0 DEF TypeOK
<1> DEFINE old == request[h]
<1>3. \E q \in HttpHandlers(Len(versions)) :
        /\ request' = [request EXCEPT ![h] = q]
        /\ q.pc = "over" /\ q.succeeded \cap q.failed = {} /\ q.succeeded \cup q.failed = q.ids
        /\ released \subseteq released' /\ released' \subseteq Mails \X Relays
        /\ \A pair \in released' \ released : MayBeRead(pair[1])
        /\ \A m \in q.succeeded, r \in q.relay : Relay[r].enabled /\ <<m, r>> \in released'
  <2>1. CASE ReleaseAnswer(h)
    <3> DEFINE q == [old EXCEPT !.pc = "over"]
    <3>1. q \in HttpHandlers(Len(versions))  BY <1>2 DEF HttpHandlers
    <3>2. /\ q.pc = "over" /\ q.relay = old.relay /\ q.ids = old.ids
          /\ q.succeeded = old.succeeded /\ q.failed = old.failed
      BY <1>2 DEF HttpHandlers
    <3>3. request' = [request EXCEPT ![h] = q]  BY <1>0, <2>1 DEF TypeOK, ReleaseAnswer
    <3> HIDE DEF q
    <3>4. released' = released /\ old.pc = "release" /\ old.todo = {}  BY <2>1 DEF ReleaseAnswer
    <3>5. /\ q.succeeded \cap q.failed = {} /\ q.succeeded \cup q.failed = q.ids
          /\ \A m \in q.succeeded, r \in q.relay : Relay[r].enabled /\ <<m, r>> \in released'
      <4> HIDE DEF old
      <4>1. /\ old.succeeded \cap old.failed = {}
            /\ old.succeeded \cup old.failed \cup old.todo = old.ids
            /\ \A r \in old.relay : Relay[r].enabled
            /\ \A m \in old.succeeded, r \in old.relay : <<m, r>> \in released
        BY <1>0, <3>4 DEF RequestInv, old
      <4> QED BY <3>2, <3>4, <4>1
    <3>6. released \subseteq Mails \X Relays  BY <1>0 DEF TypeOK
    <3> QED BY <3>1, <3>2, <3>3, <3>4, <3>5, <3>6
  <2>2. CASE ReleaseOne(h)
    <3>1. PICK works \in BOOLEAN :
            LET through == works /\ \A m \in old.ids, r \in old.relay : MayBeRead(m) /\ Known(r) IN
            /\ request' = [request EXCEPT ![h] = [@ EXCEPT
                 !.pc = "over",
                 !.succeeded = IF through THEN old.ids ELSE {},
                 !.failed = IF through THEN {} ELSE old.ids]]
            /\ released' = IF through THEN released \cup (old.ids \X old.relay) ELSE released
      BY <2>2 DEF ReleaseOne
    <3> DEFINE through == works /\ \A m \in old.ids, r \in old.relay : MayBeRead(m) /\ Known(r)
               q == [old EXCEPT !.pc = "over",
                                !.succeeded = IF through THEN old.ids ELSE {},
                                !.failed = IF through THEN {} ELSE old.ids]
    <3>2. q \in HttpHandlers(Len(versions))  BY <1>2 DEF HttpHandlers
    <3>3. /\ q.pc = "over" /\ q.relay = old.relay /\ q.ids = old.ids
          /\ q.succeeded = IF through THEN old.ids ELSE {}
          /\ q.failed = IF through THEN {} ELSE old.ids
      BY <1>2 DEF HttpHandlers
    <3>4. request' = [request EXCEPT ![h] = q]  BY <1>0, <3>1 DEF TypeOK
    <3>5. released' = IF through THEN released \cup (old.ids \X old.relay) ELSE released
      BY <3>1
    <3>6. through => \A m \in old.ids, r \in old.relay : MayBeRead(m)  OBVIOUS
    <3> HIDE DEF q, through
    <3>7. /\ \A r \in old.relay : Relay[r].enabled
          /\ old.ids \subseteq Mails /\ old.relay \subseteq Relays
      BY <1>0, <1>2, <2>2 DEF RequestInv, ReleaseOne, HttpHandlers
    <3>8. /\ released \subseteq released' /\ released' \subseteq Mails \X Relays
          /\ \A pair \in released' \ released : MayBeRead(pair[1])
          /\ through => \A m \in old.ids, r \in old.relay : <<m, r>> \in released'
      BY <1>0, <3>5, <3>6, <3>7 DEF TypeOK
    <3>9. /\ q.succeeded \cap q.failed = {} /\ q.succeeded \cup q.failed = q.ids
          /\ \A m \in q.succeeded, r \in q.relay : Relay[r].enabled /\ <<m, r>> \in released'
      BY <3>3, <3>7, <3>8
    <3>10. q.pc = "over"  BY <3>3
    <3>11. /\ released \subseteq released' /\ released' \subseteq Mails \X Relays
           /\ \A pair \in released' \ released : MayBeRead(pair[1])
      BY <3>8
    <3> QED BY <3>2, <3>4, <3>9, <3>10, <3>11
  <2> QED BY <2>1, <2>2
<1>4. PICK q \in HttpHandlers(Len(versions)) :
        /\ request' = [request EXCEPT ![h] = q]
        /\ q.pc = "over" /\ q.succeeded \cap q.failed = {} /\ q.succeeded \cup q.failed = q.ids
        /\ released \subseteq released' /\ released' \subseteq Mails \X Relays
        /\ \A pair \in released' \ released : MayBeRead(pair[1])
        /\ \A m \in q.succeeded, r \in q.relay : Relay[r].enabled /\ <<m, r>> \in released'
  BY <1>3
<1>5. /\ request' \in [Requests -> HttpHandlers(Len(versions))] /\ request'[h] = q
      /\ \A g \in Requests \ {h} : request'[g] = request[g]
  BY <1>0, <1>1, <1>4, RequestBecomes
<1>6. UNCHANGED <<settings, versions, mailVars, stopVars>> /\ answered' = answered
  BY DEF ReleaseAnswer, ReleaseOne
<1>7. RequestFrame(h)  BY <1>0, <1>4, <1>5, <1>6 DEF RequestFrame, TypeOK
<1>8. RequestInv(h)'  BY <1>4, <1>5 DEF RequestInv
<1> QED BY <1>4, <1>5, <1>7, <1>8 DEF ReleaseNext

\* New settings are one more version; those a mail or a request refers to stay.
LEMMA PutStores ==
  ASSUME ServerInv, NEW h \in Requests, PutStore(h)
  PROVE  ServerInv'
<1> DEFINE n == Len(versions)
           q == [request[h] EXCEPT !.pc = "broadcast", !.version = n + 1]
<1>0. TypeOK /\ RequestInv(h) /\ request[h].pc = "put"  BY DEF ServerInv, PutStore
<1>1. request[h] \in HttpHandlers(n) /\ n \in Nat /\ versions \in Seq(Settings)
  BY <1>0 DEF TypeOK
<1>2. settings' \in Settings
  <2>1. request[h].put \in [rate : Int, delay : Int]  BY <1>1 DEF HttpHandlers
  <2>2. Clamped(request[h].put) \in Settings
    BY <2>1 DEF Clamped, Clamp, Settings
  <2> QED BY <2>2 DEF PutStore
<1>3. /\ versions' \in Seq(Settings) /\ Len(versions') = n + 1
      /\ versions'[n + 1] = settings' /\ \A v \in 1 .. n : versions'[v] = versions[v]
  BY <1>1, <1>2 DEF PutStore
<1>4. q \in HttpHandlers(n + 1)
  <2>1. n + 1 \in 0 .. (n + 1) /\ 0 .. n \subseteq 0 .. (n + 1)  BY <1>1
  <2> HIDE DEF n
  <2> QED BY <1>1, <2>1 DEF HttpHandlers
<1>5. /\ q.pc = "broadcast" /\ q.relay = request[h].relay /\ q.ids = request[h].ids
      /\ q.succeeded = request[h].succeeded /\ q.failed = request[h].failed
  BY <1>1 DEF HttpHandlers
<1>6. request' = [request EXCEPT ![h] = q]
  <2>1. Len(versions') = n + 1  BY <1>3
  <2> QED BY <1>0, <2>1 DEF PutStore, TypeOK
<1>7. n + 1 \in Nat /\ n + 1 >= Len(versions)  BY <1>1
<1> HIDE DEF q
<1>8. /\ request' \in [Requests -> HttpHandlers(n + 1)] /\ request'[h] = q
      /\ \A g \in Requests \ {h} : request'[g] = request[g]
  BY <1>0, <1>4, <1>6, <1>7, RequestBecomes
<1>9. /\ UNCHANGED <<mailVars, stopVars>>
      /\ released' = released /\ answered' = answered
  BY DEF PutStore
<1> HIDE DEF n
<1>10. 1 .. n \subseteq 1 .. (n + 1)  BY <1>1
<1>11. session' \in [Mails -> Sessions(n + 1)]
  <2>1. Sessions(n) \subseteq Sessions(n + 1)  BY <1>10 DEF Sessions
  <2> QED BY <1>0, <1>9, <2>1 DEF TypeOK, mailVars, n
<1>12. TypeOK'
  <2>1. answered \in 1 .. (n + 1)  BY <1>0, <1>10 DEF TypeOK, n
  <2> QED BY <1>0, <1>2, <1>3, <1>8, <1>9, <1>11, <2>1 DEF TypeOK, mailVars, stopVars
<1>13. \A m \in Mails : MailInv(m)' /\ RateInv(m)'
  <2> TAKE m \in Mails
  <2>1. MailInv(m)'  BY <1>9 DEF ServerInv, MailInv, mailVars
  <2>2. RateInv(m) /\ session[m] \in Sessions(n)  BY <1>0 DEF ServerInv, TypeOK, n
  <2>3. session[m].earliest .. session[m].latest \subseteq 1 .. n
    BY <1>1, <2>2 DEF Sessions
  <2>4. session' = session /\ reply' = reply  BY <1>9 DEF mailVars
  <2>5. RateInv(m)'  BY <1>3, <2>2, <2>3, <2>4 DEF RateInv
  <2> QED BY <2>1, <2>5
<1>14. \A g \in Requests : RequestInv(g)'
  <2> TAKE g \in Requests
  <2>1. CASE g = h
    BY <1>0, <1>5, <1>8, <2>1 DEF RequestInv
  <2>2. CASE g # h
    <3>1. request'[g] = request[g] /\ RequestInv(g)  BY <1>8, <2>2 DEF ServerInv
    <3> QED BY <1>9, <3>1 DEF RequestInv
  <2> QED BY <2>1, <2>2
<1>15. \A w \in Waiters : WaiterInv(w)'
  BY <1>9 DEF ServerInv, WaiterInv, stopVars, mailVars
<1>16. AnnouncedIsStored' /\ AcceptedIsComplete' /\ WaitIsHonest'
  BY <1>9 DEF ServerInv, AnnouncedIsStored, AcceptedIsComplete, WaitIsHonest, MayBeRead,
              mailVars, stopVars
<1>17. ReleaseIsExact'
  <2>1. request'[h].pc # "over"  BY <1>5, <1>8
  <2> QED BY <1>8, <1>9, <2>1 DEF ServerInv, ReleaseIsExact
<1>18. settings' = versions'[Len(versions')]  BY <1>3
<1> QED BY <1>12, <1>13, <1>14, <1>15, <1>16, <1>17, <1>18 DEF ServerInv

\* Every other step of a request leaves mails, settings and callers alone.
LEMMA RequestKeeps ==
  ASSUME ServerInv, NEW h \in Requests, PutNext(h) \/ ReleaseNext(h)
  PROVE  ServerInv'
<1>0. RequestFrame(h) /\ TypeOK  BY DEF PutNext, ReleaseNext, ServerInv
<1>1. /\ settings' = settings /\ versions' = versions /\ session' = session /\ stored' = stored
      /\ leftover' = leftover
      /\ sent' = sent /\ announced' = announced /\ reply' = reply /\ waiter' = waiter
      /\ up' = up /\ timedOut' = timedOut
      /\ released \subseteq released' /\ released' \subseteq Mails \X Relays
      /\ \A pair \in released' \ released : MayBeRead(pair[1])
      /\ answered' \in 1 .. Len(versions)
      /\ request' \in [Requests -> HttpHandlers(Len(versions))]
      /\ \A g \in Requests \ {h} : request'[g] = request[g]
  BY <1>0 DEF RequestFrame, mailVars, stopVars
<1>2. TypeOK'  BY <1>0, <1>1 DEF TypeOK
<1>3. \A m \in Mails : MailInv(m)' /\ RateInv(m)'
  BY <1>1 DEF ServerInv, MailInv, RateInv
<1>4. \A g \in Requests : RequestInv(g)'
  <2> TAKE g \in Requests
  <2>1. CASE g # h
    <3>1. request'[g] = request[g] /\ RequestInv(g)  BY <1>1, <2>1 DEF ServerInv
    <3> QED BY <1>1, <3>1 DEF RequestInv
  <2>2. CASE g = h
    <3>1. CASE ReleaseNext(h)  BY <2>2, <3>1 DEF ReleaseNext
    <3>2. CASE PutNext(h)  BY <2>2, <3>2 DEF PutNext, RequestInv
    <3> QED BY <3>1, <3>2
  <2> QED BY <2>1, <2>2
<1>5. ReleaseIsExact'
  <2> SUFFICES ASSUME NEW g \in Requests, request'[g].pc = "over"
               PROVE  LET q == request'[g] IN
                      /\ q.succeeded \cap q.failed = {}
                      /\ (\A r \in q.relay : Relay[r].enabled) =>
                           q.succeeded \cup q.failed = q.ids
                      /\ \A m \in q.succeeded, r \in q.relay :
                           Relay[r].enabled /\ <<m, r>> \in released'
    BY DEF ReleaseIsExact
  <2>1. CASE g # h
    <3>1. request'[g] = request[g]  BY <1>1, <2>1
    <3> QED BY <1>1, <3>1 DEF ServerInv, ReleaseIsExact
  <2>2. CASE g = h /\ ReleaseNext(h)  BY <2>2 DEF ReleaseNext
  <2>3. CASE g = h /\ PutNext(h)  BY <2>3 DEF PutNext
  <2> QED BY <2>1, <2>2, <2>3
<1>6. \A w \in Waiters : WaiterInv(w)'  BY <1>1 DEF ServerInv, WaiterInv
<1>7. AcceptedIsComplete' /\ WaitIsHonest' /\ settings' = versions'[Len(versions')]
  BY <1>1 DEF ServerInv, AcceptedIsComplete, WaitIsHonest
<1>8. AnnouncedIsStored'
  BY <1>1 DEF ServerInv, AnnouncedIsStored, MayBeRead
<1> QED BY <1>2, <1>3, <1>4, <1>5, <1>6, <1>7, <1>8 DEF ServerInv

-----------------------------------------------------------------------------
(* Steps of a caller that waits, and of the process *)

\* Each look is at the mails stored now, which are never fewer than before, and may
\* find one that is left over.
LEMMA WaitOwn ==
  ASSUME ServerInv, NEW w \in Waiters,
         \/ \E wants \in Queries : WaitStart(w, wants)
         \/ WaitLook(w) \/ WaitExpires(w) \/ WaitTicks(w) \/ WaitGone(w)
  PROVE  /\ waiter' \in [Waiters -> WaitHandlers]
         /\ \A x \in Waiters \ {w} : waiter'[x] = waiter[x]
         /\ WaiterInv(w)' /\ stored' = stored /\ leftover' = leftover
         /\ waiter'[w].pc = "found" =>
              waiter'[w].hit # {} /\ waiter'[w].hit \subseteq waiter'[w].wants
         /\ waiter'[w].pc = "expired" => waiter'[w].before = {} \/ waiter'[w].failed
<1> DEFINE old == waiter[w]
<1>0. /\ waiter \in [Waiters -> WaitHandlers] /\ old \in WaitHandlers /\ stored \subseteq Mails
      /\ WaiterInv(w) /\ old.hit \subseteq stored \cup leftover
  BY DEF ServerInv, TypeOK, WaiterInv
<1>1. stored' = stored /\ leftover' = leftover
  BY DEF WaitStart, WaitLook, WaitExpires, WaitTicks, WaitGone, WaitUnchanged, mailVars
<1>2. \E q \in WaitHandlers :
        /\ waiter' = [waiter EXCEPT ![w] = q]
        /\ q.pc # "new" => q.before \subseteq stored \cap q.wants
        /\ q.pc \in {"select", "expired"} => q.before = {} \/ q.failed
        /\ q.pc = "found" => q.hit # {} /\ q.hit \subseteq q.wants
        /\ q.hit \subseteq stored \cup leftover
  <2>1. CASE \E wants \in Queries : WaitStart(w, wants)
    <3> PICK wants \in Queries : WaitStart(w, wants)  BY <2>1
    <3> DEFINE q == [old EXCEPT !.pc = "look", !.wants = wants, !.before = stored \cap wants]
    <3>1. wants \subseteq Mails  BY ServerAssumption
    <3>2. q \in WaitHandlers  BY <1>0, <3>1 DEF WaitHandlers
    <3>3. /\ q.pc = "look" /\ q.wants = wants /\ q.before = stored \cap wants
          /\ q.hit = old.hit
      BY <1>0 DEF WaitHandlers
    <3>4. waiter' = [waiter EXCEPT ![w] = q]  BY <1>0 DEF WaitStart
    <3> HIDE DEF q
    <3> QED BY <1>0, <3>2, <3>3, <3>4
  <2>2. CASE WaitLook(w)
    <3> DEFINE matches == stored \cap old.wants
    <3>1. old.pc = "look" /\ old.before \subseteq matches
      BY <1>0, <2>2 DEF WaitLook, WaiterInv
    <3>2. CASE \E m \in old.wants :
                 /\ MayBeRead(m)
                 /\ waiter' = [waiter EXCEPT ![w].pc = "found", ![w].hit = {m}]
      <4> PICK m \in old.wants :
                 /\ MayBeRead(m)
                 /\ waiter' = [waiter EXCEPT ![w].pc = "found", ![w].hit = {m}]
        BY <3>2
      <4> DEFINE q == [old EXCEPT !.pc = "found", !.hit = {m}]
      <4>0. m \in Mails /\ m \in stored \cup leftover
        BY <1>0 DEF MayBeRead, WaitHandlers
      <4>1. q \in WaitHandlers  BY <1>0, <4>0 DEF WaitHandlers
      <4>2. q.pc = "found" /\ q.hit = {m} /\ q.wants = old.wants /\ q.before = old.before
        BY <1>0 DEF WaitHandlers
      <4>3. waiter' = [waiter EXCEPT ![w] = q]  BY <1>0
      <4> HIDE DEF q
      <4> QED BY <3>1, <4>0, <4>1, <4>2, <4>3
    <3>3. CASE matches = {} /\ waiter' = [waiter EXCEPT ![w].pc = "select"]
      <4> DEFINE q == [old EXCEPT !.pc = "select"]
      <4>1. q \in WaitHandlers  BY <1>0 DEF WaitHandlers
      <4>2. /\ q.pc = "select" /\ q.wants = old.wants /\ q.before = old.before
            /\ q.hit = old.hit
        BY <1>0 DEF WaitHandlers
      <4>3. waiter' = [waiter EXCEPT ![w] = q]  BY <1>0, <3>3
      <4> HIDE DEF q
      <4> QED BY <1>0, <3>1, <3>3, <4>1, <4>2, <4>3
    <3>4. CASE waiter' = [waiter EXCEPT ![w].pc = "select", ![w].failed = TRUE]
      <4> DEFINE q == [old EXCEPT !.pc = "select", !.failed = TRUE]
      <4>1. q \in WaitHandlers  BY <1>0 DEF WaitHandlers
      <4>2. /\ q.pc = "select" /\ q.failed = TRUE /\ q.wants = old.wants
            /\ q.before = old.before /\ q.hit = old.hit
        BY <1>0 DEF WaitHandlers
      <4>3. waiter' = [waiter EXCEPT ![w] = q]  BY <1>0, <3>4
      <4> HIDE DEF q
      <4> QED BY <1>0, <3>1, <4>1, <4>2, <4>3
    <3> QED BY <2>2, <3>2, <3>3, <3>4 DEF WaitLook
  <2>3. CASE WaitExpires(w) \/ WaitTicks(w) \/ WaitGone(w)
    <3>1. PICK p \in {"look", "expired", "gone"} : waiter' = [waiter EXCEPT ![w].pc = p]
      BY <2>3 DEF WaitExpires, WaitTicks, WaitGone
    <3> DEFINE q == [old EXCEPT !.pc = p]
    <3>2. q \in WaitHandlers  BY <1>0 DEF WaitHandlers
    <3>3. /\ q.pc = p /\ q.wants = old.wants /\ q.before = old.before
          /\ q.failed = old.failed /\ q.hit = old.hit
      BY <1>0 DEF WaitHandlers
    <3>4. waiter' = [waiter EXCEPT ![w] = q]  BY <1>0, <3>1
    <3>5. old.pc = "select"  BY <2>3 DEF WaitExpires, WaitTicks, WaitGone
    <3>6. old.before \subseteq stored \cap old.wants /\ (old.before = {} \/ old.failed)
      BY <1>0, <3>5 DEF WaiterInv
    <3> HIDE DEF q
    <3> QED BY <1>0, <3>2, <3>3, <3>4, <3>6
  <2> QED BY <2>1, <2>2, <2>3
<1>3. PICK q \in WaitHandlers :
        /\ waiter' = [waiter EXCEPT ![w] = q]
        /\ q.pc # "new" => q.before \subseteq stored \cap q.wants
        /\ q.pc \in {"select", "expired"} => q.before = {} \/ q.failed
        /\ q.pc = "found" => q.hit # {} /\ q.hit \subseteq q.wants
        /\ q.hit \subseteq stored \cup leftover
  BY <1>2
<1>4. /\ waiter' \in [Waiters -> WaitHandlers] /\ waiter'[w] = q
      /\ \A x \in Waiters \ {w} : waiter'[x] = waiter[x]
  BY <1>0, <1>3
<1>5. WaiterInv(w)'  BY <1>1, <1>3, <1>4 DEF WaiterInv
<1> QED BY <1>1, <1>3, <1>4, <1>5

\* The steps of a waiting caller keep what is known of its looks.
LEMMA WaitKeeps ==
  ASSUME ServerInv, NEW w \in Waiters,
         \/ \E wants \in Queries : WaitStart(w, wants)
         \/ WaitLook(w) \/ WaitExpires(w) \/ WaitTicks(w) \/ WaitGone(w)
  PROVE  ServerInv'
<1>0. UNCHANGED <<mailVars, httpVars, up, timedOut>>
  BY DEF WaitStart, WaitLook, WaitExpires, WaitTicks, WaitGone, WaitUnchanged
<1>1. TypeOK'  BY <1>0, WaitOwn DEF ServerInv, TypeOK, mailVars, httpVars
<1>2. \A x \in Waiters : WaiterInv(x)'
  <2> TAKE x \in Waiters
  <2>1. CASE x = w  BY <2>1, WaitOwn
  <2>2. CASE x # w
    <3>1. waiter'[x] = waiter[x] /\ stored' = stored /\ leftover' = leftover
      BY <2>2, WaitOwn
    <3> QED BY <3>1 DEF ServerInv, WaiterInv
  <2> QED BY <2>1, <2>2
<1>3. WaitIsHonest'
  <2> SUFFICES ASSUME NEW x \in Waiters
               PROVE  /\ waiter'[x].pc = "found" =>
                           waiter'[x].hit # {} /\ waiter'[x].hit \subseteq waiter'[x].wants
                      /\ waiter'[x].pc = "expired" => waiter'[x].before = {} \/ waiter'[x].failed
    BY <1>2 DEF WaitIsHonest, WaiterInv
  <2>1. CASE x = w  BY <2>1, WaitOwn
  <2>2. CASE x # w
    <3>1. waiter'[x] = waiter[x]  BY <2>2, WaitOwn
    <3> QED BY <3>1 DEF ServerInv, WaitIsHonest
  <2> QED BY <2>1, <2>2
<1>4. \A m \in Mails : MailInv(m)' /\ RateInv(m)'
  BY <1>0 DEF ServerInv, MailInv, RateInv, mailVars, httpVars
<1>5. \A h \in Requests : RequestInv(h)'
  BY <1>0 DEF ServerInv, RequestInv, httpVars
<1>6. AnnouncedIsStored' /\ AcceptedIsComplete' /\ settings' = versions'[Len(versions')]
  BY <1>0 DEF ServerInv, AnnouncedIsStored, AcceptedIsComplete, MayBeRead, mailVars, httpVars
<1>7. ReleaseIsExact'  BY <1>0 DEF ServerInv, ReleaseIsExact, httpVars
<1> QED BY <1>1, <1>2, <1>3, <1>4, <1>5, <1>6, <1>7 DEF ServerInv

\* The end of the process changes nothing of what was promised.
LEMMA StopKeeps ==
  ASSUME ServerInv, UNCHANGED <<mailVars, httpVars, waiter>>,
         up' \in {"serving", "stopping", "exited"}, timedOut' \in BOOLEAN
  PROVE  ServerInv'
<1>1. TypeOK'  BY DEF ServerInv, TypeOK, mailVars, httpVars
<1>2. \A m \in Mails : MailInv(m)' /\ RateInv(m)'
  BY DEF ServerInv, MailInv, RateInv, mailVars, httpVars
<1>3. \A h \in Requests : RequestInv(h)'  BY DEF ServerInv, RequestInv, httpVars
<1>4. \A w \in Waiters : WaiterInv(w)'  BY DEF ServerInv, WaiterInv, mailVars
<1>5. AnnouncedIsStored' /\ AcceptedIsComplete' /\ settings' = versions'[Len(versions')]
  BY DEF ServerInv, AnnouncedIsStored, AcceptedIsComplete, MayBeRead, mailVars, httpVars
<1>6. ReleaseIsExact'  BY DEF ServerInv, ReleaseIsExact, httpVars
<1>7. WaitIsHonest'  BY DEF ServerInv, WaitIsHonest, mailVars
<1> QED BY <1>1, <1>2, <1>3, <1>4, <1>5, <1>6, <1>7 DEF ServerInv

-----------------------------------------------------------------------------
(* The theorems *)

\* The invariant holds when the process starts.
LEMMA ServerInvInit == Init => ServerInv
<1> SUFFICES ASSUME Init PROVE ServerInv
  OBVIOUS
<1>1. FirstSettings \in Settings  BY DEF FirstSettings, Settings
<1>2. /\ versions \in Seq(Settings) /\ Len(versions) = 1 /\ versions[1] = settings
      /\ settings \in Settings /\ answered = 1
  BY <1>1 DEF Init
<1>3. NewSession \in Sessions(1) /\ NewSession.pc = "new"
  BY <1>1 DEF NewSession, Sessions
<1>4. /\ NewRequest \in HttpHandlers(1) /\ NewRequest.pc = "new"
      /\ NewRequest.relay = {} /\ NewRequest.ids = {}
      /\ NewRequest.succeeded = {} /\ NewRequest.failed = {}
  BY DEF NewRequest, HttpHandlers, FirstSettings
<1>5. NewWaiter \in WaitHandlers /\ NewWaiter.pc = "new" /\ NewWaiter.hit = {}
  BY DEF NewWaiter, WaitHandlers
<1>6. /\ stored = {} /\ leftover = {} /\ announced = {} /\ released = {}
      /\ \A m \in Mails : session[m] = NewSession /\ reply[m] = "none"
      /\ \A m \in Mails, r \in Relays : sent[m][r] = 0
      /\ \A h \in Requests : request[h] = NewRequest
      /\ \A w \in Waiters : waiter[w] = NewWaiter
  BY DEF Init
<1>7. TypeOK
  <2>1. /\ session \in [Mails -> Sessions(1)] /\ request \in [Requests -> HttpHandlers(1)]
        /\ waiter \in [Waiters -> WaitHandlers]
    BY <1>3, <1>4, <1>5 DEF Init
  <2>2. /\ sent \in [Mails -> [Relays -> Nat]]
        /\ reply \in [Mails -> {"none", "accepted", "rejected", "error"}]
    BY DEF Init
  <2>3. up \in {"serving", "stopping", "exited"}  BY DEF Init
  <2>4. timedOut \in BOOLEAN  BY DEF Init
  <2> QED BY <1>2, <1>6, <2>1, <2>2, <2>3, <2>4 DEF TypeOK
<1>8. \A m \in Mails : MailInv(m) /\ RateInv(m)
  BY <1>3, <1>6 DEF MailInv, RateInv
<1>9. \A h \in Requests : RequestInv(h)  BY <1>4, <1>6 DEF RequestInv
<1>10. \A w \in Waiters : WaiterInv(w)  BY <1>5, <1>6 DEF WaiterInv
<1>11. AnnouncedIsStored /\ AcceptedIsComplete /\ ReleaseIsExact /\ WaitIsHonest
  BY <1>4, <1>5, <1>6 DEF AnnouncedIsStored, AcceptedIsComplete, ReleaseIsExact, WaitIsHonest
<1> QED BY <1>2, <1>7, <1>8, <1>9, <1>10, <1>11 DEF ServerInv

\* Each step of a session, a request, a waiter or the process keeps the invariant.
LEMMA ServerInvNext == ServerInv /\ [Next]_vars => ServerInv'
<1> SUFFICES ASSUME ServerInv, [Next]_vars PROVE ServerInv'
  OBVIOUS
<1>1. ASSUME NEW m \in Mails, Arrive(m) \/ MailStep(m) PROVE ServerInv'
  BY <1>1, MailKeeps
<1>2. ASSUME NEW h \in Requests,
             \/ \E s \in Puts : PutStart(h, s)
             \/ \E ids \in Batches, r \in Relays : ReleaseStart(h, ids, r)
             \/ \E m \in Mails, r \in Relays : ReleaseOneStart(h, m, r)
             \/ RequestStep(h)
      PROVE  ServerInv'
  <2>1. CASE PutStore(h)  BY <2>1, PutStores
  <2>2. CASE ~PutStore(h)
    <3>1. PutNext(h) \/ ReleaseNext(h)
      BY <1>2, <2>2, PutStarts, PutAnswers, ReleaseStarts, ReleaseGoesOn, ReleaseEnds
         DEF RequestStep
    <3> QED BY <3>1, RequestKeeps
  <2> QED BY <2>1, <2>2
<1>3. ASSUME NEW w \in Waiters,
             \/ \E wants \in Queries : WaitStart(w, wants)
             \/ WaitLook(w) \/ WaitExpires(w) \/ WaitTicks(w) \/ WaitGone(w)
      PROVE  ServerInv'
  BY <1>3, WaitKeeps
<1>4. CASE Signal \/ ServerClosed \/ ShutdownReturns
  <2>1. timedOut \in BOOLEAN  BY DEF ServerInv, TypeOK
  <2>2. /\ UNCHANGED <<mailVars, httpVars, waiter>>
        /\ up' \in {"serving", "stopping", "exited"}
    BY <1>4 DEF Signal, ServerClosed, ShutdownReturns
  <2>3. timedOut' = timedOut \/ timedOut' = TRUE
    BY <1>4 DEF Signal, ServerClosed, ShutdownReturns
  <2>4. timedOut' \in BOOLEAN  BY <2>1, <2>3
  <2> QED BY <2>2, <2>4, StopKeeps
<1>5. CASE UNCHANGED vars
  <2>1. UNCHANGED <<mailVars, httpVars, waiter>> /\ up' = up /\ timedOut' = timedOut
    BY <1>5 DEF vars, stopVars
  <2>2. up \in {"serving", "stopping", "exited"} /\ timedOut \in BOOLEAN
    BY DEF ServerInv, TypeOK
  <2> QED BY <2>1, <2>2, StopKeeps
<1> QED BY <1>1, <1>2, <1>3, <1>4, <1>5 DEF Next

\* The sessions, the requests and the waiters of the server are always as far as
\* their answers and effects say, for any mails, relays and requests.
THEOREM ServerInvHolds == Spec => []ServerInv
BY ServerInvInit, ServerInvNext, PTL DEF Spec

\* Every variable keeps its type: the settings stay in their range.
THEOREM TypeOKHolds == Spec => []TypeOK
<1>1. ServerInv => TypeOK  BY DEF ServerInv
<1> QED BY <1>1, ServerInvHolds, PTL

\* A sender is told 250 only of a mail that is stored, announced and given once to
\* each automatic relay.
THEOREM AcceptedIsCompleteHolds == Spec => []AcceptedIsComplete
<1>1. ServerInv => AcceptedIsComplete  BY DEF ServerInv
<1> QED BY <1>1, ServerInvHolds, PTL

\* A refused mail reaches no browser and no automatic relay, whatever the Set that
\* failed left behind; one that was rejected or could not be parsed is in no layer,
\* so no release sends it and no waiting caller is given it.
THEOREM RefusedGoesNowhereHolds == Spec => []RefusedGoesNowhere
<1>1. ServerInv => RefusedGoesNowhere
  <2> SUFFICES ASSUME ServerInv, NEW m \in Mails
               PROVE  /\ reply[m] \in {"rejected", "error"} =>
                           m \notin stored \cup announced /\ \A r \in Relays : sent[m][r] = 0
                      /\ reply[m] = "rejected" \/ (reply[m] = "error" /\ m \in Unreadable) =>
                           /\ m \notin leftover
                           /\ \A r \in Relays : <<m, r>> \notin released
                           /\ \A w \in Waiters : m \notin waiter[w].hit
    BY DEF RefusedGoesNowhere
  <2>1. reply[m] \in {"rejected", "error"} =>
          m \notin stored \cup announced /\ \A r \in Relays : sent[m][r] = 0
    BY DEF ServerInv, MailInv
  <2>2. ASSUME reply[m] = "rejected" \/ (reply[m] = "error" /\ m \in Unreadable)
        PROVE  /\ m \notin leftover
               /\ \A r \in Relays : <<m, r>> \notin released
               /\ \A w \in Waiters : m \notin waiter[w].hit
    <3>1. m \notin stored \cup leftover  BY <2>1, <2>2 DEF ServerInv, MailInv
    <3>2. \A pair \in released : MayBeRead(pair[1])  BY DEF ServerInv, AnnouncedIsStored
    <3>3. ASSUME NEW r \in Relays PROVE <<m, r>> \notin released
      <4>1. <<m, r>>[1] = m  OBVIOUS
      <4> QED BY <3>1, <3>2, <4>1 DEF MayBeRead
    <3>4. \A w \in Waiters : m \notin waiter[w].hit
      BY <3>1 DEF ServerInv, WaiterInv
    <3> QED BY <3>1, <3>3, <3>4
  <2> QED BY <2>1, <2>2
<1> QED BY <1>1, ServerInvHolds, PTL

\* What browsers are told of is stored; what a release sent was there to be read.
THEOREM AnnouncedIsStoredHolds == Spec => []AnnouncedIsStored
<1>1. ServerInv => AnnouncedIsStored  BY DEF ServerInv
<1> QED BY <1>1, ServerInvHolds, PTL

\* An answered change of the settings decides over every mail that comes after it.
THEOREM RatesAreObeyedHolds == Spec => []RatesAreObeyed
<1>1. ServerInv => RatesAreObeyed
  <2> SUFFICES ASSUME ServerInv, NEW m \in Mails
               PROVE  LET rates == {versions[v].rate :
                                      v \in session[m].earliest .. session[m].latest}
                      IN  /\ reply[m] = "accepted" => \E rate \in rates : rate < 100
                          /\ reply[m] = "rejected" => \E rate \in rates : rate > 0
    BY DEF RatesAreObeyed
  <2>1. RateInv(m) /\ MailInv(m)  BY DEF ServerInv
  <2>2. CASE reply[m] \in {"accepted", "rejected"}
    <3>1. session[m].pc # "new"  BY <2>1, <2>2 DEF MailInv
    <3>2. PICK v \in session[m].earliest .. session[m].latest : versions[v] = session[m].used
      BY <2>1, <3>1 DEF RateInv
    <3> QED BY <2>1, <3>2 DEF RateInv
  <2> QED BY <2>2
<1> QED BY <1>1, ServerInvHolds, PTL

\* A relay request accounts for each of its mails exactly once.
THEOREM ReleaseIsExactHolds == Spec => []ReleaseIsExact
<1>1. ServerInv => ReleaseIsExact  BY DEF ServerInv
<1> QED BY <1>1, ServerInvHolds, PTL

\* A caller that waits is told the truth.
THEOREM WaitIsHonestHolds == Spec => []WaitIsHonest
<1>1. ServerInv => WaitIsHonest  BY DEF ServerInv
<1> QED BY <1>1, ServerInvHolds, PTL

-----------------------------------------------------------------------------
(* What a release sends. A mail is rewritten from what was read of it: what *)
(* is written is read as what it was written from. First, the loops that    *)
(* read and write.                                                          *)

\* A loop of no rounds, and what one more round makes of what the others made.
LEMMA LoopEmpty ==
  ASSUME NEW start
  PROVE  Loop(start, <<>>) = start
<1> DEFINE f == CHOOSE f : Visits(f, 0, start, <<>>)
<1>1. Visits(f, 0, start, <<>>)
  BY WalkExists, Zenon
<1>2. Loop(start, <<>>) = f[0]
  BY DEF Loop, Visits
<1>3. f[0] = start
  <2> HIDE DEF f
  <2> QED BY <1>1 DEF Visits
<1>4. QED
  BY <1>2, <1>3

LEMMA LoopFacts ==
  ASSUME NEW n \in Nat, NEW start, NEW rounds, Len(rounds) = n
  PROVE  \E f : /\ Loop(start, rounds) = f[n]
                /\ f[0] = start
                /\ \A i \in 1 .. n : f[i] = rounds[i][f[i - 1]]
<1> DEFINE f == CHOOSE f : Visits(f, n, start, rounds)
<1>1. Visits(f, n, start, rounds)
  BY WalkExists, Zenon
<1>2. Loop(start, rounds) = f[n]
  BY DEF Loop, Visits
<1>3. f[0] = start /\ \A i \in 1 .. n : f[i] = rounds[i][f[i - 1]]
  <2> HIDE DEF f
  <2> QED BY <1>1 DEF Visits
<1>4. QED
  BY <1>2, <1>3

LEMMA LoopGrows ==
  ASSUME NEW n \in Nat, NEW start, NEW before, NEW rounds,
         Len(before) = n, Len(rounds) = n + 1,
         \A i \in 1 .. n : rounds[i] = before[i]
  PROVE  Loop(start, rounds) = rounds[n + 1][Loop(start, before)]
<1>1. PICK f : /\ Loop(start, before) = f[n] /\ f[0] = start
               /\ \A i \in 1 .. n : f[i] = before[i][f[i - 1]]
  BY LoopFacts
<1>2. PICK g : /\ Loop(start, rounds) = g[n + 1] /\ g[0] = start
               /\ \A i \in 1 .. n + 1 : g[i] = rounds[i][g[i - 1]]
  <2>1. n + 1 \in Nat
    OBVIOUS
  <2>2. QED
    BY <2>1, LoopFacts
<1> DEFINE T == {i \in Nat : i <= n => g[i] = f[i]}
<1>3. 0 \in T
  BY <1>1, <1>2
<1>4. ASSUME NEW i \in 0 .. n - 1, i \in T PROVE i + 1 \in T
  <2>1. i + 1 \in 1 .. n /\ i + 1 \in 1 .. n + 1 /\ (i + 1) - 1 = i /\ i <= n
    OBVIOUS
  <2>2. g[i + 1] = rounds[i + 1][g[i]] /\ f[i + 1] = before[i + 1][f[i]]
    BY <1>1, <1>2, <2>1
  <2>3. g[i + 1] = f[i + 1]
    BY <1>4, <2>1, <2>2
  <2>4. QED
    BY <2>3
<1>5. n \in T
  <2> HIDE DEF T
  <2>1. 0 .. n \subseteq T
    BY <1>3, <1>4, HoldsUpTo
  <2>2. QED
    BY <2>1
<1>6. g[n] = f[n] /\ n + 1 \in 1 .. n + 1 /\ (n + 1) - 1 = n
  BY <1>5
<1>7. g[n + 1] = rounds[n + 1][g[n]]
  BY <1>2, <1>6
<1>8. QED
  BY <1>1, <1>2, <1>6, <1>7

-----------------------------------------------------------------------------
(* Reading *)

\* The lines whose key the header has room for: those of mails, and those that a
\* rewritten mail is written with.
Keyed == {line \in AnyLine : line.form = "field" => Canonical(line.key) \in Keys}

LEMMA KeyFacts ==
  /\ Lines \subseteq Keyed /\ Blank \in Keyed
  /\ "From" \in Keys /\ "" \notin Keys
  /\ \A key \in Keys : Canonical(key) = key
  /\ \A key \in Keys, value \in Seq(STRING) : Field(key, value) \in Keyed
<1>1. "From" \in Keys /\ Lines \subseteq AnyLine
  BY RewriteAssumption DEF Keys
<1>2. \A line \in Lines : line.form = "field" => Canonical(line.key) \in Keys
  BY DEF Keys
<1>3. ASSUME NEW key \in Keys
      PROVE  key \in STRING \cup {"", "From"} /\ key # "" /\ Canonical(key) = key
  <2>1. CASE key = "From"
    BY <2>1 DEF Canonical
  <2>2. CASE key # "From"
    <3>1. PICK line \in Lines : line.form = "field" /\ key = Canonical(line.key)
      BY <2>2 DEF Keys
    <3>2. line.key \in STRING \cup {"", "From"} /\ line.key # ""
      BY <1>1, <3>1, RewriteAssumption DEF AnyLine
    <3>3. QED
      BY <2>2, <3>1, <3>2 DEF Canonical
  <2>3. QED
    BY <2>1, <2>2
<1>4. Blank \in Keyed
  <2>1. <<>> \in Seq(STRING)
    OBVIOUS
  <2>2. QED
    BY <2>1 DEF Keyed, AnyLine, Blank
<1>5. \A key \in Keys, value \in Seq(STRING) : Field(key, value) \in Keyed
  BY <1>3 DEF Keyed, AnyLine, Field
<1>6. QED
  BY <1>1, <1>2, <1>3, <1>4, <1>5 DEF Keyed

\* What reading can have made: a continuation has a value to go to.
ReadState ==
  {so \in [header : Headers, key : Keys \cup {""}] :
     so.key # "" => so.header[so.key] # <<>>}

LEMMA StateFacts ==
  ASSUME NEW header \in Headers, NEW key \in Keys, header[key] # <<>>
  PROVE  [header |-> header, key |-> key] \in ReadState
<1>1. [header |-> header, key |-> key] \in [header : Headers, key : Keys \cup {""}]
  OBVIOUS
<1>2. /\ [header |-> header, key |-> key].key = key
      /\ [header |-> header, key |-> key].header = header
  OBVIOUS
<1>3. QED
  BY <1>1, <1>2 DEF ReadState

LEMMA HeaderFacts ==
  ASSUME NEW header \in Headers, NEW key \in Keys, NEW values \in Seq(Seq(STRING))
  PROVE  /\ header[key] \in Seq(Seq(STRING))
         /\ [header EXCEPT ![key] = values] \in Headers
         /\ \A k \in Keys : [header EXCEPT ![key] = values][k] =
                              IF k = key THEN values ELSE header[k]
BY DEF Headers

\* A field is one more value of its key.
LEMMA ReadField ==
  ASSUME NEW so \in ReadState, NEW line \in Keyed, line.form = "field"
  PROVE  LET key == Canonical(line.key)
         IN  /\ key \in Keys /\ line.value \in Seq(STRING)
             /\ so.header \in Headers /\ so.header[key] \in Seq(Seq(STRING))
             /\ ReadLine(so, line).header =
                  [so.header EXCEPT ![key] = Append(so.header[key], line.value)]
             /\ ReadLine(so, line).key = key
             /\ ReadLine(so, line) \in ReadState
<1> DEFINE key == Canonical(line.key)
           values == Append(so.header[key], line.value)
<1>1. key \in Keys /\ line.value \in Seq(STRING) /\ so.header \in Headers
  BY DEF Keyed, AnyLine, ReadState
<1>2. so.header[key] \in Seq(Seq(STRING))
  BY <1>1 DEF Headers
<1>3. values \in Seq(Seq(STRING)) /\ values # <<>>
  <2> HIDE DEF key
  <2> QED BY <1>1, <1>2, AppendProperties
<1>4. ReadLine(so, line) = [header |-> [so.header EXCEPT ![key] = values], key |-> key]
  BY DEF ReadLine
<1>5. /\ [so.header EXCEPT ![key] = values] \in Headers
      /\ [so.header EXCEPT ![key] = values][key] = values
  <2> HIDE DEF key, values
  <2> QED BY <1>1, <1>3, HeaderFacts
<1>6. ReadLine(so, line) \in ReadState
  <2> DEFINE header == [so.header EXCEPT ![key] = values]
  <2> HIDE DEF key, values, header
  <2>1. /\ ReadLine(so, line) = [header |-> header, key |-> key]
        /\ header \in Headers /\ key \in Keys /\ header[key] # <<>>
    BY <1>1, <1>3, <1>4, <1>5 DEF header
  <2>2. QED
    BY <2>1, StateFacts
<1>7. QED
  BY <1>1, <1>2, <1>4, <1>6

\* Any other line leaves every key with as many values as it had.
LEMMA ReadOther ==
  ASSUME NEW so \in ReadState, NEW line \in Keyed, line.form # "field"
  PROVE  /\ ReadLine(so, line) \in ReadState
         /\ \A key \in Keys :
              ReadLine(so, line).header[key] = <<>> <=> so.header[key] = <<>>
<1>1. so.header \in Headers /\ so.key \in Keys \cup {""} /\ line.value \in Seq(STRING)
      /\ (so.key # "" => so.header[so.key] # <<>>)
  BY DEF Keyed, AnyLine, ReadState
<1>2. CASE line.form = "more" /\ so.key # ""
  <2> DEFINE old == so.header[so.key]
             new == Continued(old, line.value)
  <2>1. so.key \in Keys /\ old \in Seq(Seq(STRING)) /\ old # <<>>
    BY <1>1, <1>2 DEF Headers
  <2>2. Len(old) \in 1 .. Len(old) /\ old[Len(old)] \in Seq(STRING)
    <3> HIDE DEF old
    <3>1. Len(old) \in Nat \ {0}
      BY <2>1, EmptySeq
    <3>2. QED
      BY <2>1, <3>1, ElementOfSeq
  <2>3. old[Len(old)] \o line.value \in Seq(STRING)
    <3> HIDE DEF old
    <3> QED BY <1>1, <2>2, ConcatProperties
  <2>4. new \in Seq(Seq(STRING)) /\ new # <<>>
    <3>1. new \in Seq(Seq(STRING)) /\ Len(new) = Len(old)
      <4> HIDE DEF old
      <4> QED BY <2>1, <2>2, <2>3, ExceptSeq DEF Continued
    <3>2. Len(new) \in Nat \ {0} /\ Len(<<>>) = 0
      <4> HIDE DEF old, new
      <4>1. Len(old) \in Nat \ {0}
        BY <2>1, EmptySeq
      <4>2. QED
        BY <3>1, <4>1
    <3>3. QED
      <4> HIDE DEF old, new
      <4> QED BY <3>1, <3>2
  <2> DEFINE header == [so.header EXCEPT ![so.key] = new]
  <2>5. /\ header \in Headers /\ header[so.key] = new
        /\ \A key \in Keys : header[key] = IF key = so.key THEN new ELSE so.header[key]
    <3> HIDE DEF old, new
    <3>1. so.header \in Headers /\ so.key \in Keys /\ new \in Seq(Seq(STRING))
      BY <1>1, <2>1, <2>4
    <3>2. QED
      BY <3>1, HeaderFacts
  <2>6. ReadLine(so, line) = [header |-> header, key |-> so.key]
    BY <1>2 DEF ReadLine
  <2>7. ReadLine(so, line) \in ReadState
    <3> HIDE DEF header, new
    <3> QED BY <2>1, <2>4, <2>5, <2>6, StateFacts
  <2>8. \A key \in Keys : header[key] = <<>> <=> so.header[key] = <<>>
    <3> HIDE DEF header, new
    <3> QED BY <2>1, <2>4, <2>5 DEF old
  <2>9. QED
    <3> HIDE DEF header, new
    <3> QED BY <2>6, <2>7, <2>8
<1>3. CASE line.form = "colon"
  BY <1>1, <1>3 DEF ReadLine, ReadState
<1>4. CASE ~(line.form = "more" /\ so.key # "") /\ line.form # "colon"
  BY <1>4 DEF ReadLine
<1>5. QED
  BY <1>2, <1>3, <1>4

LEMMA AppendFacts ==
  ASSUME NEW S, NEW s \in Seq(S), NEW e \in S
  PROVE  /\ Len(s) \in Nat /\ Len(Append(s, e)) = Len(s) + 1
         /\ DOMAIN s = 1 .. Len(s) /\ DOMAIN Append(s, e) = 1 .. Len(s) + 1
         /\ \A i \in 1 .. Len(s) : Append(s, e)[i] = s[i]
         /\ Append(s, e)[Len(s) + 1] = e
<1>1. Append(s, e) \in Seq(S) /\ Len(s) \in Nat /\ DOMAIN s = 1 .. Len(s)
  BY AppendProperties, LenProperties
<1>2. DOMAIN Append(s, e) = 1 .. Len(Append(s, e))
  BY <1>1, LenProperties
<1>3. QED
  BY <1>1, <1>2, AppendProperties

\* The rounds of a loop over the elements of s.
Over(s, round) == [i \in DOMAIN s |-> round[s[i]]]

LEMMA LoopOverNone ==
  ASSUME NEW start, NEW round
  PROVE  Loop(start, Over(<<>>, round)) = start
<1>1. Over(<<>>, round) = <<>>
  BY DEF Over
<1>2. QED
  BY <1>1, LoopEmpty

LEMMA LoopOverMore ==
  ASSUME NEW S, NEW s \in Seq(S), NEW e \in S, NEW start, NEW round
  PROVE  Loop(start, Over(Append(s, e), round)) = round[e][Loop(start, Over(s, round))]
<1> DEFINE n == Len(s)
           longer == Append(s, e)
           before == Over(s, round)
           rounds == Over(longer, round)
<1>1. /\ n \in Nat /\ DOMAIN s = 1 .. n /\ DOMAIN longer = 1 .. n + 1
      /\ \A i \in 1 .. n : longer[i] = s[i]
      /\ longer[n + 1] = e
  BY AppendFacts
<1>2. Len(before) = n /\ Len(rounds) = n + 1
  <2> HIDE DEF longer, n
  <2>1. before = [i \in 1 .. n |-> round[s[i]]] /\ rounds = [i \in 1 .. n + 1 |-> round[longer[i]]]
    BY <1>1 DEF Over
  <2>2. n + 1 \in Nat
    BY <1>1
  <2>3. QED
    <3> HIDE DEF before, rounds
    <3> QED BY <1>1, <2>1, <2>2
<1>3. (\A i \in 1 .. n : rounds[i] = before[i]) /\ rounds[n + 1] = round[e]
  <2> HIDE DEF longer, n
  <2>1. n + 1 \in 1 .. n + 1 /\ \A i \in 1 .. n : i \in 1 .. n + 1
    BY <1>1
  <2>2. QED
    BY <1>1, <2>1 DEF Over
<1>4. Loop(start, rounds) = rounds[n + 1][Loop(start, before)]
  <2> HIDE DEF n, before, rounds
  <2> QED BY <1>1, <1>2, <1>3, LoopGrows
<1>5. QED
  BY <1>3, <1>4

LEMMA ReadFieldsFacts ==
  ASSUME NEW block \in Seq(Keyed), NEW line \in Keyed
  PROVE  /\ ReadFields(<<>>) = [header |-> NoHeader, key |-> ""]
         /\ ReadFields(block) \in ReadState =>
              ReadFields(Append(block, line)) = ReadLine(ReadFields(block), line)
<1> DEFINE States == [header : Headers, key : Keys \cup {""}]
           start == [header |-> NoHeader, key |-> ""]
           round == [x \in Keyed |-> [so \in States |-> ReadLine(so, x)]]
           longer == Append(block, line)
<1>1. \A b \in Seq(Keyed) : ReadFields(b) = Loop(start, Over(b, round))
  <2> SUFFICES ASSUME NEW b \in Seq(Keyed)
               PROVE  ReadFields(b) = Loop(start, Over(b, round))
    OBVIOUS
  <2>1. \A i \in DOMAIN b : b[i] \in Keyed
    OBVIOUS
  <2>2. \A i \in DOMAIN b : round[b[i]] = [so \in States |-> ReadLine(so, b[i])]
    BY <2>1
  <2>3. Over(b, round) =
          [i \in DOMAIN b |-> [so \in States |-> ReadLine(so, b[i])]]
    <3> HIDE DEF round, States
    <3> QED BY <2>2 DEF Over
  <2>4. QED
    BY <2>3, Zenon DEF ReadFields
<1>2. <<>> \in Seq(Keyed) /\ longer \in Seq(Keyed)
  BY EmptySeq, AppendProperties
<1>3. /\ ReadFields(<<>>) = start
      /\ ReadFields(longer) = round[line][ReadFields(block)]
  <2> HIDE DEF start, round, longer
  <2>1. /\ ReadFields(<<>>) = Loop(start, Over(<<>>, round))
        /\ ReadFields(longer) = Loop(start, Over(longer, round))
        /\ ReadFields(block) = Loop(start, Over(block, round))
    BY <1>1, <1>2
  <2>2. Loop(start, Over(<<>>, round)) = start
    BY LoopOverNone
  <2>3. Loop(start, Over(longer, round)) = round[line][Loop(start, Over(block, round))]
    BY LoopOverMore DEF longer
  <2>4. QED
    BY <2>1, <2>2, <2>3
<1>4. \A so \in ReadState : round[line][so] = ReadLine(so, line)
  BY DEF ReadState
<1>5. QED
  <2> HIDE DEF round
  <2> QED BY <1>3, <1>4

LEMMA ReadFieldsTyped ==
  \A block \in Seq(Keyed) : ReadFields(block) \in ReadState
<1> DEFINE T == {block \in Seq(Keyed) : ReadFields(block) \in ReadState}
<1>1. <<>> \in T
  <2>1. <<>> \in Seq(Keyed) /\ Blank \in Keyed
    BY EmptySeq, KeyFacts
  <2>2. ReadFields(<<>>) = [header |-> NoHeader, key |-> ""]
    BY <2>1, ReadFieldsFacts
  <2>3. NoHeader \in Headers
    <3>1. <<>> \in Seq(Seq(STRING))
      BY EmptySeq
    <3>2. QED
      BY <3>1 DEF NoHeader, Headers
  <2>4. [header |-> NoHeader, key |-> ""] \in [header : Headers, key : Keys \cup {""}]
    BY <2>3
  <2>5. [header |-> NoHeader, key |-> ""].key = ""
    OBVIOUS
  <2>6. QED
    BY <2>1, <2>2, <2>4, <2>5 DEF ReadState
<1>2. ASSUME NEW block \in Seq(Keyed), NEW line \in Keyed, block \in T
      PROVE  Append(block, line) \in T
  <2>1. ReadFields(Append(block, line)) = ReadLine(ReadFields(block), line)
    BY <1>2, ReadFieldsFacts
  <2>2. ReadLine(ReadFields(block), line) \in ReadState
    BY <1>2, ReadField, ReadOther
  <2>3. Append(block, line) \in Seq(Keyed)
    BY AppendProperties
  <2>4. QED
    BY <2>1, <2>2, <2>3
<1>3. Seq(Keyed) \subseteq T
  <2> HIDE DEF T
  <2> QED BY <1>1, <1>2, HoldsOfSequences
<1>4. QED
  BY <1>3

-----------------------------------------------------------------------------
(* The order of the keys *)

LEMMA SeenKeysFacts ==
  ASSUME NEW block \in Seq(Keyed), NEW line \in Keyed
  PROVE  /\ SeenKeys(<<>>) = <<>>
         /\ SeenKeys(block) \in Seq(Keys) =>
              SeenKeys(Append(block, line)) =
                IF line.form # "field" \/ Canonical(line.key) \in ToSet(SeenKeys(block))
                THEN SeenKeys(block) ELSE Append(SeenKeys(block), Canonical(line.key))
<1> DEFINE See(seen, x) == IF x.form # "field" \/ Canonical(x.key) \in ToSet(seen) THEN seen
                           ELSE Append(seen, Canonical(x.key))
           round == [x \in Keyed |-> [seen \in Seq(Keys) |-> See(seen, x)]]
           longer == Append(block, line)
<1>1. \A b \in Seq(Keyed) : SeenKeys(b) = Loop(<<>>, Over(b, round))
  <2> SUFFICES ASSUME NEW b \in Seq(Keyed)
               PROVE  SeenKeys(b) = Loop(<<>>, Over(b, round))
    OBVIOUS
  <2>1. \A i \in DOMAIN b : b[i] \in Keyed
    OBVIOUS
  <2>2. \A i \in DOMAIN b : round[b[i]] = [seen \in Seq(Keys) |-> See(seen, b[i])]
    BY <2>1, Zenon
  <2>3. Over(b, round) =
          [i \in DOMAIN b |-> [seen \in Seq(Keys) |-> See(seen, b[i])]]
    <3> HIDE DEF round, See
    <3> QED BY <2>2 DEF Over
  <2>4. QED
    BY <2>3, Zenon DEF SeenKeys
<1>2. <<>> \in Seq(Keyed) /\ longer \in Seq(Keyed)
  BY EmptySeq, AppendProperties
<1>3. /\ SeenKeys(<<>>) = <<>>
      /\ SeenKeys(longer) = round[line][SeenKeys(block)]
  <2> HIDE DEF round, longer
  <2>1. /\ SeenKeys(<<>>) = Loop(<<>>, Over(<<>>, round))
        /\ SeenKeys(longer) = Loop(<<>>, Over(longer, round))
        /\ SeenKeys(block) = Loop(<<>>, Over(block, round))
    BY <1>1, <1>2
  <2>2. Loop(<<>>, Over(<<>>, round)) = <<>>
    BY LoopOverNone
  <2>3. Loop(<<>>, Over(longer, round)) = round[line][Loop(<<>>, Over(block, round))]
    BY LoopOverMore DEF longer
  <2>4. QED
    BY <2>1, <2>2, <2>3
<1>4. \A seen \in Seq(Keys) : round[line][seen] = See(seen, line)
  BY Zenon
<1>5. QED
  <2> HIDE DEF round
  <2> QED BY <1>3, <1>4

Distinct(keys) == \A i, j \in DOMAIN keys : keys[i] = keys[j] => i = j

LEMMA SetFacts ==
  ASSUME NEW S, NEW s \in Seq(S), NEW e \in S
  PROVE  /\ ToSet(<<>>) = {} /\ ToSet(s) \subseteq S
         /\ ToSet(Append(s, e)) = ToSet(s) \cup {e}
         /\ Distinct(<<>>)
         /\ Distinct(Append(s, e)) <=> Distinct(s) /\ e \notin ToSet(s)
<1> DEFINE longer == Append(s, e)
<1>1. /\ Len(s) \in Nat /\ DOMAIN s = 1 .. Len(s) /\ DOMAIN longer = 1 .. Len(s) + 1
      /\ \A i \in 1 .. Len(s) : longer[i] = s[i]
      /\ longer[Len(s) + 1] = e
  BY AppendFacts
<1>2. /\ DOMAIN longer = DOMAIN s \cup {Len(s) + 1} /\ Len(s) + 1 \notin DOMAIN s
      /\ \A i \in DOMAIN s : longer[i] = s[i]
      /\ longer[Len(s) + 1] = e
  <2> HIDE DEF longer
  <2> QED BY <1>1
<1>3. ToSet(longer) = ToSet(s) \cup {e}
  <2> HIDE DEF longer
  <2> QED BY <1>2 DEF ToSet
<1>4. Distinct(longer) <=> Distinct(s) /\ e \notin ToSet(s)
  <2> HIDE DEF longer
  <2> QED BY <1>2 DEF Distinct, ToSet
<1>5. ToSet(s) \subseteq S
  BY DEF ToSet
<1>6. ToSet(<<>>) = {} /\ Distinct(<<>>)
  BY DEF ToSet, Distinct
<1>7. QED
  BY <1>3, <1>4, <1>5, <1>6

\* The keys that were seen are those that were read, once each.
SeenAreRead(block) ==
  /\ SeenKeys(block) \in Seq(Keys) /\ Distinct(SeenKeys(block))
  /\ \A key \in Keys :
       key \in ToSet(SeenKeys(block)) <=> ReadFields(block).header[key] # <<>>

LEMMA SeenAreReadHolds ==
  \A block \in Seq(Keyed) : SeenAreRead(block)
<1> DEFINE T == {block \in Seq(Keyed) : SeenAreRead(block)}
<1>1. <<>> \in T
  <2>1. <<>> \in Seq(Keyed) /\ Blank \in Keyed /\ <<>> \in Seq(Keys) /\ "From" \in Keys
    BY EmptySeq, KeyFacts
  <2>2. ReadFields(<<>>) = [header |-> NoHeader, key |-> ""] /\ SeenKeys(<<>>) = <<>>
    BY <2>1, ReadFieldsFacts, SeenKeysFacts
  <2>3. ToSet(<<>>) = {} /\ Distinct(<<>>)
    BY <2>1, SetFacts
  <2>4. \A key \in Keys : ReadFields(<<>>).header[key] = <<>>
    <3>1. ReadFields(<<>>).header = NoHeader
      <4>1. [header |-> NoHeader, key |-> ""].header = NoHeader
        OBVIOUS
      <4>2. QED
        BY <2>2, <4>1
    <3>2. QED
      BY <3>1 DEF NoHeader
  <2>5. QED
    BY <2>1, <2>2, <2>3, <2>4 DEF SeenAreRead
<1>2. ASSUME NEW block \in Seq(Keyed), NEW line \in Keyed, block \in T
      PROVE  Append(block, line) \in T
  <2> DEFINE longer == Append(block, line)
             so == ReadFields(block)
             seen == SeenKeys(block)
             key == Canonical(line.key)
  <2>1. longer \in Seq(Keyed)
    BY AppendProperties
  <2>2. so \in ReadState /\ seen \in Seq(Keys) /\ Distinct(seen)
        /\ \A k \in Keys : k \in ToSet(seen) <=> so.header[k] # <<>>
    BY <1>2, ReadFieldsTyped DEF SeenAreRead
  <2>3. /\ ReadFields(longer) = ReadLine(so, line)
        /\ SeenKeys(longer) = IF line.form # "field" \/ key \in ToSet(seen) THEN seen
                              ELSE Append(seen, key)
    BY <2>2, ReadFieldsFacts, SeenKeysFacts
  <2>4. ASSUME line.form # "field" PROVE longer \in T
    <3>1. \A k \in Keys : ReadFields(longer).header[k] = <<>> <=> so.header[k] = <<>>
      BY <2>2, <2>3, <2>4, ReadOther
    <3>2. QED
      <4> HIDE DEF longer, so, seen, key
      <4>1. SeenKeys(longer) = seen
        BY <2>3, <2>4
      <4>2. QED
        BY <2>1, <2>2, <3>1, <4>1 DEF SeenAreRead
  <2>5. ASSUME line.form = "field" PROVE longer \in T
    <3> HIDE DEF longer, so, seen
    <3>1. /\ key \in Keys /\ line.value \in Seq(STRING)
          /\ so.header \in Headers /\ so.header[key] \in Seq(Seq(STRING))
          /\ ReadLine(so, line).header =
               [so.header EXCEPT ![key] = Append(so.header[key], line.value)]
      BY <2>2, <2>5, ReadField
    <3> HIDE DEF key
    <3> DEFINE values == Append(so.header[key], line.value)
    <3>2. values \in Seq(Seq(STRING)) /\ values # <<>>
      BY <3>1, AppendProperties
    <3>3. \A k \in Keys : ReadFields(longer).header[k] # <<>> <=> k = key \/ so.header[k] # <<>>
      <4>1. ReadFields(longer).header = [so.header EXCEPT ![key] = values]
        BY <2>3, <3>1
      <4> HIDE DEF values
      <4>2. so.header \in Headers /\ key \in Keys
        BY <3>1
      <4>3. \A k \in Keys : [so.header EXCEPT ![key] = values][k] =
                             IF k = key THEN values ELSE so.header[k]
        BY <3>2, <4>2 DEF Headers
      <4>4. QED
        BY <3>2, <4>1, <4>3
    <3>4. CASE key \in ToSet(seen)
      <4>1. SeenKeys(longer) = seen
        BY <2>3, <3>4
      <4>2. QED
        BY <2>1, <2>2, <3>3, <3>4, <4>1 DEF SeenAreRead
    <3>5. CASE key \notin ToSet(seen)
      <4>1. SeenKeys(longer) = Append(seen, key) /\ Append(seen, key) \in Seq(Keys)
        BY <2>2, <2>3, <2>5, <3>1, <3>5, AppendProperties
      <4>2. ToSet(Append(seen, key)) = ToSet(seen) \cup {key} /\ Distinct(Append(seen, key))
        BY <2>2, <3>1, <3>5, SetFacts
      <4>3. QED
        BY <2>1, <2>2, <3>3, <4>1, <4>2 DEF SeenAreRead
    <3>6. QED
      BY <3>4, <3>5
  <2>6. QED
    BY <2>4, <2>5
<1>3. Seq(Keyed) \subseteq T
  <2> HIDE DEF T
  <2> QED BY <1>1, <1>2, HoldsOfSequences
<1>4. QED
  BY <1>3

-----------------------------------------------------------------------------
(* Writing *)

LEMMA ConcatAppend ==
  ASSUME NEW S, NEW s \in Seq(S), NEW t \in Seq(S), NEW e \in S
  PROVE  s \o Append(t, e) = Append(s \o t, e)
<1>1. <<e>> \in Seq(S) /\ s \o t \in Seq(S)
  BY ConcatProperties
<1>2. Append(t, e) = t \o <<e>> /\ Append(s \o t, e) = (s \o t) \o <<e>>
  BY <1>1, AppendIsConcat
<1>3. s \o (t \o <<e>>) = (s \o t) \o <<e>>
  BY <1>1, ConcatAssociative
<1>4. QED
  BY <1>2, <1>3

Fields(key, values) == [j \in 1 .. Len(values) |-> Field(key, values[j])]

LEMMA FieldsFacts ==
  ASSUME NEW key \in Keys, NEW values \in Seq(Seq(STRING)), NEW value \in Seq(STRING)
  PROVE  /\ Fields(key, <<>>) = <<>> /\ Fields(key, values) \in Seq(Keyed)
         /\ Fields(key, Append(values, value)) = Append(Fields(key, values), Field(key, value))
<1> DEFINE n == Len(values)
           longer == Append(values, value)
           fields == Fields(key, values)
           more == Fields(key, longer)
<1>1. /\ n \in Nat /\ Len(longer) = n + 1 /\ n + 1 \in Nat
      /\ \A j \in 1 .. n : longer[j] = values[j]
      /\ longer[n + 1] = value
  BY AppendFacts
<1>2. \A j \in 1 .. n : values[j] \in Seq(STRING)
  BY ElementOfSeq
<1>3. fields = [j \in 1 .. n |-> Field(key, values[j])]
  BY DEF Fields
<1>4. more = [j \in 1 .. n + 1 |-> Field(key, longer[j])]
  <2> HIDE DEF longer
  <2> QED BY <1>1 DEF Fields
<1>5. \A j \in 1 .. n : Field(key, values[j]) \in Keyed
  BY <1>2, KeyFacts
<1>6. fields \in Seq(Keyed) /\ Len(fields) = n /\ Field(key, value) \in Keyed
  <2>1. fields \in Seq(Keyed)
    <3> HIDE DEF fields, n
    <3> QED BY <1>1, <1>3, <1>5
  <2>2. Len(fields) = n
    <3> HIDE DEF fields, n
    <3> QED BY <1>1, <1>3
  <2>3. QED
    BY <2>1, <2>2, KeyFacts
<1>7. /\ Append(fields, Field(key, value)) \in Seq(Keyed)
      /\ Len(Append(fields, Field(key, value))) = n + 1
      /\ \A j \in 1 .. n : Append(fields, Field(key, value))[j] = fields[j]
      /\ Append(fields, Field(key, value))[n + 1] = Field(key, value)
  <2> HIDE DEF fields, n
  <2> QED BY <1>6, AppendProperties
<1>8. \A j \in 1 .. n + 1 : more[j] \in Keyed /\ more[j] = Append(fields, Field(key, value))[j]
  <2> SUFFICES ASSUME NEW j \in 1 .. n + 1
               PROVE  more[j] \in Keyed /\ more[j] = Append(fields, Field(key, value))[j]
    OBVIOUS
  <2> HIDE DEF fields, more, longer, n
  <2>1. more[j] = Field(key, longer[j])
    BY <1>4
  <2>2. CASE j = n + 1
    BY <1>1, <1>6, <1>7, <2>1, <2>2
  <2>3. CASE j # n + 1
    <3>1. j \in 1 .. n
      BY <1>1, <2>3
    <3>2. fields[j] = Field(key, values[j])
      BY <1>3, <3>1
    <3>3. QED
      BY <1>1, <1>5, <1>7, <2>1, <3>1, <3>2
  <2>4. QED
    BY <2>2, <2>3
<1>9. more \in Seq(Keyed) /\ Len(more) = n + 1
  <2> DEFINE g == [j \in 1 .. n + 1 |-> Field(key, longer[j])]
  <2>1. \A j \in 1 .. n + 1 : Field(key, longer[j]) \in Keyed
    <3> HIDE DEF more, longer, n, fields
    <3> QED BY <1>4, <1>8
  <2>2. g \in Seq(Keyed)
    <3> HIDE DEF longer, n
    <3> QED BY <1>1, <2>1
  <2>3. Len(g) = n + 1
    <3> HIDE DEF longer, n
    <3> QED BY <1>1
  <2>4. QED
    <3> HIDE DEF g, more
    <3> QED BY <1>4, <2>2, <2>3 DEF g
<1>10. more = Append(fields, Field(key, value))
  <2> HIDE DEF fields, more, n
  <2> QED BY <1>7, <1>8, <1>9, SeqEqual
<1>11. Fields(key, <<>>) = <<>>
  BY DEF Fields
<1>12. QED
  BY <1>6, <1>10, <1>11

OnlyFields(block) == \A i \in DOMAIN block : block[i].form = "field"

\* What is read of a block that ends with fields of one key.
EndsWith(longer, block, key, values) ==
  /\ longer \in Seq(Keyed) /\ (OnlyFields(block) => OnlyFields(longer))
  /\ ReadFields(longer).header[key] = ReadFields(block).header[key] \o values
  /\ \A k \in Keys \ {key} : ReadFields(longer).header[k] = ReadFields(block).header[k]
  /\ SeenKeys(longer) =
       IF values = <<>> \/ key \in ToSet(SeenKeys(block)) THEN SeenKeys(block)
       ELSE Append(SeenKeys(block), key)

\* One more line: a field of that key.
LEMMA EndsWithMore ==
  ASSUME NEW block \in Seq(Keyed), NEW longer, NEW key \in Keys,
         NEW values \in Seq(Seq(STRING)), NEW value \in Seq(STRING),
         EndsWith(longer, block, key, values)
  PROVE  EndsWith(Append(longer, Field(key, value)), block, key, Append(values, value))
<1> DEFINE line == Field(key, value)
           more == Append(longer, line)
           so == ReadFields(longer)
           old == ReadFields(block).header
           seen == SeenKeys(block)
           now == Append(so.header[key], value)
<1>1. /\ line \in Keyed /\ line.form = "field" /\ line.value = value
      /\ Canonical(line.key) = key
  BY KeyFacts DEF Field
<1>2. longer \in Seq(Keyed) /\ so \in ReadState /\ ReadFields(block) \in ReadState
  BY ReadFieldsTyped DEF EndsWith
<1>3. seen \in Seq(Keys) /\ SeenKeys(longer) \in Seq(Keys)
  BY <1>2, SeenAreReadHolds DEF SeenAreRead
<1>4. /\ ReadFields(more) = ReadLine(so, line)
      /\ SeenKeys(more) = IF key \in ToSet(SeenKeys(longer)) THEN SeenKeys(longer)
                          ELSE Append(SeenKeys(longer), key)
  <2> HIDE DEF so, line
  <2> QED BY <1>1, <1>2, <1>3, ReadFieldsFacts, SeenKeysFacts DEF so
<1>5. /\ so.header \in Headers /\ so.header[key] \in Seq(Seq(STRING))
      /\ ReadLine(so, line).header = [so.header EXCEPT ![key] = now]
  <2> HIDE DEF so, line
  <2> QED BY <1>1, <1>2, ReadField
<1>6. old \in Headers /\ old[key] \in Seq(Seq(STRING))
  BY <1>2 DEF ReadState, Headers
<1>7. /\ ReadFields(more).header[key] = now
      /\ \A k \in Keys \ {key} : ReadFields(more).header[k] = so.header[k]
  <2>1. ReadFields(more).header = [so.header EXCEPT ![key] = now]
    BY <1>4, <1>5
  <2>2. DOMAIN so.header = Keys
    BY <1>5 DEF Headers
  <2> HIDE DEF so, line, more, now
  <2>3. QED
    BY <2>1, <2>2
<1>8. now = old[key] \o Append(values, value)
  <2>1. so.header[key] = old[key] \o values
    BY DEF EndsWith
  <2>2. old[key] \o Append(values, value) = Append(old[key] \o values, value)
    <3> DEFINE had == old[key]
    <3>1. had \in Seq(Seq(STRING))
      BY <1>6
    <3> HIDE DEF had
    <3>2. had \o Append(values, value) = Append(had \o values, value)
      BY <3>1, ConcatAppend
    <3>3. QED
      BY <3>2 DEF had
  <2>3. QED
    BY <2>1, <2>2
<1>9. \A k \in Keys \ {key} : ReadFields(more).header[k] = old[k]
  <2> HIDE DEF more
  <2> QED BY <1>7 DEF EndsWith
<1>10. more \in Seq(Keyed) /\ (OnlyFields(block) => OnlyFields(more))
  <2> HIDE DEF line
  <2>1. more \in Seq(Keyed)
    BY <1>1, <1>2, AppendProperties
  <2>2. /\ Len(longer) \in Nat /\ DOMAIN longer = 1 .. Len(longer)
        /\ DOMAIN more = 1 .. Len(longer) + 1
        /\ \A i \in 1 .. Len(longer) : more[i] = longer[i]
        /\ more[Len(longer) + 1] = line
    BY <1>1, <1>2, AppendFacts
  <2>3. ASSUME OnlyFields(longer) PROVE OnlyFields(more)
    <3> HIDE DEF more
    <3>1. \A i \in DOMAIN more : i \in DOMAIN longer \/ i = Len(longer) + 1
      BY <2>2
    <3>2. QED
      BY <1>1, <2>2, <2>3, <3>1 DEF OnlyFields
  <2>4. QED
    <3> HIDE DEF more
    <3> QED BY <2>1, <2>3 DEF EndsWith
<1>11. SeenKeys(more) = IF key \in ToSet(seen) THEN seen ELSE Append(seen, key)
  <2>1. SeenKeys(longer) = IF values = <<>> \/ key \in ToSet(seen) THEN seen
                           ELSE Append(seen, key)
    BY DEF EndsWith
  <2>2. key \in ToSet(Append(seen, key))
    <3> HIDE DEF seen
    <3> QED BY <1>3, SetFacts
  <2>3. QED
    <3> HIDE DEF more, seen
    <3> QED BY <1>4, <2>1, <2>2
<1>12. Append(values, value) # <<>>
  BY AppendProperties
<1>13. QED
  <2> HIDE DEF more, so, now
  <2>1. EndsWith(more, block, key, Append(values, value))
    BY <1>7, <1>8, <1>9, <1>10, <1>11, <1>12 DEF EndsWith
  <2>2. QED
    BY <2>1 DEF more

LEMMA EndsWithFields ==
  ASSUME NEW block \in Seq(Keyed), NEW key \in Keys, NEW given \in Seq(Seq(STRING))
  PROVE  EndsWith(block \o Fields(key, given), block, key, given)
<1> DEFINE Whole(values) == block \o Fields(key, values)
           T == {values \in Seq(Seq(STRING)) : EndsWith(Whole(values), block, key, values)}
<1>1. <<>> \in T
  <2>1. <<>> \in Seq(STRING) /\ <<>> \in Seq(Seq(STRING)) /\ Whole(<<>>) = block
    <3>1. <<>> \in Seq(STRING) /\ <<>> \in Seq(Seq(STRING))
      BY EmptySeq
    <3>2. Fields(key, <<>>) = <<>> /\ block \o <<>> = block
      BY <3>1, FieldsFacts, ConcatEmptySeq
    <3>3. QED
      BY <3>1, <3>2
  <2>2. ReadFields(block).header[key] \in Seq(Seq(STRING))
    BY ReadFieldsTyped DEF ReadState, Headers
  <2>3. ReadFields(block).header[key] \o <<>> = ReadFields(block).header[key]
    BY <2>2, ConcatEmptySeq
  <2>4. EndsWith(block, block, key, <<>>)
    BY <2>3 DEF EndsWith
  <2>5. QED
    BY <2>1, <2>4
<1>2. ASSUME NEW values \in Seq(Seq(STRING)), NEW value \in Seq(STRING), values \in T
      PROVE  Append(values, value) \in T
  <2>1. /\ Fields(key, values) \in Seq(Keyed) /\ Field(key, value) \in Keyed
        /\ Fields(key, Append(values, value)) = Append(Fields(key, values), Field(key, value))
    BY FieldsFacts, KeyFacts
  <2>2. Whole(Append(values, value)) = Append(Whole(values), Field(key, value))
    BY <2>1, ConcatAppend
  <2>3. EndsWith(Append(Whole(values), Field(key, value)), block, key, Append(values, value))
    <3>1. EndsWith(Whole(values), block, key, values)
      BY <1>2
    <3> HIDE DEF Whole
    <3>2. QED
      BY <3>1, EndsWithMore
  <2>4. Append(values, value) \in Seq(Seq(STRING))
    BY AppendProperties
  <2>5. QED
    <3> HIDE DEF Whole
    <3> QED BY <2>2, <2>3, <2>4
<1>3. Seq(Seq(STRING)) \subseteq T
  <2> HIDE DEF T
  <2> QED BY <1>1, <1>2, HoldsOfSequences
<1>4. QED
  BY <1>3

LEMMA WriteKeysFacts ==
  ASSUME NEW header \in Headers, NEW keys \in Seq(Keys), NEW key \in Keys
  PROVE  /\ WriteKeys(<<>>, header) = <<>>
         /\ WriteKeys(keys, header) \in Seq(Keyed) =>
              WriteKeys(Append(keys, key), header) =
                WriteKeys(keys, header) \o Fields(key, header[key])
<1> DEFINE round == [k \in Keys |-> [written \in Seq(AnyLine) |-> written \o FieldsOf(k, header)]]
           longer == Append(keys, key)
<1>1. \A ks \in Seq(Keys) : WriteKeys(ks, header) = Loop(<<>>, Over(ks, round))
  <2> SUFFICES ASSUME NEW ks \in Seq(Keys)
               PROVE  WriteKeys(ks, header) = Loop(<<>>, Over(ks, round))
    OBVIOUS
  <2>1. \A i \in DOMAIN ks : ks[i] \in Keys
    OBVIOUS
  <2>2. \A i \in DOMAIN ks :
          round[ks[i]] = [written \in Seq(AnyLine) |-> written \o FieldsOf(ks[i], header)]
    BY <2>1, Zenon
  <2>3. Over(ks, round) =
          [i \in DOMAIN ks |-> [written \in Seq(AnyLine) |-> written \o FieldsOf(ks[i], header)]]
    <3> HIDE DEF round
    <3> QED BY <2>2 DEF Over
  <2>4. QED
    BY <2>3, Zenon DEF WriteKeys
<1>2. <<>> \in Seq(Keys) /\ longer \in Seq(Keys)
  BY EmptySeq, AppendProperties
<1>3. /\ WriteKeys(<<>>, header) = <<>>
      /\ WriteKeys(longer, header) = round[key][WriteKeys(keys, header)]
  <2> HIDE DEF round, longer
  <2>1. /\ WriteKeys(<<>>, header) = Loop(<<>>, Over(<<>>, round))
        /\ WriteKeys(longer, header) = Loop(<<>>, Over(longer, round))
        /\ WriteKeys(keys, header) = Loop(<<>>, Over(keys, round))
    BY <1>1, <1>2
  <2>2. Loop(<<>>, Over(<<>>, round)) = <<>>
    BY LoopOverNone
  <2>3. Loop(<<>>, Over(longer, round)) = round[key][Loop(<<>>, Over(keys, round))]
    BY LoopOverMore DEF longer
  <2>4. QED
    BY <2>1, <2>2, <2>3
<1>4. \A written \in Seq(Keyed) : round[key][written] = written \o Fields(key, header[key])
  <2>1. \A written \in Seq(Keyed) : written \in Seq(AnyLine)
    <3>1. Keyed \subseteq AnyLine
      BY DEF Keyed
    <3>2. QED
      BY <3>1, SeqMonotonic
  <2>2. FieldsOf(key, header) = Fields(key, header[key])
    BY DEF FieldsOf, Fields
  <2>3. \A written \in Seq(AnyLine) : round[key][written] = written \o FieldsOf(key, header)
    BY Zenon
  <2>4. QED
    <3> HIDE DEF round
    <3> QED BY <2>1, <2>2, <2>3
<1>5. QED
  <2> HIDE DEF round
  <2> QED BY <1>3, <1>4

\* What is written for some keys is read as the values those keys have, in order.
WrittenBack(keys, header) ==
  LET written == WriteKeys(keys, header) IN
  /\ written \in Seq(Keyed) /\ OnlyFields(written)
  /\ \A key \in Keys : ReadFields(written).header[key] =
                         IF key \in ToSet(keys) THEN header[key] ELSE <<>>
  /\ SeenKeys(written) = keys

LEMMA WrittenBackMore ==
  ASSUME NEW header \in Headers, NEW keys \in Seq(Keys), NEW key \in Keys,
         WrittenBack(keys, header), key \notin ToSet(keys), header[key] # <<>>
  PROVE  WrittenBack(Append(keys, key), header)
<1> DEFINE block == WriteKeys(keys, header)
           longer == WriteKeys(Append(keys, key), header)
<1>1. /\ block \in Seq(Keyed) /\ OnlyFields(block) /\ SeenKeys(block) = keys
      /\ \A k \in Keys : ReadFields(block).header[k] =
                           IF k \in ToSet(keys) THEN header[k] ELSE <<>>
  BY DEF WrittenBack
<1>2. header[key] \in Seq(Seq(STRING))
  BY DEF Headers
<1>3. longer = block \o Fields(key, header[key])
  BY <1>1, WriteKeysFacts
<1>4. EndsWith(longer, block, key, header[key])
  <2> DEFINE values == header[key]
  <2>1. values \in Seq(Seq(STRING))
    BY <1>2
  <2> HIDE DEF values, block
  <2>2. EndsWith(block \o Fields(key, values), block, key, values)
    BY <1>1, <2>1, EndsWithFields
  <2>3. QED
    BY <1>3, <2>2 DEF values
<1> HIDE DEF block, longer
<1>5. <<>> \o header[key] = header[key]
  BY <1>2, ConcatEmptySeq
<1>6. ToSet(Append(keys, key)) = ToSet(keys) \cup {key}
  BY SetFacts
<1>7. \A k \in Keys : ReadFields(longer).header[k] =
                        IF k \in ToSet(Append(keys, key)) THEN header[k] ELSE <<>>
  BY <1>1, <1>4, <1>5, <1>6 DEF EndsWith
<1>8. longer \in Seq(Keyed) /\ OnlyFields(longer) /\ SeenKeys(longer) = Append(keys, key)
  BY <1>1, <1>4 DEF EndsWith
<1>9. QED
  BY <1>7, <1>8 DEF WrittenBack, longer

LEMMA WrittenBackHolds ==
  ASSUME NEW header \in Headers, NEW given \in Seq(Keys), Distinct(given),
         \A key \in ToSet(given) : header[key] # <<>>
  PROVE  WrittenBack(given, header)
<1> DEFINE Writable(keys) == Distinct(keys) /\ \A key \in ToSet(keys) : header[key] # <<>>
           T == {keys \in Seq(Keys) : Writable(keys) => WrittenBack(keys, header)}
<1>1. <<>> \in T
  <2>1. /\ <<>> \in Seq(Keys) /\ <<>> \in Seq(Keyed) /\ Blank \in Keyed /\ "From" \in Keys
        /\ ToSet(<<>>) = {}
    <3>1. <<>> \in Seq(Keys) /\ <<>> \in Seq(Keyed) /\ Blank \in Keyed /\ "From" \in Keys
      BY EmptySeq, KeyFacts
    <3>2. QED
      BY <3>1, SetFacts
  <2>2. WriteKeys(<<>>, header) = <<>> /\ SeenKeys(<<>>) = <<>>
    BY <2>1, WriteKeysFacts, SeenKeysFacts
  <2>3. \A key \in Keys : ReadFields(<<>>).header[key] = <<>>
    BY <2>1, <2>2, SeenAreReadHolds DEF SeenAreRead
  <2>4. OnlyFields(<<>>)
    BY DEF OnlyFields
  <2>5. \A key \in Keys : ReadFields(<<>>).header[key] =
                            IF key \in ToSet(<<>>) THEN header[key] ELSE <<>>
    BY <2>1, <2>3, Zenon
  <2>6. WrittenBack(<<>>, header)
    BY <2>1, <2>2, <2>4, <2>5, Zenon DEF WrittenBack
  <2>7. QED
    BY <2>1, <2>6
<1>2. ASSUME NEW keys \in Seq(Keys), NEW key \in Keys, keys \in T
      PROVE  Append(keys, key) \in T
  <2>1. Append(keys, key) \in Seq(Keys)
    BY AppendProperties
  <2>2. ASSUME Writable(Append(keys, key)) PROVE WrittenBack(Append(keys, key), header)
    <3>1. /\ ToSet(Append(keys, key)) = ToSet(keys) \cup {key}
          /\ Distinct(Append(keys, key)) <=> Distinct(keys) /\ key \notin ToSet(keys)
      BY SetFacts
    <3>2. Writable(keys) /\ key \notin ToSet(keys) /\ header[key] # <<>>
      BY <2>2, <3>1
    <3>3. WrittenBack(keys, header)
      BY <1>2, <3>2
    <3>4. QED
      BY <3>2, <3>3, WrittenBackMore
  <2>3. QED
    BY <2>1, <2>2
<1>3. Seq(Keys) \subseteq T
  <2> HIDE DEF T
  <2> QED BY <1>1, <1>2, HoldsOfSequences
<1>4. QED
  BY <1>3

-----------------------------------------------------------------------------
(* Header and body *)

LEMMA TopFacts ==
  ASSUME NEW mail, Len(mail) \in Nat
  PROVE  /\ Top(mail) \in 0 .. Len(mail)
         /\ Top(mail) # 0 => mail[Top(mail)].form = "blank"
         /\ \A i \in 1 .. Len(mail) : mail[i].form = "blank" => Top(mail) # 0 /\ Top(mail) <= i
<1> DEFINE I == {i \in 1 .. Len(mail) : mail[i].form = "blank"}
<1>1. Top(mail) = IF I # {} THEN Min(I) ELSE 0
  BY DEF Top, SelectInSeq
<1>2. ASSUME I # {} PROVE Min(I) \in I /\ \A i \in I : Min(I) <= i
  <2>1. I \subseteq Nat
    OBVIOUS
  <2>2. \E m \in I : \A i \in I : m <= i
    <3> HIDE DEF I
    <3> QED BY <1>2, <2>1, LeastExists
  <2>3. QED
    <3> HIDE DEF I
    <3> QED BY <2>2, Zenon DEF Min
<1>3. CASE I = {}
  BY <1>1, <1>3
<1>4. CASE I # {}
  <2>1. Top(mail) = Min(I)
    BY <1>1, <1>4
  <2>2. Top(mail) \in I /\ \A i \in I : Top(mail) <= i
    <3> HIDE DEF I
    <3> QED BY <1>2, <1>4, <2>1
  <2>3. QED
    BY <2>2
<1>5. QED
  BY <1>3, <1>4

LEMMA CutTyped ==
  ASSUME NEW mail \in Seq(Lines)
  PROVE  HeaderBlock(mail) \in Seq(Keyed) /\ Body(mail) \in Seq(Keyed)
<1>1. mail \in Seq(Keyed) /\ Len(mail) \in Nat
  BY KeyFacts, SeqMonotonic, LenProperties
<1>2. \A i \in 1 .. Len(mail) : mail[i] \in Keyed
  BY <1>1, ElementOfSeq
<1>3. Top(mail) \in 0 .. Len(mail)
  BY <1>1, TopFacts
<1>4. SubSeq(mail, 1, Top(mail) - 1) \in Seq(Keyed)
  <2>1. Top(mail) - 1 \in Int /\ \A i \in 1 .. Top(mail) - 1 : i \in 1 .. Len(mail)
    BY <1>1, <1>3
  <2>2. QED
    BY <1>2, <2>1, SubSeqProperties
<1>5. SubSeq(mail, Top(mail) + 1, Len(mail)) \in Seq(Keyed)
  <2>1. Top(mail) + 1 \in Int /\ Len(mail) \in Int
        /\ \A i \in Top(mail) + 1 .. Len(mail) : i \in 1 .. Len(mail)
    BY <1>1, <1>3
  <2>2. QED
    BY <1>2, <2>1, SubSeqProperties
<1>6. QED
  BY <1>1, <1>4, <1>5, EmptySeq DEF HeaderBlock, Body

\* Fields, a blank line and a body come apart again.
LEMMA CutFacts ==
  ASSUME NEW block \in Seq(Keyed), OnlyFields(block), NEW body \in Seq(Keyed)
  PROVE  LET mail == block \o <<Blank>> \o body
         IN  /\ HeaderBlock(mail) = block /\ Body(mail) = body /\ Top(mail) # 0
             /\ \A i \in DOMAIN block : mail[i] = block[i]
<1> DEFINE n == Len(block)
           above == block \o <<Blank>>
           mail == above \o body
<1>1. n \in Nat /\ Len(body) \in Nat /\ DOMAIN block = 1 .. n /\ <<Blank>> \in Seq(Keyed)
      /\ Len(<<Blank>>) = 1
  <2>1. Blank \in Keyed
    BY KeyFacts
  <2> HIDE DEF Blank
  <2>2. <<Blank>> \in Seq(Keyed) /\ Len(<<Blank>>) = 1
    BY <2>1
  <2>3. QED
    BY <2>2, LenProperties
<1>2. /\ above \in Seq(Keyed) /\ Len(above) = n + 1
      /\ \A i \in 1 .. n : above[i] = block[i]
      /\ above[n + 1] = Blank
  <2>1. /\ above \in Seq(Keyed) /\ Len(above) = Len(block) + Len(<<Blank>>)
        /\ \A i \in 1 .. Len(block) + Len(<<Blank>>) :
             above[i] = IF i <= Len(block) THEN block[i] ELSE <<Blank>>[i - Len(block)]
    BY <1>1, ConcatProperties
  <2>2. \A i \in 1 .. n : above[i] = block[i]
    <3> HIDE DEF above
    <3> QED BY <1>1, <2>1
  <2>3. above[n + 1] = Blank
    <3>1. n + 1 \in 1 .. Len(block) + Len(<<Blank>>) /\ ~(n + 1 <= Len(block))
          /\ (n + 1) - Len(block) = 1
      BY <1>1
    <3>2. above[n + 1] = <<Blank>>[1]
      <4> HIDE DEF above
      <4> QED BY <2>1, <3>1
    <3>3. QED
      BY <3>2
  <2>4. QED
    <3> HIDE DEF above
    <3> QED BY <1>1, <2>1, <2>2, <2>3
<1>3. /\ mail \in Seq(Keyed) /\ Len(mail) = n + 1 + Len(body)
      /\ \A i \in 1 .. n : mail[i] = block[i]
      /\ mail[n + 1] = Blank
  <2> HIDE DEF above
  <2>1. /\ mail \in Seq(Keyed) /\ Len(mail) = Len(above) + Len(body)
        /\ \A i \in 1 .. Len(above) + Len(body) :
             mail[i] = IF i <= Len(above) THEN above[i] ELSE body[i - Len(above)]
    BY <1>2, ConcatProperties
  <2>2. \A i \in 1 .. n + 1 : mail[i] = above[i]
    <3> HIDE DEF mail, n
    <3> QED BY <1>1, <1>2, <2>1
  <2>3. n + 1 \in 1 .. n + 1 /\ \A i \in 1 .. n : i \in 1 .. n + 1
    BY <1>1
  <2>4. QED
    <3> HIDE DEF mail, n
    <3> QED BY <1>2, <2>1, <2>2, <2>3
<1>4. Top(mail) = n + 1
  <2>1. Len(mail) \in Nat /\ n + 1 \in 1 .. Len(mail)
    <3> HIDE DEF mail, n
    <3> QED BY <1>1, <1>3
  <2>2. mail[n + 1].form = "blank" /\ \A i \in 1 .. n : mail[i].form = "field"
    <3> HIDE DEF mail, n
    <3>1. Blank.form = "blank"
      BY DEF Blank
    <3>2. \A i \in 1 .. n : block[i].form = "field"
      BY <1>1 DEF OnlyFields
    <3>3. QED
      BY <1>3, <3>1, <3>2
  <2>3. Top(mail) # 0 /\ Top(mail) <= n + 1 /\ Top(mail) \in 0 .. Len(mail)
        /\ mail[Top(mail)].form = "blank"
    <3> HIDE DEF mail, n
    <3> QED BY <2>1, <2>2, TopFacts
  <2>4. Top(mail) \notin 1 .. n
    <3> HIDE DEF mail, n
    <3>1. \A i \in 1 .. n : mail[i].form # "blank"
      BY <2>2
    <3>2. QED
      BY <2>3, <3>1
  <2>5. QED
    <3> HIDE DEF mail, n
    <3> QED BY <1>1, <2>1, <2>3, <2>4
<1>5. HeaderBlock(mail) = block
  <2>1. HeaderBlock(mail) = SubSeq(mail, 1, n)
    <3> HIDE DEF mail, n
    <3>1. n + 1 # 0 /\ (n + 1) - 1 = n
      BY <1>1
    <3>2. QED
      BY <1>4, <3>1, Zenon DEF HeaderBlock
  <2>2. SubSeq(mail, 1, n) = SubSeq(block, 1, n)
    <3> DEFINE m == SubSeq(mail, 1, n)
    <3>1. n \in Int /\ n - 1 + 1 = n /\ (1 <= n \/ n = 0) /\ 1 \in Int
      BY <1>1
    <3>2. \A i \in 1 .. n : mail[i] \in Keyed
      <4> HIDE DEF mail
      <4> QED BY <1>3, ElementOfSeq
    <3>3. m \in Seq(Keyed) /\ Len(m) = n /\ \A i \in 1 .. n : m[i] = mail[i]
      <4>1. /\ m \in Seq(Keyed) /\ Len(m) = IF 1 <= n THEN n - 1 + 1 ELSE 0
            /\ \A i \in 1 .. n - 1 + 1 : m[i] = mail[1 + i - 1]
        <5> HIDE DEF mail, n
        <5>1. 1 \in Int /\ n \in Int /\ \A i \in 1 .. n : mail[i] \in Keyed
          BY <3>1, <3>2
        <5>2. QED
          BY ONLY <5>1, SubSeqProperties
      <4>2. \A i \in 1 .. n : 1 + i - 1 = i
        BY <1>1
      <4>3. QED
        <5> HIDE DEF m, mail, n
        <5> QED BY <1>1, <3>1, <4>1, <4>2
    <3>4. m = block
      <4> HIDE DEF m, mail
      <4> QED BY <1>3, <3>3, SeqEqual
    <3>5. QED
      BY <3>4, SubSeqFull
  <2>3. QED
    BY <2>1, <2>2, SubSeqFull
<1>6. Body(mail) = body
  <2> DEFINE p == n + 1 + 1
             q == n + 1 + Len(body)
  <2>1. Body(mail) = SubSeq(mail, p, q)
    <3> HIDE DEF mail, n
    <3>1. n + 1 # 0
      BY <1>1
    <3>2. QED
      BY <1>3, <1>4, <3>1, Zenon DEF Body
  <2>2. /\ p \in Int /\ q \in Int /\ Len(above) \in Nat
        /\ p - Len(above) = 1 /\ q - Len(above) = Len(body)
        /\ Len(body) = 0 => q < p
        /\ Len(body) # 0 => /\ p \in Len(above) + 1 .. Len(above) + Len(body)
                            /\ q \in Len(above) + 1 .. Len(above) + Len(body)
    <3> HIDE DEF above, n
    <3> QED BY <1>1, <1>2
  <2> HIDE DEF p, q
  <2>3. CASE body = <<>>
    <3>1. q < p
      BY <2>2, <2>3
    <3>2. SubSeq(mail, p, q) = <<>>
      <4> HIDE DEF mail
      <4> QED BY <2>2, <3>1, SubSeqEmpty
    <3>3. QED
      BY <2>1, <2>3, <3>2
  <2>4. CASE body # <<>>
    <3>1. Len(body) # 0
      BY <2>4, EmptySeq
    <3>2. SubSeq(above \o body, p, q) = SubSeq(body, p - Len(above), q - Len(above))
      <4> HIDE DEF above
      <4> QED BY <1>2, <2>2, <3>1, SubSeqOfConcat2
    <3>3. SubSeq(body, p - Len(above), q - Len(above)) = body
      <4> HIDE DEF above
      <4> QED BY <2>2, SubSeqFull
    <3>4. QED
      BY <2>1, <3>2, <3>3
  <2>5. QED
    BY <2>3, <2>4
<1>7. Top(mail) # 0
  <2> HIDE DEF mail, n
  <2> QED BY <1>1, <1>4
<1>8. QED
  <2> HIDE DEF above
  <2> QED BY <1>1, <1>3, <1>5, <1>6, <1>7 DEF above

-----------------------------------------------------------------------------
(* The theorem *)

LEMMA ShortSetToSeq ==
  ASSUME NEW x
  PROVE  SetToSeq({}) = <<>> /\ SetToSeq({x}) = <<x>>
<1>1. Cardinality({}) = 0 /\ Cardinality({x}) = 1
  BY FS_EmptySet, FS_Singleton
<1>2. SetToSeq({}) = <<>>
  <2> DEFINE Of(f) == f \in [1 .. 0 -> {}] /\ IsInjective(f)
  <2>1. Of(<<>>)
    BY DEF IsInjective
  <2>2. SetToSeq({}) = CHOOSE f \in [1 .. 0 -> {}] : IsInjective(f)
    BY <1>1 DEF SetToSeq
  <2>3. SetToSeq({}) \in [1 .. 0 -> {}]
    BY <2>1, <2>2
  <2>4. QED
    BY <2>3
<1>3. SetToSeq({x}) = <<x>>
  <2>1. <<x>> \in [1 .. 1 -> {x}] /\ IsInjective(<<x>>)
    BY DEF IsInjective
  <2>2. SetToSeq({x}) = CHOOSE f \in [1 .. 1 -> {x}] : IsInjective(f)
    BY <1>1 DEF SetToSeq
  <2>3. SetToSeq({x}) \in [1 .. 1 -> {x}]
    BY <2>1, <2>2
  <2>4. \A f \in [1 .. 1 -> {x}] : f = <<x>>
    OBVIOUS
  <2>5. QED
    BY <2>3, <2>4
<1>4. QED
  BY <1>2, <1>3

\* The keys that a block is written again with, From among them.
LEMMA AllKeysWritten ==
  ASSUME NEW block \in Seq(Keyed), NEW sender \in Seq(STRING)
  PROVE  LET seen   == SeenKeys(block)
             header == [ReadFields(block).header EXCEPT !["From"] = <<sender>>]
             rest   == {key \in Keys : header[key] # <<>>} \ ToSet(seen)
             keys   == IF "From" \in ToSet(seen) THEN seen ELSE Append(seen, "From")
         IN  /\ header \in Headers /\ header["From"] = <<sender>>
             /\ \A key \in Keys \ {"From"} : header[key] = ReadFields(block).header[key]
             /\ seen \o SetToSeq(rest) = keys
             /\ keys \in Seq(Keys) /\ Distinct(keys)
             /\ \A key \in Keys : key \in ToSet(keys) <=> header[key] # <<>>
<1> DEFINE seen   == SeenKeys(block)
           old    == ReadFields(block).header
           header == [old EXCEPT !["From"] = <<sender>>]
           rest   == {key \in Keys : header[key] # <<>>} \ ToSet(seen)
           keys   == IF "From" \in ToSet(seen) THEN seen ELSE Append(seen, "From")
<1>1. "From" \in Keys
  BY KeyFacts
<1>2. /\ seen \in Seq(Keys) /\ Distinct(seen)
      /\ \A key \in Keys : key \in ToSet(seen) <=> old[key] # <<>>
  BY SeenAreReadHolds DEF SeenAreRead
<1>3. old \in Headers
  BY ReadFieldsTyped DEF ReadState
<1>4. <<sender>> \in Seq(Seq(STRING)) /\ <<sender>> # <<>>
  OBVIOUS
<1>5. /\ header \in Headers /\ header["From"] = <<sender>>
      /\ \A key \in Keys \ {"From"} : header[key] = old[key]
  <2> HIDE DEF old
  <2>1. DOMAIN old = Keys /\ old \in [Keys -> Seq(Seq(STRING))]
    BY <1>3 DEF Headers
  <2>2. QED
    BY <1>1, <1>4, <2>1 DEF Headers
<1> HIDE DEF old, header, seen
<1>6. \A key \in Keys : header[key] # <<>> <=> key \in ToSet(seen) \/ key = "From"
  BY <1>2, <1>4, <1>5
<1>7. rest = IF "From" \in ToSet(seen) THEN {} ELSE {"From"}
  BY <1>1, <1>6
<1>8. /\ ToSet(Append(seen, "From")) = ToSet(seen) \cup {"From"}
      /\ Distinct(Append(seen, "From")) <=> Distinct(seen) /\ "From" \notin ToSet(seen)
  BY <1>1, <1>2, SetFacts
<1>9. seen \o SetToSeq(rest) = keys
  <2> HIDE DEF rest
  <2>1. CASE "From" \in ToSet(seen)
    <3>1. SetToSeq(rest) = <<>>
      BY <1>7, <2>1, ShortSetToSeq
    <3>2. QED
      BY <1>2, <2>1, <3>1, ConcatEmptySeq
  <2>2. CASE "From" \notin ToSet(seen)
    <3>1. SetToSeq(rest) = <<"From">>
      BY <1>7, <2>2, ShortSetToSeq
    <3>2. seen \o <<"From">> = Append(seen, "From")
      BY <1>1, <1>2, AppendIsConcat
    <3>3. QED
      BY <2>2, <3>1, <3>2
  <2>3. QED
    BY <2>1, <2>2
<1>10. keys \in Seq(Keys) /\ Distinct(keys)
  BY <1>1, <1>2, <1>8, AppendProperties
<1>11. \A key \in Keys : key \in ToSet(keys) <=> header[key] # <<>>
  BY <1>6, <1>8
<1>12. QED
  BY <1>5, <1>9, <1>10, <1>11 DEF old, header, seen

\* A rewritten mail is read as what it was written from.
LEMMA RewrittenIsRead ==
  ASSUME NEW mail \in Seq(Lines), NEW sender \in Seq(STRING), sender # <<>>, Reads(mail),
         Get(Header(mail), "From") # sender
  PROVE  LET wire == RewriteSenderHeader(mail, sender)
             keys == OrderedKeys(mail)
         IN  /\ Reads(wire) /\ Body(wire) = Body(mail)
             /\ Header(wire)["From"] = <<sender>>
             /\ \A key \in Keys \ {"From"} : Header(wire)[key] = Header(mail)[key]
             /\ OrderedKeys(wire) = IF "From" \in ToSet(keys) THEN keys
                                    ELSE Append(keys, "From")
<1> DEFINE block  == HeaderBlock(mail)
           seen   == SeenKeys(block)
           header == [ReadFields(block).header EXCEPT !["From"] = <<sender>>]
           rest   == {key \in Keys : header[key] # <<>>} \ ToSet(seen)
           keys   == IF "From" \in ToSet(seen) THEN seen ELSE Append(seen, "From")
           written == WriteKeys(keys, header)
           wire   == written \o <<Blank>> \o Body(mail)
<1>1. block \in Seq(Keyed) /\ Body(mail) \in Seq(Keyed)
  BY CutTyped
<1>2. /\ header \in Headers /\ header["From"] = <<sender>>
      /\ \A key \in Keys \ {"From"} : header[key] = ReadFields(block).header[key]
      /\ seen \o SetToSeq(rest) = keys
      /\ keys \in Seq(Keys) /\ Distinct(keys)
      /\ \A key \in Keys : key \in ToSet(keys) <=> header[key] # <<>>
  <2> HIDE DEF block
  <2> QED BY <1>1, AllKeysWritten
<1>3. RewriteSenderHeader(mail, sender) = wire
  BY <1>2 DEF RewriteSenderHeader, WriteHeaders, Header, OrderedKeys
<1>4. WrittenBack(keys, header)
  <2> HIDE DEF keys, header
  <2>1. ToSet(keys) \subseteq Keys
    BY <1>2 DEF ToSet
  <2>2. QED
    BY <1>2, <2>1, WrittenBackHolds
<1>5. /\ written \in Seq(Keyed) /\ OnlyFields(written)
      /\ \A key \in Keys : ReadFields(written).header[key] =
                             IF key \in ToSet(keys) THEN header[key] ELSE <<>>
      /\ SeenKeys(written) = keys
  <2> HIDE DEF keys, header
  <2> QED BY <1>4 DEF WrittenBack
<1>6. /\ HeaderBlock(wire) = written /\ Body(wire) = Body(mail) /\ Top(wire) # 0
      /\ \A i \in DOMAIN written : wire[i] = written[i]
  <2> HIDE DEF written
  <2> QED BY <1>1, <1>5, CutFacts
<1>7. \A key \in Keys : Header(wire)[key] = header[key]
  <2> HIDE DEF written, keys, header, wire
  <2> QED BY <1>2, <1>5, <1>6 DEF Header
<1>8. Reads(wire)
  <2> HIDE DEF written, wire
  <2>1. \A i \in DOMAIN HeaderBlock(wire) : wire[i].form = "field"
    BY <1>5, <1>6 DEF OnlyFields
  <2>2. QED
    BY <1>6, <2>1 DEF Reads
<1>9. OrderedKeys(wire) = keys
  BY <1>5, <1>6 DEF OrderedKeys
<1>10. "From" \in Keys
  BY KeyFacts
<1>11. QED
  <2> HIDE DEF written, wire, header, keys
  <2>1. /\ Header(wire)["From"] = <<sender>>
        /\ \A key \in Keys \ {"From"} : Header(wire)[key] = Header(mail)[key]
    BY <1>2, <1>7, <1>10 DEF Header
  <2>2. QED
    BY <1>3, <1>6, <1>8, <1>9, <2>1 DEF keys, OrderedKeys

LEMMA RawIsExact ==
  ASSUME raw \in Seq(Lines)
  PROVE  RewriteIsExact
<1> SUFFICES ASSUME NEW sender \in Senders, sender # <<>>, Reads(raw)
             PROVE  LET wire   == RewriteSenderHeader(raw, sender)
                        before == Header(raw)
                        after  == Header(wire)
                        keys   == OrderedKeys(raw)
                    IN  /\ Reads(wire)
                        /\ Get(after, "From") = sender
                        /\ wire # raw => after["From"] = <<sender>>
                        /\ \A key \in Keys \ {"From"} : after[key] = before[key]
                        /\ OrderedKeys(wire) = IF "From" \in ToSet(keys) THEN keys
                                               ELSE Append(keys, "From")
                        /\ Body(wire) = Body(raw)
                        /\ RewriteSenderHeader(wire, sender) = wire
  BY DEF RewriteIsExact, RewriteSenderHeader
<1>1. sender \in Seq(STRING) /\ "From" \in Keys
  BY RewriteAssumption, KeyFacts
<1>2. CASE Get(Header(raw), "From") = sender
  <2>1. RewriteSenderHeader(raw, sender) = raw
    BY <1>2 DEF RewriteSenderHeader
  <2>2. "From" \in ToSet(OrderedKeys(raw))
    <3>1. Header(raw)["From"] # <<>>
      BY <1>2 DEF Get
    <3>2. SeenAreRead(HeaderBlock(raw))
      BY CutTyped, SeenAreReadHolds
    <3>3. QED
      BY <1>1, <3>1, <3>2 DEF SeenAreRead, Header, OrderedKeys
  <2>3. QED
    BY <1>2, <2>1, <2>2
<1>3. CASE Get(Header(raw), "From") # sender
  <2> DEFINE wire == RewriteSenderHeader(raw, sender)
             keys == OrderedKeys(raw)
  <2>1. /\ Reads(wire) /\ Body(wire) = Body(raw)
        /\ Header(wire)["From"] = <<sender>>
        /\ \A key \in Keys \ {"From"} : Header(wire)[key] = Header(raw)[key]
        /\ OrderedKeys(wire) = IF "From" \in ToSet(keys) THEN keys ELSE Append(keys, "From")
    BY <1>1, <1>3, RewrittenIsRead
  <2> HIDE DEF wire
  <2>2. Get(Header(wire), "From") = sender
    BY <2>1 DEF Get
  <2>3. RewriteSenderHeader(wire, sender) = wire
    BY <2>2 DEF RewriteSenderHeader
  <2>4. QED
    BY <2>1, <2>2, <2>3 DEF wire
<1>4. QED
  BY <1>2, <1>3

\* Whatever mail the engine returns and whatever sender a relay has.
THEOREM RewriteIsExactHolds == RewriteSpec => []RewriteIsExact
<1> DEFINE Typed == raw \in Seq(Lines)
<1>1. RewriteInit => Typed
  BY EmptySeq DEF RewriteInit
<1>2. Typed /\ [RewriteNext]_raw => Typed'
  BY AppendProperties DEF RewriteNext
<1>3. Typed => RewriteIsExact
  BY RawIsExact
<1>4. QED
  BY <1>1, <1>2, <1>3, PTL DEF RewriteSpec
=============================================================================
