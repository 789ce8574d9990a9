--------------------------- MODULE MailServerProps ---------------------------
(* What the process owes the senders of mails and the callers of its API. *)
EXTENDS MailServer

Settings == [rate : 0 .. 100, delay : Nat]

\* The handlers, when n settings have been in force.
Sessions(n) == [pc : {"new", "delay", "decide", "parse", "store", "notify", "relay", "over"},
                used : Settings,
                todo : SUBSET Relays,
                earliest : 1 .. n, latest : 1 .. n]

HttpHandlers(n) == [pc : {"new", "put", "broadcast", "release", "one", "over"},
                    put : [rate : Int, delay : Int],
                    version : 0 .. n,
                    relay : SUBSET Relays,
                    ids : SUBSET Mails, todo : SUBSET Mails,
                    succeeded : SUBSET Mails, failed : SUBSET Mails]

WaitHandlers == [pc : {"new", "look", "select", "found", "expired", "gone"},
                 wants : SUBSET Mails, before : SUBSET Mails,
                 hit : SUBSET Mails, failed : BOOLEAN]

\* Every variable has its type; the settings stay in their range.
TypeOK ==
  /\ settings \in Settings
  /\ versions \in Seq(Settings)
  /\ answered \in 1 .. Len(versions)
  /\ session \in [Mails -> Sessions(Len(versions))]
  /\ stored \subseteq Mails /\ leftover \subseteq Mails /\ announced \subseteq Mails
  /\ sent \in [Mails -> [Relays -> Nat]]
  /\ reply \in [Mails -> {"none", "accepted", "rejected", "error"}]
  /\ request \in [Requests -> HttpHandlers(Len(versions))]
  /\ waiter \in [Waiters -> WaitHandlers]
  /\ released \subseteq Mails \X Relays
  /\ up \in {"serving", "stopping", "exited"}
  /\ timedOut \in BOOLEAN

\* The 250 a sender gets means that the mail is stored, that the browsers know
\* of it, and that each automatic relay, and no other, was given it once.
AcceptedIsComplete ==
  \A m \in Mails : reply[m] = "accepted" =>
    /\ m \in stored /\ m \in announced
    /\ \A r \in Relays :
         sent[m][r] = IF Relay[r].enabled /\ Relay[r].auto /\ Relay[r].mechanism
                        THEN 1 ELSE 0

\* A mail the sender was told is refused goes nowhere: no browser hears of it and
\* no automatic relay is given it, whatever the Set that failed left behind. One
\* the settings rejected, or that could not be parsed, never reached the storage:
\* no caller that waits is given it, and no release sends it on.
RefusedGoesNowhere ==
  \A m \in Mails :
    /\ reply[m] \in {"rejected", "error"} =>
         m \notin stored \cup announced /\ \A r \in Relays : sent[m][r] = 0
    /\ reply[m] = "rejected" \/ (reply[m] = "error" /\ m \in Unreadable) =>
         /\ m \notin leftover
         /\ \A r \in Relays : <<m, r>> \notin released
         /\ \A w \in Waiters : m \notin waiter[w].hit

\* A browser that is told of a mail finds it in the storage; what a relay request
\* sent on was there at least in part.
AnnouncedIsStored ==
  /\ announced \subseteq stored
  /\ \A pair \in released : MayBeRead(pair[1])

\* Whoever changes the settings and gets the answer can rely on them for every
\* mail sent after: at a rate of 100 none is accepted, at 0 none rejected. Only
\* settings in force between the last answer and the arrival count, and a delay
\* does not let later ones in.
RatesAreObeyed ==
  \A m \in Mails :
    LET rates == {versions[v].rate : v \in session[m].earliest .. session[m].latest}
    IN  /\ reply[m] = "accepted" => \E rate \in rates : rate < 100
        /\ reply[m] = "rejected" => \E rate \in rates : rate > 0

\* A relay request accounts for every mail it was given, once, and what it calls
\* a success went out; a relay that is switched off is never used.
ReleaseIsExact ==
  \A h \in Requests :
    LET q == request[h] IN
    q.pc = "over" =>
      /\ q.succeeded \cap q.failed = {}
      /\ (\A r \in q.relay : Relay[r].enabled) => q.succeeded \cup q.failed = q.ids
      /\ \A m \in q.succeeded, r \in q.relay : Relay[r].enabled /\ <<m, r>> \in released

\* A caller that waits for a mail and gets one gets one it asked for, which is
\* stored, or which a Set that failed left behind. One that is told none came was
\* not waiting for a mail that was there before it asked, unless a search failed,
\* which it is not told.
WaitIsHonest ==
  \A w \in Waiters :
    /\ waiter[w].pc = "found" =>
         /\ waiter[w].hit # {} /\ waiter[w].hit \subseteq waiter[w].wants
         /\ waiter[w].hit \subseteq stored \cup leftover
    /\ waiter[w].pc = "expired" => waiter[w].before = {} \/ waiter[w].failed

\* The handler writes to the browsers or speaks to a relay, neither under a
\* deadline.
HeldUp(m) ==
  session[m].pc = "notify" \/ (session[m].pc = "relay" /\ session[m].todo # {})

\* Every sender is answered, unless the process ends, or the broadcast or a relay
\* holds its mail up for ever. A relay that fails does not change that, nor what
\* happens to other mails and requests.
SendersAreAnswered ==
  \A m \in Mails :
    (session[m].pc # "new") ~> (reply[m] # "none" \/ up = "exited" \/ []HeldUp(m))

\* Every caller that waits is answered: it is told of a mail or of the timeout.
WaitersAreAnswered ==
  \A w \in Waiters : Waiting(w) ~> (~Waiting(w) \/ up = "exited")

\* The process ends when the requests in flight are done, or after the five
\* seconds that main gives them.
GracefulExit == up = "exited" => InFlight = {} \/ timedOut
=============================================================================
