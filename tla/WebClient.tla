------------------------------ MODULE WebClient ------------------------------
(***************************************************************************)
(* Browsers that show the list of mails, and the handlers they call.        *)
(*                                                                          *)
(* A browser asks for the list when the page loads, when an event comes in  *)
(* over its WebSocket and after an action of its user. Each request is a    *)
(* connection of its own: answers arrive in any order. The user ticks rows  *)
(* and acts on the ticked ones at once.                                     *)
(*                                                                          *)
(* The list is one page of the query "everything". The engine keeps what    *)
(* it is given, and the hub delivers to the sockets that are open.          *)
(*                                                                          *)
(* Source: http/static/script.js, http/httpd.go                             *)
(***************************************************************************)
EXTENDS Integers, Sequences, SequencesExt, FiniteSets

CONSTANTS
  Mails,          \* mails that arrive, each one once
  Clients,        \* callers of the API
  Pages,          \* those that are open pages of the web client
  SearchFails,    \* whether SearchEmails may fail
  MaxCalls,       \* bound: requests a page has under way
  MaxActs         \* bound: actions of users and callers and drops of sockets

ASSUME ClientAssumption ==
  /\ Pages \subseteq Clients
  /\ SearchFails \in BOOLEAN
  /\ MaxCalls \in Nat \ {0} /\ MaxActs \in Nat

VARIABLES
  stored,         \* the mails in the storage
  readEmails,     \* ids with the read mark; one of a deleted mail stays
  untold,         \* number of arrivals whose event was not sent yet
  socket,         \* socket[p]: "open" or "closed"
  events,         \* events[p]: number of events on their way to page p
  calls,          \* calls[c]: requests under way; lists in the order of their
                  \*           searches, behind those that were not made yet
  rows,           \* rows[p]: the list on the screen
  ticked,         \* ticked[p]: the rows whose box is ticked
  selectedEmailIds

\* What the properties look back at. No code reads these.
VARIABLES
  arrived,        \* mails that have come
  behind,         \* behind[p]: whether p was not told of something it does not
                  \*            show, or shows an older list than it had
  touched,        \* touched[p]: rows ticked since p last asked for the list
  acts            \* actions so far

serverVars == <<stored, readEmails, untold, arrived>>
tickVars   == <<ticked, selectedEmailIds, touched>>
vars       == <<serverVars, tickVars, rows, behind, socket, events, calls, acts>>

BulkKinds   == {"bulk-delete", "bulk-mark-read", "bulk-mark-unread"}
DeleteKinds == {"delete", "delete-all"}
Kinds       == {"list", "open", "reset"} \cup DeleteKinds \cup BulkKinds

NoRows == [ids |-> {}, read |-> {}]

\* ids: what is asked for; todo: what the handler still has to do; done: what
\* it did; seen: the list; stale: whether the list misses what no later event
\* will bring.
Request(kind, ids) ==
  [kind |-> kind, phase |-> "sent", ids |-> ids,
   todo |-> IF kind \in BulkKinds THEN ids ELSE {}, done |-> {},
   seen |-> NoRows, stale |-> FALSE]

ListRequest == Request("list", {})

\* The search behind the answer was made.
Made(call) == call.phase \in {"found", "answered"}

Listing == [ids |-> stored, read |-> stored \cap readEmails]

Init ==
  /\ stored = {} /\ readEmails = {} /\ untold = 0 /\ arrived = {} /\ acts = 0
  /\ socket = [p \in Pages |-> "closed"]
  /\ events = [p \in Pages |-> 0]
  /\ calls = [c \in Clients |-> IF c \in Pages THEN <<ListRequest>> ELSE <<>>]
  /\ rows = [p \in Pages |-> NoRows]
  /\ ticked = [p \in Pages |-> {}]
  /\ selectedEmailIds = [p \in Pages |-> {}]
  /\ touched = [p \in Pages |-> {}]
  /\ behind = [p \in Pages |-> FALSE]

HasRoom(c) == Len(calls[c]) < IF c \in Pages THEN MaxCalls ELSE 1

\* An action of a user, a caller or the network that the bounds count.
Acts == acts < MaxActs /\ acts' = acts + 1

-----------------------------------------------------------------------------
(* Parts of the actions. now: what becomes of calls otherwise. *)

\* Pages miss something: lists already made do not make up for it.
Miss(pages, now) ==
  /\ behind' = [p \in Pages |-> behind[p] \/ p \in pages]
  /\ calls' = [c \in Clients |->
       IF c \in pages
         THEN [i \in DOMAIN now[c] |->
                [now[c][i] EXCEPT !.stale = @ \/ Made(now[c][i])]]
         ELSE now[c]]

\* BroadcastEvent: the event goes to the sockets that are open.
Broadcast(informed, now) ==
  LET open == {p \in Pages : socket[p] = "open"} IN
  /\ events' = [p \in Pages |-> IF p \in open THEN events[p] + 1 ELSE events[p]]
  /\ Miss(Pages \ (open \cup informed), now)

\* A mistake for the checks: the selection outlives the list it was made in.
RefreshKeepsSelection(p, others) ==
  /\ calls' = [calls EXCEPT ![p] = Append(others, ListRequest)]
  /\ touched' = [touched EXCEPT ![p] = {}]
  /\ UNCHANGED <<ticked, selectedEmailIds>>

\* refreshEmailList, beside the requests that are still under way: the
\* selection is cleared now and the rows are replaced later.
Refresh(p, others) ==
  /\ calls' = [calls EXCEPT ![p] = Append(others, ListRequest)]
  /\ ticked' = [ticked EXCEPT ![p] = {}]
  /\ selectedEmailIds' = [selectedEmailIds EXCEPT ![p] = {}]
  /\ touched' = [touched EXCEPT ![p] = {}]

Send(c, kind, ids) ==
  /\ HasRoom(c) /\ Acts
  /\ calls' = [calls EXCEPT ![c] = Append(@, Request(kind, ids))]
  /\ UNCHANGED <<serverVars, tickVars, rows, behind, socket, events>>

-----------------------------------------------------------------------------
(* Mistakes the code could contain. None of them is part of the model: each *)
(* stands in for a definition to show that a property notices.              *)

\* The event is sent before the mail is deleted.
HandleDeleteTellsFirst(c, i) ==
  LET call == calls[c][i] IN
  /\ call.kind = "delete"
  /\ \/ /\ call.phase = "sent"
        /\ Broadcast({c}, [calls EXCEPT ![c][i].phase = "tell"])
        /\ UNCHANGED serverVars
     \/ /\ call.phase = "tell"
        /\ stored' = stored \ call.ids
        /\ calls' = [calls EXCEPT ![c][i].phase = "answered"]
        /\ UNCHANGED <<readEmails, untold, arrived, events, behind>>
  /\ UNCHANGED <<tickVars, rows, socket, acts>>

\* The list carries every mark, those of mails it does not hold too.
HandleMarksAll(c, i) ==
  /\ calls[c][i].kind = "list" /\ calls[c][i].phase = "found"
  /\ calls' = [calls EXCEPT ![c][i].phase = "answered", ![c][i].seen.read = readEmails]
  /\ UNCHANGED <<serverVars, tickVars, rows, behind, socket, events, acts>>

-----------------------------------------------------------------------------
(* The server: arrivals *)

\* The engine has the mail; onNewEmail comes after.
MailStored(m) ==
  /\ m \notin arrived
  /\ arrived' = arrived \cup {m}
  /\ stored' = stored \cup {m}
  /\ untold' = untold + 1
  /\ UNCHANGED <<readEmails, tickVars, rows, behind, socket, events, calls, acts>>

MailTold ==
  /\ untold > 0
  /\ untold' = untold - 1
  /\ Broadcast({}, calls)
  /\ UNCHANGED <<stored, readEmails, arrived, tickVars, rows, socket, acts>>

-----------------------------------------------------------------------------
(* The server: the handlers *)

\* getEmails: SearchEmails.
HandleSearch(c, i) ==
  LET call == calls[c][i] IN
  /\ call.kind = "list" /\ call.phase = "sent"
  /\ \/ calls' = [calls EXCEPT ![c] = Append(RemoveAt(@, i),
            [call EXCEPT !.phase = "found", !.seen.ids = stored])]
     \/ /\ SearchFails
        /\ calls' = [calls EXCEPT ![c][i].phase = "failed"]
  /\ UNCHANGED <<serverVars, tickVars, rows, behind, socket, events, acts>>

\* getEmails: the read marks, looked up after the search.
HandleMarks(c, i) ==
  /\ calls[c][i].kind = "list" /\ calls[c][i].phase = "found"
  /\ calls' = [calls EXCEPT ![c][i].phase = "answered",
                            ![c][i].seen.read = calls[c][i].seen.ids \cap readEmails]
  /\ UNCHANGED <<serverVars, tickVars, rows, behind, socket, events, acts>>

\* deleteEmailByID, deleteEmails: the answer leaves when the handler returns,
\* after the event.
HandleDelete(c, i) ==
  LET call == calls[c][i]
      gone == IF call.kind = "delete" THEN call.ids ELSE stored IN
  /\ call.kind \in DeleteKinds
  /\ \/ /\ call.phase = "sent" /\ ~(gone \subseteq stored)
        /\ calls' = [calls EXCEPT ![c][i].phase = "failed"]
        /\ UNCHANGED <<serverVars, events, behind>>
     \/ /\ call.phase = "sent" /\ gone \subseteq stored
        /\ stored' = stored \ gone
        /\ calls' = [calls EXCEPT ![c][i].phase = "tell"]
        /\ UNCHANGED <<readEmails, untold, arrived, events, behind>>
     \/ /\ call.phase = "tell"
        /\ Broadcast({c}, [calls EXCEPT ![c][i].phase = "answered"])
        /\ UNCHANGED serverVars
  /\ UNCHANGED <<tickVars, rows, socket, acts>>

\* resetReadStatus
HandleReset(c, i) ==
  LET call == calls[c][i] IN
  /\ call.kind = "reset"
  /\ \/ /\ call.phase = "sent"
        /\ readEmails' = {}
        /\ calls' = [calls EXCEPT ![c][i].phase = "tell"]
        /\ UNCHANGED <<events, behind>>
     \/ /\ call.phase = "tell"
        /\ Broadcast({c}, [calls EXCEPT ![c][i].phase = "answered"])
        /\ UNCHANGED readEmails
  /\ UNCHANGED <<stored, untold, arrived, tickVars, rows, socket, acts>>

\* One round of bulkDeleteEmails, which tells nobody.
HandleBulkDelete(c, i, m) ==
  /\ calls[c][i].kind = "bulk-delete" /\ m \in calls[c][i].todo
  /\ stored' = stored \ {m}
  /\ IF m \in stored
       THEN Miss(Pages \ {c}, [calls EXCEPT ![c][i].todo = @ \ {m},
                                            ![c][i].done = @ \cup {m}])
       ELSE /\ calls' = [calls EXCEPT ![c][i].todo = @ \ {m}]
            /\ UNCHANGED behind
  /\ UNCHANGED <<readEmails, untold, arrived, tickVars, rows, socket, events, acts>>

\* One round of bulkMarkRead or bulkMarkUnread, which do not look for the mail.
HandleBulkMark(c, i, m) ==
  LET call == calls[c][i] IN
  /\ call.kind \in {"bulk-mark-read", "bulk-mark-unread"} /\ m \in call.todo
  /\ readEmails' = IF call.kind = "bulk-mark-read" THEN readEmails \cup {m}
                                                   ELSE readEmails \ {m}
  /\ Miss(Pages \ {c}, [calls EXCEPT ![c][i].todo = @ \ {m}, ![c][i].done = @ \cup {m}])
  /\ UNCHANGED <<stored, untold, arrived, tickVars, rows, socket, events, acts>>

BulkDone(c, i) ==
  /\ calls[c][i].kind \in BulkKinds
  /\ calls[c][i].phase = "sent" /\ calls[c][i].todo = {}
  /\ calls' = [calls EXCEPT ![c][i].phase = "answered"]
  /\ UNCHANGED <<serverVars, tickVars, rows, behind, socket, events, acts>>

\* getEmailByID: the mail is marked once it was found, whatever became of it
\* since, and no list is told of it, not even the caller's.
HandleOpen(c, i) ==
  LET call == calls[c][i] IN
  /\ call.kind = "open"
  /\ \/ /\ call.phase = "sent"
        /\ calls' = [calls EXCEPT ![c][i].phase =
             IF call.ids \subseteq stored THEN "found" ELSE "failed"]
        /\ UNCHANGED <<readEmails, behind>>
     \/ /\ call.phase = "found"
        /\ readEmails' = readEmails \cup call.ids
        /\ Miss(Pages, [calls EXCEPT ![c][i].phase = "answered"])
  /\ UNCHANGED <<stored, untold, arrived, tickVars, rows, socket, events, acts>>

Handle(c, i) ==
  \/ HandleSearch(c, i) \/ HandleMarks(c, i) \/ HandleDelete(c, i)
  \/ HandleReset(c, i) \/ BulkDone(c, i) \/ HandleOpen(c, i)
  \/ \E m \in Mails : HandleBulkDelete(c, i, m) \/ HandleBulkMark(c, i, m)

-----------------------------------------------------------------------------
(* A page: its socket *)

Connect(p) ==
  /\ socket[p] = "closed"
  /\ socket' = [socket EXCEPT ![p] = "open"]
  /\ UNCHANGED <<serverVars, tickVars, rows, behind, events, calls, acts>>

\* What was on its way is lost. The page connects again and asks for nothing.
Drop(p) ==
  /\ socket[p] = "open" /\ Acts
  /\ socket' = [socket EXCEPT ![p] = "closed"]
  /\ events' = [events EXCEPT ![p] = 0]
  /\ Miss(IF events[p] > 0 THEN {p} ELSE {}, calls)
  /\ UNCHANGED <<serverVars, tickVars, rows>>

EventArrives(p) ==
  /\ events[p] > 0 /\ HasRoom(p)
  /\ events' = [events EXCEPT ![p] = @ - 1]
  /\ Refresh(p, calls[p])
  /\ UNCHANGED <<serverVars, rows, behind, socket, acts>>

-----------------------------------------------------------------------------
(* A page: the answers *)

\* The rows are new, with empty boxes; the selection is left alone. Lists made
\* earlier that are still to come are older than this one.
ListArrives(p, i) ==
  LET call == calls[p][i]
      now  == [j \in DOMAIN calls[p] |->
                 [calls[p][j] EXCEPT !.stale = @ \/ (j < i /\ Made(calls[p][j]))]]
  IN
  /\ call.kind = "list" /\ call.phase = "answered"
  /\ rows' = [rows EXCEPT ![p] = call.seen]
  /\ ticked' = [ticked EXCEPT ![p] = {}]
  /\ behind' = [behind EXCEPT ![p] = call.stale]
  /\ calls' = [calls EXCEPT ![p] = RemoveAt(now, i)]
  /\ UNCHANGED <<serverVars, socket, events, selectedEmailIds, touched, acts>>

\* The success callback of a deletion, a reset or a bulk action. With nothing done,
\* succeeded is null and the callback ends at its first line.
ActionSucceeds(p, i) ==
  LET call == calls[p][i] IN
  /\ call.kind \in DeleteKinds \cup BulkKinds \cup {"reset"} /\ call.phase = "answered"
  /\ IF call.kind \in BulkKinds /\ call.done = {}
       THEN /\ calls' = [calls EXCEPT ![p] = RemoveAt(@, i)]
            /\ UNCHANGED tickVars
       ELSE Refresh(p, RemoveAt(calls[p], i))
  /\ UNCHANGED <<serverVars, rows, behind, socket, events, acts>>

\* An error is logged. After one to a list request the old list stays.
Fails(p, i) ==
  LET call == calls[p][i] IN
  /\ call.phase = "failed"
  /\ Miss(IF call.kind = "list" THEN {p} ELSE {}, [calls EXCEPT ![p] = RemoveAt(@, i)])
  /\ UNCHANGED <<serverVars, tickVars, rows, socket, events, acts>>

MailShown(p, i) ==
  /\ calls[p][i].kind = "open" /\ calls[p][i].phase = "answered"
  /\ calls' = [calls EXCEPT ![p] = RemoveAt(@, i)]
  /\ UNCHANGED <<serverVars, tickVars, rows, behind, socket, events, acts>>

-----------------------------------------------------------------------------
(* A page: its user *)

Tick(p, m) ==
  /\ m \in rows[p].ids \ ticked[p]
  /\ ticked' = [ticked EXCEPT ![p] = @ \cup {m}]
  /\ selectedEmailIds' = [selectedEmailIds EXCEPT ![p] = @ \cup {m}]
  /\ touched' = [touched EXCEPT ![p] = @ \cup {m}]
  /\ UNCHANGED <<serverVars, rows, behind, socket, events, calls, acts>>

Untick(p, m) ==
  /\ m \in ticked[p]
  /\ ticked' = [ticked EXCEPT ![p] = @ \ {m}]
  /\ selectedEmailIds' = [selectedEmailIds EXCEPT ![p] = @ \ {m}]
  /\ UNCHANGED <<serverVars, rows, behind, touched, socket, events, calls, acts>>

\* The box in the head of the table, ticked or unticked.
TickAll(p, checked) ==
  LET all == IF checked THEN rows[p].ids ELSE {} IN
  /\ ticked' = [ticked EXCEPT ![p] = all]
  /\ selectedEmailIds' = [selectedEmailIds EXCEPT ![p] = all]
  /\ touched' = [touched EXCEPT ![p] = @ \cup all]
  /\ UNCHANGED <<serverVars, rows, behind, socket, events, calls, acts>>

UserDeletes(p, m) == m \in rows[p].ids /\ Send(p, "delete", {m})
UserDeletesAll(p) == Send(p, "delete-all", {})
UserResets(p)     == Send(p, "reset", {})
UserOpens(p, m)   == m \in rows[p].ids /\ Send(p, "open", {m})

\* #bulk-delete, #bulk-mark-read, #bulk-mark-unread: the ids are those of the
\* click.
UserActs(p, kind) ==
  /\ selectedEmailIds[p] # {}
  /\ Send(p, kind, selectedEmailIds[p])

\* A link or a search: navigateToList.
UserLists(p) ==
  /\ HasRoom(p) /\ Acts
  /\ Refresh(p, calls[p])
  /\ UNCHANGED <<serverVars, rows, behind, socket, events>>

-----------------------------------------------------------------------------
(* A caller that is not a page: a test, a script *)

CallerSends(c) ==
  \/ \E m \in arrived : Send(c, "delete", {m})
  \/ \E kind \in BulkKinds, m \in arrived : Send(c, kind, {m})
  \/ Send(c, "reset", {})

CallerAnswered(c, i) ==
  /\ calls[c][i].phase \in {"answered", "failed"}
  /\ calls' = [calls EXCEPT ![c] = RemoveAt(@, i)]
  /\ UNCHANGED <<serverVars, tickVars, rows, behind, socket, events, acts>>

-----------------------------------------------------------------------------
User(p) ==
  \/ \E m \in Mails : Tick(p, m) \/ Untick(p, m) \/ UserDeletes(p, m) \/ UserOpens(p, m)
  \/ \E checked \in BOOLEAN : TickAll(p, checked)
  \/ \E kind \in BulkKinds : UserActs(p, kind)
  \/ UserDeletesAll(p) \/ UserResets(p) \/ UserLists(p)

Page(p) ==
  \/ Connect(p) \/ Drop(p) \/ EventArrives(p)
  \/ \E i \in DOMAIN calls[p] :
       ListArrives(p, i) \/ ActionSucceeds(p, i) \/ Fails(p, i) \/ MailShown(p, i)

Caller(c) ==
  \/ CallerSends(c)
  \/ \E i \in DOMAIN calls[c] : CallerAnswered(c, i)

Next ==
  \/ \E m \in Mails : MailStored(m)
  \/ MailTold
  \/ \E p \in Pages : User(p) \/ Page(p)
  \/ \E c \in Clients \ Pages : Caller(c)
  \/ \E c \in Clients : \E i \in DOMAIN calls[c] : Handle(c, i)

Spec == Init /\ [][Next]_vars
=============================================================================
