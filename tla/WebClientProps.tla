---------------------------- MODULE WebClientProps ----------------------------
(* What a user may rely on when looking at the list and acting on it. *)
EXTENDS WebClient

Rows == {r \in [ids : SUBSET Mails, read : SUBSET Mails] : r.read \subseteq r.ids}

Requests ==
  [kind : Kinds, phase : {"sent", "found", "tell", "answered", "failed"},
   ids : SUBSET Mails, todo : SUBSET Mails, done : SUBSET Mails,
   seen : Rows, stale : BOOLEAN]

\* Every variable has its type. No more arrivals are to be told than there were.
TypeOK ==
  /\ stored \subseteq arrived /\ arrived \subseteq Mails /\ readEmails \subseteq Mails
  /\ untold \in 0 .. Cardinality(arrived)
  /\ socket \in [Pages -> {"open", "closed"}]
  /\ events \in [Pages -> Nat]
  /\ calls \in [Clients -> Seq(Requests)]
  /\ \A c \in Clients : Len(calls[c]) <= IF c \in Pages THEN MaxCalls ELSE 1
  /\ rows \in [Pages -> Rows]
  /\ ticked \in [Pages -> SUBSET Mails]
  /\ selectedEmailIds \in [Pages -> SUBSET Mails]
  /\ touched \in [Pages -> SUBSET Mails]
  /\ behind \in [Pages -> BOOLEAN]
  /\ acts \in 0 .. MaxActs

\* Nothing that concerns page p is under way.
Quiet(p) ==
  /\ calls[p] = <<>> /\ events[p] = 0 /\ untold = 0
  /\ \A c \in Clients : \A i \in DOMAIN calls[c] : calls[c][i].phase # "tell"

\* When everything has settled, a page shows the mails and the read marks the
\* server has, except after changes the page was never told of: an event while
\* its socket was down, a bulk action elsewhere, a mail opened, a list that could
\* not be made; or after an older list that arrived behind a newer one. The next
\* list that is made after such a change repairs it.
ListIsCurrent ==
  \A p \in Pages : Quiet(p) => rows[p] = Listing \/ behind[p]

\* A ticked box is on a row that is shown and is one the bulk actions act on,
\* and what they act on was ticked since the page last asked for the list: no
\* mail that was ticked in an earlier list is caught by a later action.
SelectionIsRecent ==
  \A p \in Pages :
    /\ ticked[p] \subseteq selectedEmailIds[p] \cap rows[p].ids
    /\ selectedEmailIds[p] \subseteq touched[p]
=============================================================================
