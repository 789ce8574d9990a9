-------------------------- MODULE WebClientSafety --------------------------
(* The list, the view and the dialog of the web client, for any mails, pages *)
(* and other callers, however many requests are under way.                   *)
EXTENDS WebClientProps, MailViewProps, SequenceTheorems, FiniteSetTheorems, TLAPS

-----------------------------------------------------------------------------
(* Requests under way: sequences to which one is added at the end and from  *)
(* which one is taken anywhere.                                             *)

Queue(s) == s \in Seq(Range(s))

LEMMA QueueOf ==
  ASSUME NEW S, NEW s \in Seq(S)
  PROVE  Queue(s)
<1>1. s \in [1 .. Len(s) -> S] /\ Len(s) \in Nat /\ DOMAIN s = 1 .. Len(s)
  BY LenProperties
<1>2. s \in [1 .. Len(s) -> Range(s)]
  BY <1>1 DEF Range
<1>3. QED
  BY <1>1, <1>2, SeqDef DEF Queue

LEMMA QueueFacts ==
  ASSUME NEW s, Queue(s)
  PROVE  /\ Len(s) \in Nat /\ DOMAIN s = 1 .. Len(s)
         /\ \A i \in DOMAIN s : s[i] \in Range(s)
         /\ (s = <<>>) <=> (Len(s) = 0)
  BY LenProperties, EmptySeq DEF Queue, Range

LEMMA Appended ==
  ASSUME NEW s, Queue(s), NEW e
  PROVE  /\ Queue(Append(s, e))
         /\ Append(s, e) # <<>>
         /\ Len(Append(s, e)) = Len(s) + 1
         /\ DOMAIN Append(s, e) = 1 .. Len(s) + 1
         /\ \A i \in 1 .. Len(s) : Append(s, e)[i] = s[i]
         /\ Append(s, e)[Len(s) + 1] = e
<1> DEFINE S == Range(s) \cup {e}
<1>1. s \in Seq(S)
  BY SeqMonotonic DEF Queue
<1>2. e \in S
  OBVIOUS
<1> HIDE DEF S
<1>3. /\ Append(s, e) \in Seq(S) /\ Append(s, e) # <<>>
      /\ Len(Append(s, e)) = Len(s) + 1
      /\ \A i \in 1 .. Len(s) : Append(s, e)[i] = s[i]
      /\ Append(s, e)[Len(s) + 1] = e
  BY <1>1, <1>2, AppendProperties
<1>4. Queue(Append(s, e)) /\ DOMAIN Append(s, e) = 1 .. Len(Append(s, e))
  BY <1>3, QueueOf, LenProperties
<1>5. QED
  BY <1>3, <1>4

\* Where an element of the shortened sequence was.
Before(i, j) == IF j < i THEN j ELSE j + 1

LEMMA Removed ==
  ASSUME NEW s, Queue(s), NEW i \in DOMAIN s
  PROVE  /\ Queue(RemoveAt(s, i))
         /\ Len(RemoveAt(s, i)) = Len(s) - 1
         /\ DOMAIN RemoveAt(s, i) = 1 .. Len(s) - 1
         /\ \A j \in 1 .. Len(s) - 1 :
              /\ Before(i, j) \in DOMAIN s /\ Before(i, j) # i
              /\ RemoveAt(s, i)[j] = s[Before(i, j)]
<1> DEFINE S == Range(s)
           head == SubSeq(s, 1, i - 1)
           tail == SubSeq(s, i + 1, Len(s))
<1>1. /\ Len(s) \in Nat /\ DOMAIN s = 1 .. Len(s) /\ i \in 1 .. Len(s)
      /\ \A k \in 1 .. Len(s) : s[k] \in S
  BY QueueFacts
<1> HIDE DEF S
<1>2. /\ head \in Seq(S) /\ Len(head) = i - 1
      /\ \A k \in 1 .. i - 1 : head[k] = s[k]
  <2>1. 1 \in Int /\ i - 1 \in Int /\ \A k \in 1 .. i - 1 : s[k] \in S
    BY <1>1
  <2>2. QED
    BY <1>1, <2>1, SubSeqProperties
<1>3. /\ tail \in Seq(S) /\ Len(tail) = Len(s) - i
      /\ \A k \in 1 .. Len(s) - i : tail[k] = s[i + k]
  <2>1. i + 1 \in Int /\ Len(s) \in Int /\ \A k \in i + 1 .. Len(s) : s[k] \in S
    BY <1>1
  <2>2. QED
    BY <1>1, <2>1, SubSeqProperties
<1> HIDE DEF head, tail
<1>4. /\ head \o tail \in Seq(S) /\ Len(head \o tail) = Len(s) - 1
      /\ \A k \in 1 .. Len(s) - 1 :
           (head \o tail)[k] = IF k <= i - 1 THEN head[k] ELSE tail[k - (i - 1)]
  <2>1. /\ head \o tail \in Seq(S) /\ Len(head \o tail) = Len(head) + Len(tail)
        /\ \A k \in 1 .. Len(head) + Len(tail) :
             (head \o tail)[k] = IF k <= Len(head) THEN head[k] ELSE tail[k - Len(head)]
    BY <1>2, <1>3, ConcatProperties
  <2>2. Len(head) + Len(tail) = Len(s) - 1
    BY <1>1, <1>2, <1>3
  <2>3. QED
    BY <1>2, <2>1, <2>2
<1>5. RemoveAt(s, i) = head \o tail
  BY DEF RemoveAt, head, tail
<1>6. Queue(RemoveAt(s, i)) /\ DOMAIN RemoveAt(s, i) = 1 .. Len(s) - 1
  BY <1>4, <1>5, QueueOf, LenProperties
<1>7. ASSUME NEW j \in 1 .. Len(s) - 1
      PROVE  /\ Before(i, j) \in DOMAIN s /\ Before(i, j) # i
             /\ (head \o tail)[j] = s[Before(i, j)]
  <2>1. CASE j < i
    <3>1. j \in 1 .. i - 1 /\ j <= i - 1
      BY <1>1, <2>1
    <3>2. QED
      BY <1>1, <1>2, <1>4, <2>1, <3>1 DEF Before
  <2>2. CASE ~(j < i)
    <3>1. /\ ~(j <= i - 1) /\ j - (i - 1) \in 1 .. Len(s) - i
          /\ i + (j - (i - 1)) = j + 1 /\ j + 1 \in 1 .. Len(s) /\ j + 1 # i
      BY <1>1, <2>2
    <3>2. (head \o tail)[j] = tail[j - (i - 1)]
      BY <1>4, <3>1
    <3>3. tail[j - (i - 1)] = s[j + 1]
      BY <1>3, <3>1
    <3>4. QED
      BY <1>1, <2>2, <3>1, <3>2, <3>3 DEF Before
  <2>3. QED
    BY <2>1, <2>2
<1>8. QED
  BY <1>4, <1>5, <1>6, <1>7

-----------------------------------------------------------------------------
(* The selection of a page. The invariant: the property, and that there is a list, its ticks and its *)
(* selection for every page. What is in them needs no type.                 *)

TickInv ==
  /\ DOMAIN rows = Pages /\ DOMAIN ticked = Pages
  /\ DOMAIN selectedEmailIds = Pages /\ DOMAIN touched = Pages
  /\ SelectionIsRecent

-----------------------------------------------------------------------------
(* The steps, by what they do to the selection of a page *)

\* refreshEmailList empties it, and the list may be replaced.
Clears(p) ==
  /\ ticked' = [ticked EXCEPT ![p] = {}]
  /\ \/ /\ selectedEmailIds' = [selectedEmailIds EXCEPT ![p] = {}]
        /\ touched' = [touched EXCEPT ![p] = {}]
        /\ UNCHANGED rows
     \/ /\ \E list : rows' = [rows EXCEPT ![p] = list]
        /\ UNCHANGED <<selectedEmailIds, touched>>

Touches(p) ==
  (\E m \in Mails : Tick(p, m) \/ Untick(p, m)) \/ (\E checked \in BOOLEAN : TickAll(p, checked))

Elsewhere == UNCHANGED <<tickVars, rows>>

\* The user's other clicks send a request, or ask for the list.
LEMMA UserSteps ==
  ASSUME NEW p \in Pages, User(p)
  PROVE  Touches(p) \/ Clears(p) \/ Elsewhere
<1>1. ASSUME NEW m \in Mails, UserDeletes(p, m) \/ UserOpens(p, m)
      PROVE  Elsewhere
  BY <1>1 DEF UserDeletes, UserOpens, Send, Elsewhere
<1>2. ASSUME NEW kind \in BulkKinds, UserActs(p, kind)
      PROVE  Elsewhere
  BY <1>2 DEF UserActs, Send, Elsewhere
<1>3. UserDeletesAll(p) \/ UserResets(p) => Elsewhere
  BY DEF UserDeletesAll, UserResets, Send, Elsewhere
<1>4. UserLists(p) => Clears(p)
  BY DEF UserLists, Refresh, Clears
<1> QED BY <1>1, <1>2, <1>3, <1>4 DEF User, Touches

\* Events and answers clear the selection or the ticks, or leave both alone.
LEMMA PageSteps ==
  ASSUME NEW p \in Pages, Page(p)
  PROVE  Clears(p) \/ Elsewhere
<1>1. Connect(p) \/ Drop(p) => Elsewhere
  BY DEF Connect, Drop, Elsewhere
<1>2. EventArrives(p) => Clears(p)
  BY DEF EventArrives, Refresh, Clears
<1>3. ASSUME NEW i \in DOMAIN calls[p], ListArrives(p, i)
      PROVE  Clears(p)
  BY <1>3 DEF ListArrives, Clears
<1>4. ASSUME NEW i \in DOMAIN calls[p], ActionSucceeds(p, i)
      PROVE  Clears(p) \/ Elsewhere
  BY <1>4 DEF ActionSucceeds, Refresh, Clears, Elsewhere
<1>5. ASSUME NEW i \in DOMAIN calls[p], Fails(p, i) \/ MailShown(p, i)
      PROVE  Elsewhere
  BY <1>5 DEF Fails, MailShown, Elsewhere
<1> QED BY <1>1, <1>2, <1>3, <1>4, <1>5 DEF Page

\* Nothing that happens on the server touches a page.
LEMMA HandlerSteps ==
  ASSUME NEW c, NEW i, Handle(c, i)
  PROVE  Elsewhere
<1>1. HandleSearch(c, i) \/ HandleMarks(c, i) \/ HandleOpen(c, i) \/ BulkDone(c, i) => Elsewhere
  BY DEF HandleSearch, HandleMarks, HandleOpen, BulkDone, Elsewhere
<1>2. HandleDelete(c, i) \/ HandleReset(c, i) => Elsewhere
  BY DEF HandleDelete, HandleReset, Elsewhere
<1>3. ASSUME NEW m \in Mails, HandleBulkDelete(c, i, m) \/ HandleBulkMark(c, i, m)
      PROVE  Elsewhere
  BY <1>3 DEF HandleBulkDelete, HandleBulkMark, Elsewhere
<1> QED BY <1>1, <1>2, <1>3 DEF Handle

LEMMA OtherSteps ==
  /\ \A m \in Mails : MailStored(m) => Elsewhere
  /\ MailTold => Elsewhere
  /\ \A c \in Clients : Caller(c) => Elsewhere
<1>1. \A m \in Mails : MailStored(m) => Elsewhere
  BY DEF MailStored, Elsewhere
<1>2. MailTold => Elsewhere
  BY DEF MailTold, Elsewhere
<1>3. ASSUME NEW c \in Clients, Caller(c)
      PROVE  Elsewhere
  BY <1>3 DEF Caller, CallerSends, CallerAnswered, Send, Elsewhere
<1> QED BY <1>1, <1>2, <1>3

\* Each kind of step keeps the invariant.
LEMMA TicksKeep ==
  ASSUME TickInv, NEW p \in Pages, Touches(p) \/ Clears(p)
  PROVE  TickInv'
<1> USE DEF TickInv, SelectionIsRecent
<1>1. ASSUME NEW m \in Mails, Tick(p, m) PROVE TickInv'
  BY <1>1 DEF Tick
<1>2. ASSUME NEW m \in Mails, Untick(p, m) PROVE TickInv'
  BY <1>2 DEF Untick
<1>3. ASSUME NEW checked \in BOOLEAN, TickAll(p, checked) PROVE TickInv'
  BY <1>3 DEF TickAll
<1>4. CASE Clears(p)  BY <1>4 DEF Clears
<1> QED BY <1>1, <1>2, <1>3, <1>4 DEF Touches

LEMMA TickInvNext == TickInv /\ [Next]_vars => TickInv'
<1> SUFFICES ASSUME TickInv, [Next]_vars PROVE TickInv'
  OBVIOUS
<1>1. Elsewhere => TickInv'
  BY DEF Elsewhere, tickVars, TickInv, SelectionIsRecent
<1>2. UNCHANGED vars => Elsewhere
  BY DEF vars, Elsewhere
<1>3. ASSUME NEW p \in Pages, User(p) \/ Page(p) PROVE TickInv'
  BY <1>1, <1>3, UserSteps, PageSteps, TicksKeep
<1>4. ASSUME NEW c \in Clients, NEW i \in DOMAIN calls[c], Handle(c, i) PROVE TickInv'
  BY <1>1, <1>4, HandlerSteps
<1> QED BY <1>1, <1>2, <1>3, <1>4, OtherSteps DEF Next

-----------------------------------------------------------------------------
\* What the bulk actions act on was ticked since the page last asked for the
\* list, and a ticked box is on a row that is shown, whatever lists, events and
\* answers come between the clicks.
THEOREM SelectionIsRecentHolds == Spec => []SelectionIsRecent
<1>1. Init => TickInv
  BY DEF Init, TickInv, SelectionIsRecent
<1>2. TickInv => SelectionIsRecent
  BY DEF TickInv
<1> QED BY <1>1, <1>2, TickInvNext, PTL DEF Spec

-----------------------------------------------------------------------------
(* The dialog. The invariant says what it shows and what its button would   *)
(* send: a dialog for one mail names the mail whose addresses it offers; one *)
(* for many counts what was selected, which only a refresh of the list can   *)
(* take away while the dialog is open.                                       *)

DialogInv ==
  /\ dialog \in [open : BOOLEAN, emailId : {dialog.emailId}, bulk : BOOLEAN,
                 addresses : {dialog.addresses}, counted : {dialog.counted}]
  /\ ~dialog.bulk => dialog.addresses = dialog.emailId
  /\ dialog.bulk => dialog.emailId = Len(dialog.counted)
  /\ dialog.bulk /\ dialog.open => selection \in {<<>>, dialog.counted}

\* A request that was sent says what the dialog showed.
Exact(call) ==
  /\ call.kind = "relay" =>
       call.ids = <<call.shown.emailId>> /\ call.addresses = call.shown.emailId
  /\ call.kind = "bulk-relay" =>
       /\ call.shown.emailId = Len(call.shown.counted)
       /\ call.ids \in {<<>>, call.shown.counted}

ReleaseInv ==
  /\ DialogInv
  /\ Queue(releases)
  /\ \A i \in DOMAIN releases : Exact(releases[i])

LEMMA ReleaseInitially == ReleaseInit => ReleaseInv
<1> SUFFICES ASSUME ReleaseInit PROVE ReleaseInv
  OBVIOUS
<1>1. DialogInv
  BY DEF ReleaseInit, DialogInv, NoDialog
<1>2. Queue(releases) /\ DOMAIN releases = {}
  BY EmptySeq DEF ReleaseInit, Queue
<1>3. QED
  BY <1>1, <1>2 DEF ReleaseInv

\* A request that is sent is exact if the dialog is as the invariant says.
LEMMA SentExact ==
  ASSUME ReleaseInv, NEW kind, NEW ids, NEW m, NEW shown,
         SendRelease(kind, ids, m, shown), Exact(Release(kind, ids, m, shown))
  PROVE  Queue(releases)' /\ \A i \in DOMAIN releases' : Exact(releases'[i])
<1> DEFINE new == Release(kind, ids, m, shown)
<1>1. Queue(releases) /\ releases' = Append(releases, new) /\ Exact(new)
  BY DEF ReleaseInv, SendRelease
<1> HIDE DEF new
<1>2. /\ Queue(releases') /\ DOMAIN releases' = 1 .. Len(releases) + 1
      /\ \A i \in 1 .. Len(releases) : releases'[i] = releases[i]
      /\ releases'[Len(releases) + 1] = new
  BY <1>1, Appended
<1>3. Len(releases) \in Nat /\ DOMAIN releases = 1 .. Len(releases)
  BY <1>1, QueueFacts
<1>4. ASSUME NEW i \in DOMAIN releases'
      PROVE  i \in DOMAIN releases \/ i = Len(releases) + 1
  BY <1>2, <1>3
<1>5. QED
  BY <1>1, <1>2, <1>3, <1>4 DEF ReleaseInv

LEMMA OverExact ==
  ASSUME ReleaseInv, NEW i \in DOMAIN releases, Over(i)
  PROVE  Queue(releases)' /\ \A j \in DOMAIN releases' : Exact(releases'[j])
<1>1. Queue(releases) /\ releases' = RemoveAt(releases, i)
  BY DEF ReleaseInv, Over
<1>2. /\ Queue(releases') /\ DOMAIN releases' = 1 .. Len(releases) - 1
      /\ \A j \in 1 .. Len(releases) - 1 :
           Before(i, j) \in DOMAIN releases /\ releases'[j] = releases[Before(i, j)]
  BY <1>1, Removed
<1>3. QED
  BY <1>2 DEF ReleaseInv

\* The clicks in the list and the requests that open the dialog.
LEMMA ListKeepsRelease ==
  ASSUME ReleaseInv,
         \/ \E m \in ReleaseMails : TickRow(m) \/ OpenForOne(m)
         \/ ListRefreshes \/ OpenForSelection
  PROVE  ReleaseInv'
<1>1. ASSUME NEW m \in ReleaseMails, TickRow(m) PROVE ReleaseInv'
  BY <1>1 DEF TickRow, ReleaseInv, DialogInv
<1>2. ASSUME NEW m \in ReleaseMails, OpenForOne(m) PROVE ReleaseInv'
  <2>1. Exact(Release("one", <<m>>, m, NoDialog))
    BY DEF Exact, Release
  <2>2. QED
    BY <1>2, <2>1, SentExact DEF OpenForOne, ReleaseInv, DialogInv
<1>3. CASE ListRefreshes
  BY <1>3 DEF ListRefreshes, ReleaseInv, DialogInv
<1>4. CASE OpenForSelection
  <2>1. Exact(Release("selection", selection, Head(selection), NoDialog))
    BY DEF Exact, Release
  <2>2. QED
    BY <1>4, <2>1, SentExact DEF OpenForSelection, ReleaseInv, DialogInv
<1>5. QED
  BY <1>1, <1>2, <1>3, <1>4

\* An answer fills the dialog, closes it, or leaves it as it is.
LEMMA AnswersKeepRelease ==
  ASSUME ReleaseInv, NEW i \in DOMAIN releases,
         OneArrives(i) \/ SelectionArrives(i) \/ Relayed(i) \/ ReleaseFails(i)
  PROVE  ReleaseInv'
<1>1. Over(i)
  BY DEF OneArrives, SelectionArrives, Relayed, ReleaseFails
<1>2. DialogInv'
  <2>1. CASE OneArrives(i)
    BY <2>1 DEF OneArrives, DialogInv, Dialog
  <2>2. CASE SelectionArrives(i)
    BY <2>2 DEF SelectionArrives, DialogInv, Dialog
  <2>3. CASE Relayed(i) /\ dialog' = [dialog EXCEPT !.open = FALSE]
    BY <2>3 DEF ReleaseInv, DialogInv
  <2>4. CASE UNCHANGED <<selection, dialog>>
    BY <2>4 DEF ReleaseInv, DialogInv
  <2>5. QED
    BY <2>1, <2>2, <2>3, <2>4 DEF Relayed, ReleaseFails
<1>3. QED
  BY <1>1, <1>2, OverExact DEF ReleaseInv

\* The button sends what the dialog shows.
LEMMA ButtonKeepsRelease ==
  ASSUME ReleaseInv, ReleaseOne \/ ReleaseSelection \/ CloseDialog
  PROVE  ReleaseInv'
<1>1. CASE ReleaseOne
  <2>1. Exact(Release("relay", <<dialog.emailId>>, dialog.addresses, dialog))
    BY <1>1 DEF ReleaseOne, ReleaseInv, DialogInv, Exact, Release
  <2>2. QED
    BY <1>1, <2>1, SentExact DEF ReleaseOne, ReleaseInv, DialogInv
<1>2. CASE ReleaseSelection
  <2>1. Exact(Release("bulk-relay", selection, dialog.addresses, dialog))
    BY <1>2 DEF ReleaseSelection, ReleaseInv, DialogInv, Exact, Release
  <2>2. QED
    BY <1>2, <2>1, SentExact DEF ReleaseSelection, ReleaseInv, DialogInv
<1>3. CASE CloseDialog
  BY <1>3 DEF CloseDialog, ReleaseInv, DialogInv
<1>4. QED
  BY <1>1, <1>2, <1>3

LEMMA ReleaseInvNext == ReleaseInv /\ [ReleaseNext]_releaseVars => ReleaseInv'
<1>1. ReleaseInv /\ UNCHANGED releaseVars => ReleaseInv'
  BY DEF releaseVars, ReleaseInv, DialogInv
<1>2. QED
  BY <1>1, ListKeepsRelease, AnswersKeepRelease, ButtonKeepsRelease DEF ReleaseNext

\* What the button of the release dialog sends is what the dialog shows, for any
\* number of mails and requests: no order of answers, refreshes and clicks makes
\* a dialog for one mail release a selection, or another mail.
THEOREM ReleasesWhatIsShownHolds == ReleaseSpec => []ReleasesWhatIsShown
<1>1. ReleaseInv => ReleasesWhatIsShown
  BY DEF ReleaseInv, ReleasesWhatIsShown, Exact
<1> QED BY <1>1, ReleaseInitially, ReleaseInvNext, PTL DEF ReleaseSpec

-----------------------------------------------------------------------------
(* The view. The invariant follows an answer from the request on: one that   *)
(* is not old is for the mail in the header and, if it is a panel, for the   *)
(* tab that is active; what is on the screen is of the last answer.          *)

Latest == {"attachments", "panel"}

\* A request of one of these kinds that none was sent after, with mail m shown and
\* a tab active.
Current(call, m, tab, kinds) ==
  ~call.old /\ call.kind \in kinds =>
    call.mail = m /\ (call.kind = "panel" => call.tab = tab)

Asked(queue, m, tab, kinds) ==
  /\ Queue(queue)
  /\ \A i \in DOMAIN queue :
       /\ queue[i] \in [kind : {queue[i].kind}, mail : {queue[i].mail},
                        tab : {queue[i].tab}, old : BOOLEAN]
       /\ Current(queue[i], m, tab, kinds)

LinksInv ==
  told.attachments # <<>> =>
    LET answer == Last(told.attachments) IN
    /\ links = answer.mail
    /\ ~answer.old => answer.mail = header

PanelInv ==
  told.panel # <<>> =>
    LET answer == Last(told.panel) IN
    /\ panels[PanelOf(answer.tab)] = [mail |-> answer.mail, tab |-> answer.tab]
    /\ PanelOf(answer.tab) = "content" => visible = {"content"}
    /\ ~answer.old => answer.mail = header /\ answer.tab = active

\* The click of a tab that is not a body's hides the others; none comes back
\* before a second answer.
VisibleInv ==
  PanelOf(active) # "content" =>
    /\ told.panel = <<>> => visible \subseteq {PanelOf(active)}
    /\ Len(told.panel) = 1 /\ ~Last(told.panel).old => visible = {PanelOf(active)}

ShownInv ==
  /\ told \in [attachments : {told.attachments}, panel : {told.panel}]
  /\ Queue(told.attachments) /\ Queue(told.panel)
  /\ DOMAIN panels = Panels /\ visible \subseteq Panels
  /\ LinksInv /\ PanelInv /\ VisibleInv

ViewInv ==
  /\ currentEmailId \in {header, NoMail}
  /\ Asked(viewCalls, header, active, Latest)
  /\ ShownInv

-----------------------------------------------------------------------------
(* What becomes of the requests *)

\* A new request is current, and what it outdates needs not be.
LEMMA AskedOneMore ==
  ASSUME NEW rest, NEW m, NEW tab, NEW kinds, Asked(rest, m, tab, kinds),
         NEW kind, NEW mail, NEW t, NEW now, now \subseteq kinds \cup {kind},
         Current(Call(kind, mail, t), m, tab, now)
  PROVE  Asked(AskedBehind(rest, Call(kind, mail, t)), m, tab, now)
<1> DEFINE new == Call(kind, mail, t)
           older == [i \in DOMAIN rest |-> [rest[i] EXCEPT !.old = @ \/ rest[i].kind = new.kind]]
           more == Append(older, new)
<1>1. Queue(rest) /\ Len(rest) \in Nat /\ DOMAIN rest = 1 .. Len(rest)
  BY QueueFacts DEF Asked
<1>2. Queue(older) /\ DOMAIN older = DOMAIN rest /\ Len(older) = Len(rest)
  <2>1. older \in [1 .. Len(rest) -> Range(older)]
    BY <1>1 DEF Range
  <2> HIDE DEF older
  <2>2. older \in Seq(Range(older))
    BY <1>1, <2>1, SeqDef
  <2>3. QED
    BY <1>1, <2>1, <2>2, LenProperties DEF Queue
<1>3. /\ new \in [kind : {new.kind}, mail : {new.mail}, tab : {new.tab}, old : BOOLEAN]
      /\ new.kind = kind /\ Current(new, m, tab, now)
  BY DEF Call, Current
<1>4. ASSUME NEW i \in DOMAIN rest
      PROVE  /\ older[i] \in [kind : {older[i].kind}, mail : {older[i].mail},
                              tab : {older[i].tab}, old : BOOLEAN]
             /\ Current(older[i], m, tab, now)
  BY <1>3, <1>4 DEF Asked, Current
<1> HIDE DEF new, older
<1>5. /\ Queue(more) /\ DOMAIN more = 1 .. Len(rest) + 1
      /\ \A i \in 1 .. Len(rest) : more[i] = older[i]
      /\ more[Len(rest) + 1] = new
  BY <1>2, Appended
<1> HIDE DEF more
<1>6. ASSUME NEW i \in DOMAIN more
      PROVE  more[i] = new \/ (i \in DOMAIN rest /\ more[i] = older[i])
  BY <1>1, <1>5
<1>7. Asked(more, m, tab, now)
  BY <1>3, <1>4, <1>5, <1>6 DEF Asked
<1>8. AskedBehind(rest, Call(kind, mail, t)) = more
  BY DEF AskedBehind, more, older, new
<1>9. QED
  BY <1>7, <1>8

\* What is left of the requests when one of them is answered.
LEMMA AskedOneLess ==
  ASSUME NEW m, NEW tab, NEW kinds, Asked(viewCalls, m, tab, kinds),
         NEW i \in DOMAIN viewCalls
  PROVE  Asked(Others(i), m, tab, kinds)
<1>1. /\ Queue(Others(i)) /\ DOMAIN Others(i) = 1 .. Len(viewCalls) - 1
      /\ \A j \in 1 .. Len(viewCalls) - 1 :
           Before(i, j) \in DOMAIN viewCalls /\ Others(i)[j] = viewCalls[Before(i, j)]
  BY Removed DEF Asked, Others
<1>2. QED
  BY <1>1 DEF Asked

LEMMA AskedFewer ==
  ASSUME NEW queue, NEW m, NEW tab, NEW kinds, Asked(queue, m, tab, kinds),
         NEW fewer, fewer \subseteq kinds
  PROVE  Asked(queue, m, tab, fewer)
BY DEF Asked, Current

\* Nothing is said of a kind nobody asks about, nor of the tab without panels.
LEMMA AskedElse ==
  ASSUME NEW queue, NEW m, NEW tab, NEW kinds, Asked(queue, m, tab, kinds)
  PROVE  /\ \A mail, t : Asked(queue, mail, t, {})
         /\ "panel" \notin kinds => \A t : Asked(queue, m, t, kinds)
BY DEF Asked, Current

LEMMA ViewInitially == ViewInit => ViewInv
<1> SUFFICES ASSUME ViewInit PROVE ViewInv
  OBVIOUS
<1>1. Queue(<<>>) /\ DOMAIN <<>> = {}
  BY EmptySeq DEF Queue
<1>2. Asked(viewCalls, header, active, Latest)
  BY <1>1 DEF ViewInit, Asked
<1>3. ShownInv
  BY <1>1 DEF ViewInit, ShownInv, LinksInv, PanelInv, VisibleInv, PanelOf, Panels
<1>4. QED
  BY <1>2, <1>3 DEF ViewInit, ViewInv

-----------------------------------------------------------------------------
(* The steps *)

\* A mail is shown: its attachments and the best of its bodies are asked for.
LEMMA UpdateKeepsView ==
  ASSUME ViewInv, NEW m, NEW rest, Asked(rest, header, active, Latest),
         UpdateEmailContent(m, rest)
  PROVE  ViewInv'
<1> DEFINE best == PickBest(BodyVersions[m])
           first == AskedBehind(rest, Call("attachments", m, "none"))
<1>1. Asked(rest, m, best, {})
  BY AskedElse
<1>2. Asked(first, m, best, {"attachments"})
  <2>1. Current(Call("attachments", m, "none"), m, best, {"attachments"})
    BY DEF Current, Call
  <2>2. QED
    BY <1>1, <2>1, AskedOneMore
<1>3. Asked(viewCalls', m, best, Latest)
  <2>1. Current(Call("panel", m, best), m, best, Latest)
    BY DEF Current, Call
  <2>2. Latest \subseteq {"attachments"} \cup {"panel"}
    BY DEF Latest
  <2> HIDE DEF first
  <2>3. Asked(AskedBehind(first, Call("panel", m, best)), m, best, Latest)
    BY <1>2, <2>1, <2>2, AskedOneMore
  <2>4. viewCalls' = AskedBehind(first, Call("panel", m, best))
    BY DEF UpdateEmailContent, first
  <2>5. QED
    BY <2>3, <2>4
<1>4. Queue(<<>>) /\ Len(<<>>) = 0
  BY EmptySeq DEF Queue
<1>5. PanelOf(best) = "content"
  BY DEF PickBest, PanelOf, Panels
<1>6. currentEmailId' = m /\ header' = m /\ active' = best
  BY DEF UpdateEmailContent
<1> HIDE DEF best
<1>7. ShownInv'
  BY <1>4, <1>5, <1>6 DEF UpdateEmailContent, ViewInv, ShownInv, LinksInv, PanelInv, VisibleInv
<1>8. QED
  BY <1>3, <1>6, <1>7 DEF ViewInv

\* The click of a tab asks for its panel and hides the others.
LEMMA TabKeepsView ==
  ASSUME ViewInv, NEW tab, ClickTab(tab), UNCHANGED currentEmailId
  PROVE  ViewInv'
<1>1. Asked(viewCalls, header, tab, {"attachments"})
  <2>1. Asked(viewCalls, header, active, {"attachments"})
    BY AskedFewer DEF ViewInv, Latest
  <2>2. QED
    BY <2>1, AskedElse
<1>2. Asked(viewCalls', header, tab, Latest)
  <2>1. Current(Call("panel", header, tab), header, tab, Latest)
    BY DEF Current, Call
  <2>2. Latest \subseteq {"attachments"} \cup {"panel"}
    BY DEF Latest
  <2>3. Asked(AskedBehind(viewCalls, Call("panel", header, tab)), header, tab, Latest)
    BY <1>1, <2>1, <2>2, AskedOneMore
  <2>4. QED
    BY <2>3 DEF ClickTab
<1>3. Queue(<<>>) /\ Len(<<>>) = 0
  BY EmptySeq DEF Queue
<1>4. /\ header' = header /\ active' = tab
      /\ told' = [told EXCEPT !.panel = <<>>] /\ UNCHANGED <<links, panels>>
  BY DEF ClickTab
<1>5. /\ told'.panel = <<>> /\ told'.attachments = told.attachments
      /\ told' \in [attachments : {told'.attachments}, panel : {told'.panel}]
  BY <1>4 DEF ViewInv, ShownInv
<1>6. VisibleInv'
  <2> SUFFICES ASSUME PanelOf(tab) # "content"
               PROVE  visible' \subseteq {PanelOf(tab)}
    BY <1>3, <1>4, <1>5 DEF VisibleInv
  <2>1. tab \in {"headers", "mime-tree"} /\ PanelOf(tab) = tab
    BY DEF PanelOf, Panels
  <2>2. visible' = visible \ HiddenFor(tab)
    BY DEF ClickTab
  <2>3. QED
    BY <2>1, <2>2 DEF ViewInv, ShownInv, Panels, HiddenFor
<1>7. visible' \subseteq Panels
  BY DEF ClickTab, ViewInv, ShownInv, Panels
<1>8. ShownInv'
  BY <1>3, <1>4, <1>5, <1>6, <1>7 DEF ViewInv, ShownInv, LinksInv, PanelInv
<1>9. QED
  BY <1>2, <1>4, <1>8 DEF ViewInv

\* Any other request leaves what is shown alone.
LEMMA SentKeepsView ==
  ASSUME ViewInv, NEW kind \in {"mail", "delete"}, NEW m, NEW tab, UNCHANGED partVars,
         viewCalls' = AskedBehind(viewCalls, Call(kind, m, tab)),
         currentEmailId' \in {currentEmailId, NoMail}
  PROVE  ViewInv'
<1>1. Current(Call(kind, m, tab), header, active, Latest)
  BY DEF Current, Call, Latest
<1>2. Asked(viewCalls, header, active, Latest) /\ Latest \subseteq Latest \cup {kind}
  BY DEF ViewInv
<1>3. Asked(viewCalls', header, active, Latest)
  BY <1>1, <1>2, AskedOneMore
<1>4. QED
  BY <1>3 DEF partVars, ViewInv, ShownInv, LinksInv, PanelInv, VisibleInv

LEMMA ClicksKeepView ==
  ASSUME ViewInv,
         \/ \E m \in ViewedMails :
              \/ OpenRow(m) \/ DeleteRow(m)
              \/ \E tab \in RoutedTabs : Route(m, tab)
         \/ \E tab \in Tabs(header) : UserClicksTab(tab)
         \/ BackToList \/ DeleteViewed
  PROVE  ViewInv'
<1>1. ASSUME NEW m \in ViewedMails, OpenRow(m) PROVE ViewInv'
  BY <1>1, UpdateKeepsView DEF OpenRow, ViewInv
<1>2. ASSUME NEW m \in ViewedMails, DeleteRow(m) PROVE ViewInv'
  BY <1>2, SentKeepsView DEF DeleteRow
<1>3. ASSUME NEW m \in ViewedMails, NEW tab \in RoutedTabs, Route(m, tab) PROVE ViewInv'
  BY <1>3, SentKeepsView DEF Route
<1>4. ASSUME NEW tab \in Tabs(header), UserClicksTab(tab) PROVE ViewInv'
  BY <1>4, TabKeepsView DEF UserClicksTab
<1>5. CASE BackToList
  BY <1>5 DEF BackToList, partVars, ViewInv, ShownInv, LinksInv, PanelInv, VisibleInv
<1>6. CASE DeleteViewed
  BY <1>6, SentKeepsView DEF DeleteViewed
<1>7. QED
  BY <1>1, <1>2, <1>3, <1>4, <1>5, <1>6

\* What comes last is on the screen; if no other request of its kind was sent
\* since, it is of the mail in the header and of the tab that is active.
LEMMA AnswersKeepView ==
  ASSUME ViewInv, NEW i \in DOMAIN viewCalls,
         \/ MailArrives(i) \/ AttachmentsArrive(i) \/ PanelArrives(i)
         \/ Deleted(i) \/ CallFails(i)
  PROVE  ViewInv'
<1> DEFINE call == viewCalls[i]
<1>1. Asked(Others(i), header, active, Latest)
  BY AskedOneLess DEF ViewInv
<1>2. CASE MailArrives(i)
  BY <1>1, <1>2, UpdateKeepsView DEF MailArrives
<1>3. CASE AttachmentsArrive(i)
  <2>1. /\ Queue(Append(told.attachments, call))
        /\ Last(Append(told.attachments, call)) = call
    BY Appended DEF ViewInv, ShownInv, Last
  <2>2. told' = [told EXCEPT !.attachments = Append(told.attachments, call)]
    BY <1>3 DEF AttachmentsArrive
  <2>3. /\ told'.attachments = Append(told.attachments, call) /\ told'.panel = told.panel
        /\ told' \in [attachments : {told'.attachments}, panel : {told'.panel}]
    BY <2>2 DEF ViewInv, ShownInv
  <2>4. links' = call.mail /\ (~call.old => call.mail = header)
    BY <1>3 DEF AttachmentsArrive, ViewInv, Asked, Current, Latest
  <2>5. UNCHANGED <<currentEmailId, header, active, panels, visible>> /\ viewCalls' = Others(i)
    BY <1>3 DEF AttachmentsArrive
  <2>6. ShownInv'
    BY <2>1, <2>3, <2>4, <2>5 DEF ViewInv, ShownInv, LinksInv, PanelInv, VisibleInv
  <2>7. QED
    BY <1>1, <2>5, <2>6 DEF ViewInv
<1>4. CASE PanelArrives(i)
  <2> DEFINE p == PanelOf(call.tab)
  <2>1. /\ Queue(Append(told.panel, call)) /\ Last(Append(told.panel, call)) = call
        /\ Len(Append(told.panel, call)) = 1 => told.panel = <<>>
    BY Appended, QueueFacts DEF ViewInv, ShownInv, Last
  <2>2. told' = [told EXCEPT !.panel = Append(told.panel, call)]
    BY <1>4 DEF PanelArrives
  <2>3. /\ told'.panel = Append(told.panel, call) /\ told'.attachments = told.attachments
        /\ told' \in [attachments : {told'.attachments}, panel : {told'.panel}]
    BY <2>2 DEF ViewInv, ShownInv
  <2>4. ~call.old => call.mail = header /\ call.tab = active
    BY <1>4 DEF PanelArrives, ViewInv, Asked, Current, Latest
  <2>5. /\ UNCHANGED <<currentEmailId, header, active, links>> /\ viewCalls' = Others(i)
        /\ visible' = IF p = "content" THEN {p} ELSE visible \cup {p}
        /\ panels' = [panels EXCEPT ![p] = [mail |-> call.mail, tab |-> call.tab]]
    BY <1>4 DEF PanelArrives
  <2>6. p \in Panels
    BY DEF PanelOf, Panels
  <2>7. /\ DOMAIN panels' = Panels /\ visible' \subseteq Panels
        /\ panels'[p] = [mail |-> call.mail, tab |-> call.tab]
    BY <2>5, <2>6 DEF ViewInv, ShownInv
  <2>8. VisibleInv'
    BY <2>1, <2>3, <2>4, <2>5, Appended DEF ViewInv, ShownInv, VisibleInv
  <2>9. ShownInv'
    BY <2>1, <2>3, <2>4, <2>5, <2>7, <2>8 DEF ViewInv, ShownInv, LinksInv, PanelInv
  <2>10. QED
    BY <1>1, <2>5, <2>9 DEF ViewInv
<1>5. CASE Deleted(i) \/ CallFails(i)
  BY <1>1, <1>5 DEF Deleted, CallFails, partVars, ViewInv, ShownInv, LinksInv, PanelInv,
     VisibleInv
<1>6. QED
  BY <1>2, <1>3, <1>4, <1>5

LEMMA TimersKeepView ==
  ASSUME ViewInv, NEW tab \in timers, TimerFires(tab)
  PROVE  ViewInv'
<1>1. CASE ClickTab(tab)
  BY <1>1, TabKeepsView DEF TimerFires
<1>2. CASE UNCHANGED <<partVars, viewCalls>>
  BY <1>2 DEF TimerFires, partVars, ViewInv, ShownInv, LinksInv, PanelInv, VisibleInv
<1>3. QED
  BY <1>1, <1>2 DEF TimerFires

LEMMA ViewInvNext == ViewInv /\ [ViewNext]_viewVars => ViewInv'
<1>1. ViewInv /\ UNCHANGED viewVars => ViewInv'
  BY DEF viewVars, partVars, ViewInv, ShownInv, LinksInv, PanelInv, VisibleInv
<1>2. QED
  BY <1>1, ClicksKeepView, AnswersKeepView, TimersKeepView DEF ViewNext

\* What is on the screen is of one mail when nothing is under way, for any mails
\* and versions and any number of requests: answers may come in any order, fail,
\* or come after the user has gone elsewhere, but for the parts ViewAgrees excepts.
THEOREM ViewAgreesHolds == ViewSpec => []ViewAgrees
<1>1. ViewInv => ViewAgrees
  BY DEF ViewInv, ShownInv, ViewAgrees, PanelCameLast, LinksCameLast, LinksInv, PanelInv,
     VisibleInv
<1> QED BY <1>1, ViewInitially, ViewInvNext, PTL DEF ViewSpec

-----------------------------------------------------------------------------
(* The list: types. Besides TypeOK the invariant says that a list carries    *)
(* nothing before its search, and that a bulk action is answered.            *)

Sound(call) ==
  /\ call.phase = "sent" => call.seen.read = {}
  /\ call.kind \in BulkKinds => call.phase \in {"sent", "answered"}

Valid == {call \in Requests : Sound(call)}

Limit(c) == IF c \in Pages THEN MaxCalls ELSE 1

CallsOK(now) ==
  /\ now \in [Clients -> Seq(Valid)]
  /\ \A c \in Clients : Len(now[c]) <= Limit(c)

ServerOK ==
  /\ stored \subseteq arrived /\ arrived \subseteq Mails /\ readEmails \subseteq Mails
  /\ IsFiniteSet(arrived) /\ untold \in 0 .. Cardinality(arrived)

PagesOK ==
  /\ socket \in [Pages -> {"open", "closed"}]
  /\ events \in [Pages -> Nat]
  /\ rows \in [Pages -> Rows]
  /\ ticked \in [Pages -> SUBSET Mails]
  /\ selectedEmailIds \in [Pages -> SUBSET Mails]
  /\ touched \in [Pages -> SUBSET Mails]
  /\ behind \in [Pages -> BOOLEAN]
  /\ acts \in 0 .. MaxActs

TypeInv == ServerOK /\ PagesOK /\ CallsOK(calls)

\* The ways in which the requests of one caller change.
With(c, call)      == [calls EXCEPT ![c] = Append(@, call)]
Without(c, i)      == [calls EXCEPT ![c] = RemoveAt(@, i)]
Turned(c, i, call) == [calls EXCEPT ![c] = Append(RemoveAt(@, i), call)]
Put(c, i, call)    == [calls EXCEPT ![c] = [@ EXCEPT ![i] = call]]

LEMMA CallFacts ==
  ASSUME CallsOK(calls), NEW c \in Clients
  PROVE  /\ calls[c] \in Seq(Valid) /\ Queue(calls[c]) /\ Len(calls[c]) \in Nat
         /\ DOMAIN calls[c] = 1 .. Len(calls[c]) /\ Len(calls[c]) <= Limit(c)
         /\ \A i \in DOMAIN calls[c] : calls[c][i] \in Requests /\ Sound(calls[c][i])
<1>1. calls[c] \in Seq(Valid) /\ Len(calls[c]) <= Limit(c)
  BY DEF CallsOK
<1>2. /\ Queue(calls[c]) /\ Len(calls[c]) \in Nat /\ DOMAIN calls[c] = 1 .. Len(calls[c])
      /\ \A i \in DOMAIN calls[c] : calls[c][i] \in Valid
  BY <1>1, QueueOf, LenProperties, ElementOfSeq
<1>3. QED
  BY <1>1, <1>2 DEF Valid

LEMMA LimitIsNat == \A c : Limit(c) \in Nat
BY ClientAssumption DEF Limit

LEMMA WithOK ==
  ASSUME CallsOK(calls), NEW c \in Clients, NEW call \in Valid, HasRoom(c)
  PROVE  CallsOK(With(c, call))
<1>1. calls[c] \in Seq(Valid) /\ Len(calls[c]) \in Nat
  BY CallFacts
<1>2. Append(calls[c], call) \in Seq(Valid) /\ Len(Append(calls[c], call)) = Len(calls[c]) + 1
  BY <1>1, AppendProperties
<1>3. Len(Append(calls[c], call)) <= Limit(c)
  BY <1>1, <1>2, LimitIsNat DEF HasRoom, Limit
<1>4. QED
  BY <1>2, <1>3 DEF CallsOK, With

LEMMA RemovedOK ==
  ASSUME NEW s \in Seq(Valid), NEW i \in DOMAIN s
  PROVE  RemoveAt(s, i) \in Seq(Valid) /\ Len(RemoveAt(s, i)) = Len(s) - 1
<1>1. Queue(s) /\ \A j \in DOMAIN s : s[j] \in Valid
  BY QueueOf, LenProperties, ElementOfSeq
<1>2. /\ Queue(RemoveAt(s, i)) /\ Len(RemoveAt(s, i)) = Len(s) - 1
      /\ DOMAIN RemoveAt(s, i) = 1 .. Len(s) - 1
      /\ \A j \in 1 .. Len(s) - 1 :
           Before(i, j) \in DOMAIN s /\ RemoveAt(s, i)[j] = s[Before(i, j)]
  BY <1>1, Removed
<1>3. Range(RemoveAt(s, i)) \subseteq Valid
  BY <1>1, <1>2 DEF Range
<1>4. QED
  BY <1>2, <1>3, SeqMonotonic DEF Queue

LEMMA WithoutOK ==
  ASSUME CallsOK(calls), NEW c \in Clients, NEW i \in DOMAIN calls[c]
  PROVE  CallsOK(Without(c, i))
<1>1. calls[c] \in Seq(Valid) /\ Len(calls[c]) \in Nat /\ Len(calls[c]) <= Limit(c)
  BY CallFacts
<1>2. /\ RemoveAt(calls[c], i) \in Seq(Valid)
      /\ Len(RemoveAt(calls[c], i)) = Len(calls[c]) - 1
  BY <1>1, RemovedOK
<1>3. Len(RemoveAt(calls[c], i)) <= Limit(c)
  BY <1>1, <1>2, LimitIsNat
<1>4. QED
  BY <1>2, <1>3 DEF CallsOK, Without

LEMMA TurnedOK ==
  ASSUME CallsOK(calls), NEW c \in Clients, NEW i \in DOMAIN calls[c], NEW call \in Valid
  PROVE  CallsOK(Turned(c, i, call))
<1> DEFINE rest == RemoveAt(calls[c], i)
<1>1. calls[c] \in Seq(Valid) /\ Len(calls[c]) \in Nat /\ Len(calls[c]) <= Limit(c)
  BY CallFacts
<1>2. rest \in Seq(Valid) /\ Len(rest) = Len(calls[c]) - 1
  BY <1>1, RemovedOK
<1> HIDE DEF rest
<1>3. Append(rest, call) \in Seq(Valid) /\ Len(Append(rest, call)) = Len(rest) + 1
  BY <1>2, AppendProperties
<1>4. Len(Append(rest, call)) <= Limit(c)
  BY <1>1, <1>2, <1>3, LimitIsNat
<1>5. Turned(c, i, call) = [calls EXCEPT ![c] = Append(rest, call)]
  BY DEF Turned, rest
<1>6. QED
  BY <1>3, <1>4, <1>5 DEF CallsOK

LEMMA PutOK ==
  ASSUME CallsOK(calls), NEW c \in Clients, NEW i \in DOMAIN calls[c], NEW call \in Valid
  PROVE  CallsOK(Put(c, i, call))
<1> DEFINE new == [calls[c] EXCEPT ![i] = call]
<1>1. /\ calls[c] \in Seq(Valid) /\ Len(calls[c]) <= Limit(c)
      /\ i \in 1 .. Len(calls[c])
  BY CallFacts
<1>2. new \in Seq(Valid) /\ Len(new) = Len(calls[c])
  BY <1>1, ExceptSeq
<1>3. Put(c, i, call) = [calls EXCEPT ![c] = new]
  BY DEF Put
<1> HIDE DEF new
<1>4. QED
  BY <1>1, <1>2, <1>3 DEF CallsOK

\* What pages miss marks their requests and changes nothing else of them.
Stale(call) == [call EXCEPT !.stale = @ \/ Made(call)]

LEMMA StaleValid ==
  ASSUME NEW call \in Valid, NEW more \in BOOLEAN
  PROVE  [call EXCEPT !.stale = @ \/ more] \in Valid
BY DEF Valid, Requests, Sound

LEMMA MissOK ==
  ASSUME NEW pages, NEW now, CallsOK(now), Miss(pages, now)
  PROVE  CallsOK(calls') /\ behind' \in [Pages -> BOOLEAN]
<1> DEFINE marked(c) == [i \in DOMAIN now[c] |-> Stale(now[c][i])]
<1>1. calls' = [c \in Clients |-> IF c \in pages THEN marked(c) ELSE now[c]]
  BY DEF Miss, Stale
<1>2. ASSUME NEW c \in Clients
      PROVE  marked(c) \in Seq(Valid) /\ Len(marked(c)) = Len(now[c])
  <2>1. /\ now[c] \in Seq(Valid) /\ Len(now[c]) \in Nat /\ DOMAIN now[c] = 1 .. Len(now[c])
        /\ \A i \in DOMAIN now[c] : now[c][i] \in Valid
    BY LenProperties, ElementOfSeq DEF CallsOK
  <2>2. ASSUME NEW i \in DOMAIN now[c]
        PROVE  Stale(now[c][i]) \in Valid
    BY <2>1, StaleValid DEF Stale, Made
  <2>3. marked(c) \in [1 .. Len(now[c]) -> Valid]
    BY <2>1, <2>2
  <2> HIDE DEF marked
  <2>4. marked(c) \in Seq(Valid) /\ DOMAIN marked(c) = 1 .. Len(now[c])
    BY <2>1, <2>3, SeqDef
  <2>5. QED
    BY <2>1, <2>4, LenProperties
<1> HIDE DEF marked
<1>3. CallsOK(calls')
  BY <1>1, <1>2 DEF CallsOK
<1>4. behind' \in [Pages -> BOOLEAN]
  BY DEF Miss
<1>5. QED
  BY <1>3, <1>4

LEMMA TypeInvIsType == TypeInv => TypeOK
<1> SUFFICES ASSUME TypeInv PROVE TypeOK
  OBVIOUS
<1>1. \A c \in Clients : calls[c] \in Seq(Valid) /\ Len(calls[c]) <= Limit(c)
  BY DEF TypeInv, CallsOK
<1>2. Valid \subseteq Requests
  BY DEF Valid
<1>3. \A c \in Clients : calls[c] \in Seq(Requests)
  BY <1>1, <1>2, SeqMonotonic
<1>4. calls \in [Clients -> Seq(Requests)]
  BY <1>3 DEF TypeInv, CallsOK
<1>5. QED
  BY <1>1, <1>4 DEF TypeInv, ServerOK, PagesOK, TypeOK, Limit

LEMMA RequestValid ==
  ASSUME NEW kind \in Kinds, NEW ids \in SUBSET Mails
  PROVE  Request(kind, ids) \in Valid
BY DEF Request, Valid, Requests, Sound, NoRows, Rows

LEMMA ListRequestValid == ListRequest \in Valid
BY RequestValid DEF ListRequest, Kinds

LEMMA TypeInvInitially == Init => TypeInv
<1> SUFFICES ASSUME Init PROVE TypeInv
  OBVIOUS
<1>1. CallsOK(calls)
  <2>1. /\ <<ListRequest>> \in Seq(Valid) /\ Len(<<ListRequest>>) = 1
        /\ <<>> \in Seq(Valid) /\ Len(<<>>) = 0
    BY ListRequestValid, EmptySeq
  <2>2. \A c \in Clients : (c \in Pages => 1 <= Limit(c)) /\ 0 <= Limit(c)
    BY ClientAssumption DEF Limit
  <2>3. QED
    BY <2>1, <2>2 DEF Init, CallsOK
<1>2. ServerOK
  BY FS_EmptySet DEF Init, ServerOK
<1>3. PagesOK
  BY ClientAssumption DEF Init, PagesOK, NoRows, Rows
<1>4. QED
  BY <1>1, <1>2, <1>3 DEF TypeInv

LEMMA SendTypes ==
  ASSUME TypeInv, NEW c \in Clients, NEW kind \in Kinds, NEW ids \in SUBSET Mails,
         Send(c, kind, ids)
  PROVE  TypeInv'
<1>1. calls' = With(c, Request(kind, ids)) /\ HasRoom(c)
  BY DEF Send, With
<1>2. CallsOK(calls')
  BY <1>1, RequestValid, WithOK DEF TypeInv
<1>3. ServerOK' /\ PagesOK'
  BY ClientAssumption DEF Send, Acts, TypeInv, serverVars, tickVars, ServerOK, PagesOK
<1>4. QED
  BY <1>2, <1>3 DEF TypeInv

\* The list is asked for, beside the requests that are under way.
LEMMA RefreshTypes ==
  ASSUME CallsOK(calls), NEW p \in Pages,
         \/ HasRoom(p) /\ Refresh(p, calls[p])
         \/ \E i \in DOMAIN calls[p] : Refresh(p, RemoveAt(calls[p], i))
  PROVE  CallsOK(calls')
<1>1. p \in Clients
  BY ClientAssumption
<1>2. CASE HasRoom(p) /\ Refresh(p, calls[p])
  <2>1. calls' = With(p, ListRequest)
    BY <1>2 DEF Refresh, With
  <2>2. QED
    BY <1>1, <1>2, <2>1, WithOK, ListRequestValid
<1>3. ASSUME NEW i \in DOMAIN calls[p], Refresh(p, RemoveAt(calls[p], i))
      PROVE  CallsOK(calls')
  <2>1. calls' = Turned(p, i, ListRequest)
    BY <1>3 DEF Refresh, Turned
  <2>2. QED
    BY <1>1, <2>1, TurnedOK, ListRequestValid
<1>4. QED
  BY <1>2, <1>3

LEMMA UserTypes ==
  ASSUME TypeInv, NEW p \in Pages, User(p)
  PROVE  TypeInv'
<1>1. p \in Clients /\ rows[p].ids \subseteq Mails /\ selectedEmailIds[p] \subseteq Mails
  BY ClientAssumption DEF TypeInv, PagesOK, Rows
<1>2. ASSUME \/ \E m \in Mails : Tick(p, m) \/ Untick(p, m)
             \/ \E checked \in BOOLEAN : TickAll(p, checked)
      PROVE  TypeInv'
  <2>1. UNCHANGED <<serverVars, rows, behind, socket, events, calls, acts>>
    BY <1>2 DEF Tick, Untick, TickAll
  <2>2. /\ ticked' \in [Pages -> SUBSET Mails]
        /\ selectedEmailIds' \in [Pages -> SUBSET Mails]
        /\ touched' \in [Pages -> SUBSET Mails]
    BY <1>1, <1>2 DEF TypeInv, PagesOK, Tick, Untick, TickAll
  <2>3. QED
    BY <2>1, <2>2 DEF TypeInv, serverVars, ServerOK, PagesOK
<1>3. ASSUME NEW m \in Mails, UserDeletes(p, m) \/ UserOpens(p, m)
      PROVE  TypeInv'
  BY <1>1, <1>3, SendTypes DEF UserDeletes, UserOpens, Kinds, DeleteKinds
<1>4. ASSUME NEW kind \in BulkKinds, UserActs(p, kind)
      PROVE  TypeInv'
  BY <1>1, <1>4, SendTypes DEF UserActs, Kinds
<1>5. ASSUME UserDeletesAll(p) \/ UserResets(p)
      PROVE  TypeInv'
  BY <1>1, <1>5, SendTypes DEF UserDeletesAll, UserResets, Kinds, DeleteKinds
<1>6. ASSUME UserLists(p)
      PROVE  TypeInv'
  <2>1. CallsOK(calls')
    BY <1>6, RefreshTypes DEF UserLists, TypeInv
  <2>2. ServerOK' /\ PagesOK'
    BY <1>6, ClientAssumption
       DEF UserLists, Refresh, Acts, TypeInv, serverVars, ServerOK, PagesOK
  <2>3. QED
    BY <2>1, <2>2 DEF TypeInv
<1>7. QED
  BY <1>2, <1>3, <1>4, <1>5, <1>6 DEF User

LEMMA PageTypes ==
  ASSUME TypeInv, NEW p \in Pages, Page(p)
  PROVE  TypeInv'
<1>1. p \in Clients /\ CallsOK(calls)
  BY ClientAssumption DEF TypeInv
<1>2. CASE Connect(p)
  BY <1>2 DEF Connect, TypeInv, serverVars, tickVars, ServerOK, PagesOK
<1>3. CASE Drop(p)
  <2>1. CallsOK(calls') /\ behind' \in [Pages -> BOOLEAN]
    BY <1>1, <1>3, MissOK DEF Drop
  <2>2. acts' \in 0 .. MaxActs /\ events' \in [Pages -> Nat]
    BY <1>3, ClientAssumption DEF Drop, Acts, TypeInv, PagesOK
  <2>3. QED
    BY <1>3, <2>1, <2>2 DEF Drop, TypeInv, serverVars, tickVars, ServerOK, PagesOK
<1>4. CASE EventArrives(p)
  <2>1. CallsOK(calls')
    BY <1>1, <1>4, RefreshTypes DEF EventArrives
  <2>2. events' \in [Pages -> Nat]
    BY <1>4 DEF EventArrives, TypeInv, PagesOK
  <2>3. QED
    BY <1>4, <2>1, <2>2 DEF EventArrives, Refresh, TypeInv, serverVars, ServerOK, PagesOK
<1>5. ASSUME NEW i \in DOMAIN calls[p], ListArrives(p, i)
      PROVE  TypeInv'
  <2> DEFINE now == [j \in DOMAIN calls[p] |->
                       [calls[p][j] EXCEPT !.stale = @ \/ (j < i /\ Made(calls[p][j]))]]
  <2>1. /\ DOMAIN calls[p] = 1 .. Len(calls[p]) /\ Len(calls[p]) \in Nat
        /\ Len(calls[p]) <= Limit(p)
        /\ \A j \in DOMAIN calls[p] : calls[p][j] \in Valid
    BY <1>1, CallFacts DEF Valid
  <2>2. ASSUME NEW j \in DOMAIN calls[p]
        PROVE  now[j] \in Valid
    BY <2>1, <2>2, StaleValid DEF Made
  <2>3. now \in [1 .. Len(calls[p]) -> Valid] /\ i \in DOMAIN now
    BY <2>1, <2>2
  <2>4. calls' = [calls EXCEPT ![p] = RemoveAt(now, i)]
    BY <1>5 DEF ListArrives
  <2> HIDE DEF now
  <2>5. now \in Seq(Valid) /\ Len(now) = Len(calls[p])
    <3>1. now \in Seq(Valid) /\ DOMAIN now = 1 .. Len(calls[p])
      BY <2>1, <2>3, SeqDef
    <3>2. QED
      BY <2>1, <3>1, LenProperties
  <2>6. RemoveAt(now, i) \in Seq(Valid) /\ Len(RemoveAt(now, i)) <= Limit(p)
    BY <2>1, <2>3, <2>5, RemovedOK, LimitIsNat
  <2>7. CallsOK(calls')
    BY <1>1, <2>4, <2>6 DEF CallsOK
  <2>8. calls[p][i].seen \in Rows /\ calls[p][i].stale \in BOOLEAN
    BY <2>1 DEF Valid, Requests
  <2>9. QED
    BY <1>5, <2>7, <2>8 DEF ListArrives, TypeInv, serverVars, ServerOK, PagesOK
<1>6. ASSUME NEW i \in DOMAIN calls[p], ActionSucceeds(p, i)
      PROVE  TypeInv'
  <2>1. CallsOK(calls')
    BY <1>1, <1>6, RefreshTypes, WithoutOK DEF ActionSucceeds, Without
  <2>2. PagesOK'
    BY <1>6 DEF ActionSucceeds, Refresh, TypeInv, tickVars, PagesOK
  <2>3. QED
    BY <1>6, <2>1, <2>2 DEF ActionSucceeds, TypeInv, serverVars, ServerOK
<1>7. ASSUME NEW i \in DOMAIN calls[p], Fails(p, i)
      PROVE  TypeInv'
  <2>1. CallsOK(Without(p, i))
    BY <1>1, WithoutOK
  <2>2. CallsOK(calls') /\ behind' \in [Pages -> BOOLEAN]
    BY <1>7, <2>1, MissOK DEF Fails, Without
  <2>3. QED
    BY <1>7, <2>2 DEF Fails, TypeInv, serverVars, tickVars, ServerOK, PagesOK
<1>8. ASSUME NEW i \in DOMAIN calls[p], MailShown(p, i)
      PROVE  TypeInv'
  BY <1>1, <1>8, WithoutOK
     DEF MailShown, Without, TypeInv, serverVars, tickVars, ServerOK, PagesOK
<1>9. QED
  BY <1>2, <1>3, <1>4, <1>5, <1>6, <1>7, <1>8 DEF Page

LEMMA CallerTypes ==
  ASSUME TypeInv, NEW c \in Clients, Caller(c)
  PROVE  TypeInv'
<1>1. ASSUME NEW m \in arrived, Send(c, "delete", {m}) PROVE TypeInv'
  BY <1>1, SendTypes DEF TypeInv, ServerOK, Kinds, DeleteKinds
<1>2. ASSUME NEW kind \in BulkKinds, NEW m \in arrived, Send(c, kind, {m}) PROVE TypeInv'
  BY <1>2, SendTypes DEF TypeInv, ServerOK, Kinds
<1>3. CASE Send(c, "reset", {})
  BY <1>3, SendTypes DEF Kinds
<1>4. ASSUME NEW i \in DOMAIN calls[c], CallerAnswered(c, i) PROVE TypeInv'
  BY <1>4, WithoutOK
     DEF CallerAnswered, Without, TypeInv, serverVars, tickVars, ServerOK, PagesOK
<1>5. QED
  BY <1>1, <1>2, <1>3, <1>4 DEF Caller, CallerSends

LEMMA ArrivalTypes ==
  ASSUME TypeInv, MailTold \/ \E m \in Mails : MailStored(m)
  PROVE  TypeInv'
<1>1. ASSUME NEW m \in Mails, MailStored(m) PROVE TypeInv'
  <2>1. /\ IsFiniteSet(arrived \cup {m})
        /\ Cardinality(arrived \cup {m}) = Cardinality(arrived) + 1
        /\ Cardinality(arrived) \in Nat
    BY <1>1, FS_AddElement, FS_CardinalityType DEF MailStored, TypeInv, ServerOK
  <2>2. ServerOK'
    BY <1>1, <2>1 DEF MailStored, TypeInv, ServerOK
  <2>3. QED
    BY <1>1, <2>2 DEF MailStored, TypeInv, tickVars, PagesOK
<1>2. CASE MailTold
  <2>1. CallsOK(calls') /\ behind' \in [Pages -> BOOLEAN]
    BY <1>2, MissOK DEF MailTold, Broadcast, TypeInv
  <2>2. events' \in [Pages -> Nat]
    BY <1>2 DEF MailTold, Broadcast, TypeInv, PagesOK
  <2>3. Cardinality(arrived) \in Nat
    BY FS_CardinalityType DEF TypeInv, ServerOK
  <2>4. QED
    BY <1>2, <2>1, <2>2, <2>3 DEF MailTold, TypeInv, tickVars, ServerOK, PagesOK
<1>3. QED
  BY <1>1, <1>2

\* What a handler does to its request, before the pages that miss something are
\* marked.
Advanced(c, i, now) ==
  \/ \E call \in Valid : now = Put(c, i, call)
  \/ \E call \in Valid : now = Turned(c, i, call)

\* The marks are looked up: two fields of a request change.
LEMMA MarksPut ==
  ASSUME TypeInv, NEW c \in Clients, NEW i \in DOMAIN calls[c], HandleMarks(c, i)
  PROVE  calls' = Put(c, i, [calls[c][i] EXCEPT
                    !.phase = "answered",
                    !.seen.read = calls[c][i].seen.ids \cap readEmails])
<1> DEFINE call   == calls[c][i]
           new    == [call EXCEPT !.phase = "answered",
                                  !.seen.read = call.seen.ids \cap readEmails]
<1> DEFINE looked == [call EXCEPT !.phase = "answered"]
           mid    == Put(c, i, looked)
<1>1. c \in DOMAIN calls /\ i \in DOMAIN calls[c]
  BY DEF TypeInv, CallsOK
<1>2. /\ DOMAIN mid = DOMAIN calls /\ mid[c] = [calls[c] EXCEPT ![i] = looked]
      /\ mid[c][i] = looked
  BY <1>1 DEF Put
<1>3. new = [looked EXCEPT !.seen.read = call.seen.ids \cap readEmails]
  OBVIOUS
<1>4. mid = [calls EXCEPT ![c][i].phase = "answered"]
  BY DEF Put
<1>5. calls' = [mid EXCEPT ![c][i].seen.read = call.seen.ids \cap readEmails]
  BY <1>4 DEF HandleMarks
<1> HIDE DEF mid, looked, new
<1>6. calls' = [mid EXCEPT ![c] = [mid[c] EXCEPT ![i] = new]]
  BY <1>2, <1>3, <1>5
<1>7. [mid[c] EXCEPT ![i] = new] = [calls[c] EXCEPT ![i] = new]
  BY <1>1, <1>2
<1>8. calls' = Put(c, i, new)
  BY <1>1, <1>2, <1>6, <1>7 DEF Put, mid
<1>9. QED
  BY <1>8 DEF new, call

LEMMA HandlerCalls ==
  ASSUME TypeInv, NEW c \in Clients, NEW i \in DOMAIN calls[c], Handle(c, i)
  PROVE  \/ Advanced(c, i, calls') /\ UNCHANGED behind
         \/ \E pages, now : Advanced(c, i, now) /\ Miss(pages, now)
<1> DEFINE call == calls[c][i]
<1>0. call \in Requests /\ Sound(call) /\ call \in Valid
  BY CallFacts DEF TypeInv, Valid
<1>1. [call EXCEPT !.phase = "answered"] \in Valid
  BY <1>0 DEF Valid, Requests, Sound
<1>2. call.kind \notin BulkKinds => \A phase \in {"found", "tell", "failed"} :
        [call EXCEPT !.phase = phase] \in Valid
  BY <1>0 DEF Valid, Requests, Sound
<1>3. \A phase : [calls EXCEPT ![c][i].phase = phase] = Put(c, i, [call EXCEPT !.phase = phase])
  BY DEF Put
<1>4. CASE HandleSearch(c, i)
  <2>1. CASE calls' = [calls EXCEPT ![c] = Append(RemoveAt(@, i),
                         [call EXCEPT !.phase = "found", !.seen.ids = stored])]
    <3>1. [call EXCEPT !.phase = "found", !.seen.ids = stored] \in Valid
      BY <1>0, <1>4
         DEF HandleSearch, TypeInv, ServerOK, Valid, Requests, Sound, Rows, BulkKinds
    <3>2. QED
      BY <1>4, <2>1, <3>1 DEF HandleSearch, Advanced, Turned
  <2>2. CASE calls' = [calls EXCEPT ![c][i].phase = "failed"]
    <3>1. call.kind \notin BulkKinds
      BY <1>4 DEF HandleSearch, BulkKinds
    <3>2. QED
      BY <1>2, <1>3, <1>4, <2>2, <3>1 DEF HandleSearch, Advanced
  <2>3. QED
    BY <1>4, <2>1, <2>2 DEF HandleSearch
<1>5. CASE HandleMarks(c, i)
  <2> DEFINE new == [call EXCEPT !.phase = "answered",
                                 !.seen.read = call.seen.ids \cap readEmails]
  <2>1. new \in Valid
    BY <1>0, <1>5 DEF HandleMarks, TypeInv, ServerOK, Valid, Requests, Sound, Rows
  <2>2. calls' = Put(c, i, new)
    BY <1>5, MarksPut
  <2>3. QED
    BY <1>5, <2>1, <2>2 DEF HandleMarks, Advanced
<1>6. CASE HandleDelete(c, i) \/ HandleReset(c, i)
  <2>1. call.kind \notin BulkKinds
    BY <1>6 DEF HandleDelete, HandleReset, BulkKinds, DeleteKinds
  <2>2. ASSUME NEW phase \in {"tell", "failed"}, UNCHANGED behind,
               calls' = [calls EXCEPT ![c][i].phase = phase]
        PROVE  Advanced(c, i, calls')
    BY <1>2, <1>3, <2>1, <2>2 DEF Advanced
  <2>3. CASE Broadcast({c}, [calls EXCEPT ![c][i].phase = "answered"])
    BY <1>1, <1>3, <2>3 DEF Advanced, Broadcast
  <2>4. QED
    BY <1>6, <2>2, <2>3 DEF HandleDelete, HandleReset
<1>7. CASE BulkDone(c, i)
  BY <1>1, <1>3, <1>7 DEF BulkDone, Advanced
<1>8. CASE HandleOpen(c, i)
  <2>1. CASE calls' = [calls EXCEPT ![c][i].phase =
                         IF call.ids \subseteq stored THEN "found" ELSE "failed"] /\ UNCHANGED behind
    <3>1. call.kind \notin BulkKinds
      BY <1>8 DEF HandleOpen, BulkKinds
    <3>2. [call EXCEPT !.phase = IF call.ids \subseteq stored THEN "found" ELSE "failed"] \in Valid
      BY <1>2, <3>1
    <3>3. QED
      BY <1>3, <2>1, <3>2 DEF Advanced
  <2>2. CASE Miss(Pages, [calls EXCEPT ![c][i].phase = "answered"])
    BY <1>1, <1>3, <2>2 DEF Advanced
  <2>3. QED
    BY <1>8, <2>1, <2>2 DEF HandleOpen
<1>9. ASSUME NEW m \in Mails, HandleBulkDelete(c, i, m) \/ HandleBulkMark(c, i, m)
       PROVE  \/ Advanced(c, i, calls') /\ UNCHANGED behind
              \/ \E pages, now : Advanced(c, i, now) /\ Miss(pages, now)
  <2> DEFINE idle == [call EXCEPT !.todo = @ \ {m}]
             done == [call EXCEPT !.todo = @ \ {m}, !.done = @ \cup {m}]
  <2>1. idle \in Valid /\ done \in Valid
    BY <1>0 DEF Valid, Requests, Sound
  <2>2. /\ [calls EXCEPT ![c][i].todo = @ \ {m}] = Put(c, i, idle)
        /\ [calls EXCEPT ![c][i].todo = @ \ {m}, ![c][i].done = @ \cup {m}] = Put(c, i, done)
    BY DEF Put
  <2> HIDE DEF idle, done
  <2>3. QED
    BY <1>9, <2>1, <2>2 DEF HandleBulkDelete, HandleBulkMark, Advanced
<1>10. QED
  BY <1>4, <1>5, <1>6, <1>7, <1>8, <1>9 DEF Handle

LEMMA HandlerTypes ==
  ASSUME TypeInv, NEW c \in Clients, NEW i \in DOMAIN calls[c], Handle(c, i)
  PROVE  TypeInv'
<1>1. /\ CallsOK(calls')
      /\ behind' \in [Pages -> BOOLEAN]
  <2>1. \A now : Advanced(c, i, now) => CallsOK(now)
    BY PutOK, TurnedOK DEF Advanced, TypeInv
  <2>2. QED
    BY <2>1, HandlerCalls, MissOK DEF TypeInv, PagesOK
<1>2. calls[c][i].ids \subseteq Mails
  BY CallFacts DEF TypeInv, Requests
<1>3. UNCHANGED <<untold, arrived, tickVars, rows, socket, acts>>
  BY DEF Handle, HandleSearch, HandleMarks, HandleDelete, HandleReset, BulkDone, HandleOpen,
     HandleBulkDelete, HandleBulkMark, serverVars
<1>4. stored' \subseteq stored
  BY DEF Handle, HandleSearch, HandleMarks, HandleDelete, HandleReset, BulkDone, HandleOpen,
     HandleBulkDelete, HandleBulkMark, serverVars
<1>5. readEmails' \subseteq Mails
  BY <1>2 DEF Handle, HandleSearch, HandleMarks, HandleDelete, HandleReset, BulkDone, HandleOpen,
     HandleBulkDelete, HandleBulkMark, serverVars, TypeInv, ServerOK
<1>6. events' \in [Pages -> Nat]
  <2>1. \A pages, now : Broadcast(pages, now) => events' \in [Pages -> Nat]
    BY DEF Broadcast, TypeInv, PagesOK
  <2>2. UNCHANGED events => events' \in [Pages -> Nat]
    BY DEF TypeInv, PagesOK
  <2>3. UNCHANGED events \/ \E pages, now : Broadcast(pages, now)
    BY DEF Handle, HandleSearch, HandleMarks, HandleDelete, HandleReset, BulkDone, HandleOpen,
       HandleBulkDelete, HandleBulkMark
  <2>4. QED
    BY <2>1, <2>2, <2>3
<1>7. ServerOK'
  BY <1>3, <1>4, <1>5 DEF TypeInv, ServerOK
<1>8. PagesOK'
  BY <1>1, <1>3, <1>6 DEF tickVars, TypeInv, PagesOK
<1>9. QED
  BY <1>1, <1>7, <1>8 DEF TypeInv

LEMMA TypeInvNext == TypeInv /\ [Next]_vars => TypeInv'
<1>1. TypeInv /\ UNCHANGED vars => TypeInv'
  BY DEF vars, serverVars, tickVars, TypeInv, ServerOK, PagesOK
<1>2. QED
  BY <1>1, UserTypes, PageTypes, CallerTypes, ArrivalTypes, HandlerTypes DEF Next

\* Every reachable state of the list is well typed, for any mails, pages, callers
\* and bounds.
THEOREM ListTypeCorrect == Spec => []TypeOK
<1> QED BY TypeInvInitially, TypeInvNext, TypeInvIsType, PTL DEF Spec

-----------------------------------------------------------------------------
(* The list: what it shows. Either something is coming that makes the page   *)
(* ask again, or admits that it misses something, or what it shows, once the *)
(* lists that were made for it have arrived, is what the server has.         *)

Tells(now) == \E c \in Clients : \E i \in DOMAIN now[c] : now[c][i].phase = "tell"

\* A request after which the page asks for the list, or knows that it misses one.
Owes(call) ==
  \/ call.kind = "list" /\ call.phase \in {"sent", "failed"}
  \/ call.kind \in DeleteKinds \cup {"reset"} /\ call.phase \in {"tell", "answered"}
  \/ call.kind \in BulkKinds /\ call.done # {}

Coming(p, now, sent, owed) ==
  owed > 0 \/ sent[p] > 0 \/ Tells(now) \/ \E i \in DOMAIN now[p] : Owes(now[p][i])

MadeLists(queue) == {i \in DOMAIN queue : queue[i].kind = "list" /\ Made(queue[i])}

\* The marks are looked up after the search.
Shows(call, ids, marks) ==
  call.seen.ids = ids /\ (call.phase = "answered" => call.seen.read = ids \cap marks)

\* Of the lists that were made the newest is right or known to be stale. An older
\* one that arrives after it is stale by then; one that arrives before it is
\* replaced.
Settled(queue, list, missed, ids, marks) ==
  /\ MadeLists(queue) = {} => list = [ids |-> ids, read |-> ids \cap marks] \/ missed
  /\ \A i \in MadeLists(queue) :
       \/ queue[i].stale
       \/ Shows(queue[i], ids, marks)
       \/ \E j \in MadeLists(queue) : i < j

Fresh(p) ==
  \/ Coming(p, calls, events, untold)
  \/ Settled(calls[p], rows[p], behind[p], stored, readEmails)

FreshInv == \A p \in Pages : Fresh(p)

\* A step that leaves what page p shows, and what comes to it, as it was ...
Unmoved(p) ==
  /\ rows'[p] = rows[p] /\ behind'[p] = behind[p] /\ events'[p] = events[p]
  /\ UNCHANGED <<stored, readEmails, untold>>

\* ... and takes none of its lists, and nothing it waits for, from its requests.
Keeps(p, now) ==
  /\ Tells(calls) => Tells(now)
  /\ (\E i \in DOMAIN calls[p] : Owes(calls[p][i])) => \E i \in DOMAIN now[p] : Owes(now[p][i])
  /\ \A list, missed, ids, marks :
       Settled(calls[p], list, missed, ids, marks) => Settled(now[p], list, missed, ids, marks)

LEMMA FreshKept ==
  ASSUME NEW p \in Pages, Fresh(p), Unmoved(p), Keeps(p, calls')
  PROVE  Fresh(p)'
<1>1. Coming(p, calls, events, untold) => Coming(p, calls', events', untold')
  BY DEF Coming, Unmoved, Keeps
<1>2. Settled(calls[p], rows[p], behind[p], stored, readEmails)
        => Settled(calls'[p], rows'[p], behind'[p], stored', readEmails')
  BY DEF Unmoved, Keeps
<1>3. QED
  BY <1>1, <1>2 DEF Fresh

LEMMA FreshInitially == Init => FreshInv
<1> SUFFICES ASSUME Init, NEW p \in Pages PROVE Fresh(p)
  BY DEF FreshInv
<1>1. calls[p] = <<ListRequest>> /\ DOMAIN calls[p] = {1} /\ calls[p][1] = ListRequest
  BY ClientAssumption DEF Init
<1>2. Owes(ListRequest)
  BY DEF Owes, ListRequest, Request
<1>3. QED
  BY <1>1, <1>2 DEF Fresh, Coming

-----------------------------------------------------------------------------
(* The requests of a caller change *)

\* Where an element is after one was taken from the sequence.
After(i, k) == IF k < i THEN k ELSE k - 1

LEMMA RemovedKeeps ==
  ASSUME NEW s, Queue(s), NEW i \in DOMAIN s, NEW k \in DOMAIN s, k # i
  PROVE  After(i, k) \in DOMAIN RemoveAt(s, i) /\ RemoveAt(s, i)[After(i, k)] = s[k]
<1>1. /\ Len(s) \in Nat /\ DOMAIN s = 1 .. Len(s) /\ DOMAIN RemoveAt(s, i) = 1 .. Len(s) - 1
      /\ \A j \in 1 .. Len(s) - 1 : RemoveAt(s, i)[j] = s[Before(i, j)]
  BY QueueFacts, Removed
<1>2. After(i, k) \in 1 .. Len(s) - 1 /\ Before(i, After(i, k)) = k
  BY <1>1 DEF After, Before
<1>3. QED
  BY <1>1, <1>2

LEMMA PutKeeps ==
  ASSUME TypeInv, NEW p \in Pages, NEW c \in Clients, NEW i \in DOMAIN calls[c],
         NEW call, calls[c][i].phase # "tell",
         p = c => /\ calls[c][i].kind # "list" /\ call.kind # "list"
                  /\ Owes(calls[c][i]) => Owes(call)
  PROVE  Keeps(p, Put(c, i, call))
<1> DEFINE now == Put(c, i, call)
<1>1. /\ \A d \in Clients : DOMAIN now[d] = DOMAIN calls[d]
      /\ \A d \in Clients : \A j \in DOMAIN calls[d] : d # c \/ j # i => now[d][j] = calls[d][j]
      /\ now[c][i] = call /\ \A d \in Clients : d # c => now[d] = calls[d]
  BY DEF TypeInv, CallsOK, Put
<1>2. p \in Clients
  BY ClientAssumption
<1> HIDE DEF now
<1>3. Tells(calls) => Tells(now)
  <2> SUFFICES ASSUME NEW d \in Clients, NEW j \in DOMAIN calls[d], calls[d][j].phase = "tell"
               PROVE  Tells(now)
    BY DEF Tells
  <2>1. now[d][j] = calls[d][j] /\ j \in DOMAIN now[d]
    BY <1>1
  <2>2. QED
    BY <2>1 DEF Tells
<1>4. ASSUME NEW j \in DOMAIN calls[p], Owes(calls[p][j])
      PROVE  \E k \in DOMAIN now[p] : Owes(now[p][k])
  BY <1>1, <1>2, <1>4
<1>5. MadeLists(now[p]) = MadeLists(calls[p])
  BY <1>1, <1>2 DEF MadeLists
<1>6. \A j \in MadeLists(calls[p]) : now[p][j] = calls[p][j]
  BY <1>1, <1>2 DEF MadeLists
<1>7. QED
  BY <1>3, <1>4, <1>5, <1>6 DEF Keeps, Settled, now

LEMMA WithKeeps ==
  ASSUME TypeInv, NEW p \in Pages, NEW c \in Clients, NEW call, p = c => call.kind # "list"
  PROVE  Keeps(p, With(c, call))
<1> DEFINE now == With(c, call)
           n   == Len(calls[c])
<1>1. now[c] = Append(calls[c], call) /\ \A d \in Clients : d # c => now[d] = calls[d]
  BY DEF TypeInv, CallsOK, With
<1>2. /\ n \in Nat /\ DOMAIN calls[c] = 1 .. n /\ DOMAIN now[c] = 1 .. n + 1
      /\ \A j \in 1 .. n : now[c][j] = calls[c][j]
      /\ now[c][n + 1] = call
  BY <1>1, CallFacts, Appended DEF TypeInv
<1>3. p \in Clients
  BY ClientAssumption
<1> HIDE DEF now, n
<1>4. \A d \in Clients : \A j \in DOMAIN calls[d] : j \in DOMAIN now[d] /\ now[d][j] = calls[d][j]
  <2>1. \A j \in DOMAIN calls[c] : j \in DOMAIN now[c] /\ now[c][j] = calls[c][j]
    BY <1>2
  <2>2. QED
    BY <1>1, <2>1
<1>5. Tells(calls) => Tells(now)
  BY <1>4 DEF Tells
<1>6. (\E j \in DOMAIN calls[p] : Owes(calls[p][j])) => \E j \in DOMAIN now[p] : Owes(now[p][j])
  BY <1>3, <1>4
<1>7. MadeLists(now[p]) = MadeLists(calls[p])
  <2>1. CASE p # c
    BY <1>1, <1>3, <2>1
  <2>2. CASE p = c
    <3>1. \A j \in DOMAIN now[c] : j \in DOMAIN calls[c] \/ now[c][j] = call
      BY <1>2
    <3>2. QED
      BY <1>3, <1>4, <2>2, <3>1 DEF MadeLists
  <2>3. QED
    BY <2>1, <2>2
<1>8. \A j \in MadeLists(calls[p]) : now[p][j] = calls[p][j]
  BY <1>3, <1>4 DEF MadeLists
<1>9. QED
  BY <1>5, <1>6, <1>7, <1>8 DEF Keeps, Settled, now

LEMMA WithoutKeeps ==
  ASSUME TypeInv, NEW p \in Pages, NEW c \in Clients, NEW i \in DOMAIN calls[c],
         calls[c][i].phase # "tell",
         p = c => calls[c][i].kind # "list" /\ ~Owes(calls[c][i])
  PROVE  Keeps(p, Without(c, i))
<1> DEFINE now == Without(c, i)
<1>1. now[c] = RemoveAt(calls[c], i) /\ \A d \in Clients : d # c => now[d] = calls[d]
  BY DEF TypeInv, CallsOK, Without
<1>2. Queue(calls[c]) /\ DOMAIN calls[c] = 1 .. Len(calls[c]) /\ Len(calls[c]) \in Nat
  BY CallFacts DEF TypeInv
<1>3. \A k \in DOMAIN calls[c] : k # i =>
        After(i, k) \in DOMAIN now[c] /\ now[c][After(i, k)] = calls[c][k]
  BY <1>1, <1>2, RemovedKeeps
<1>4. \A j \in DOMAIN now[c] : /\ Before(i, j) \in DOMAIN calls[c] /\ Before(i, j) # i
                              /\ now[c][j] = calls[c][Before(i, j)]
                              /\ j \in Nat /\ After(i, Before(i, j)) = j
  <2>1. /\ DOMAIN now[c] = 1 .. Len(calls[c]) - 1
        /\ \A j \in 1 .. Len(calls[c]) - 1 :
             /\ Before(i, j) \in DOMAIN calls[c] /\ Before(i, j) # i
             /\ now[c][j] = calls[c][Before(i, j)]
    <3>1. /\ DOMAIN RemoveAt(calls[c], i) = 1 .. Len(calls[c]) - 1
          /\ \A j \in 1 .. Len(calls[c]) - 1 :
               /\ Before(i, j) \in DOMAIN calls[c] /\ Before(i, j) # i
               /\ RemoveAt(calls[c], i)[j] = calls[c][Before(i, j)]
      BY <1>2, Removed
    <3>2. QED
      BY <1>1, <3>1
  <2>2. \A j \in 1 .. Len(calls[c]) - 1 : j \in Nat /\ After(i, Before(i, j)) = j
    BY <1>2 DEF After, Before
  <2>3. QED
    BY <2>1, <2>2
<1>5. p \in Clients
  BY ClientAssumption
<1> HIDE DEF now
<1>6. Tells(calls) => Tells(now)
  <2> SUFFICES ASSUME NEW d \in Clients, NEW j \in DOMAIN calls[d], calls[d][j].phase = "tell"
               PROVE  \E e \in Clients : \E k \in DOMAIN now[e] : now[e][k].phase = "tell"
    BY DEF Tells
  <2>1. CASE d = c
    BY <1>3, <2>1
  <2>2. CASE d # c
    BY <1>1, <2>2
  <2>3. QED
    BY <2>1, <2>2
<1>7. ASSUME NEW j \in DOMAIN calls[p], Owes(calls[p][j])
      PROVE  \E k \in DOMAIN now[p] : Owes(now[p][k])
  <2>1. CASE p = c
    BY <1>3, <1>7, <2>1
  <2>2. CASE p # c
    BY <1>1, <1>5, <1>7, <2>2
  <2>3. QED
    BY <2>1, <2>2
<1>8. ASSUME NEW list, NEW missed, NEW ids, NEW marks,
             Settled(calls[p], list, missed, ids, marks)
      PROVE  Settled(now[p], list, missed, ids, marks)
  <2>1. CASE p # c
    BY <1>1, <1>5, <1>8, <2>1
  <2>2. CASE p = c
    <3>1. \A k \in MadeLists(calls[c]) :
            After(i, k) \in MadeLists(now[c]) /\ now[c][After(i, k)] = calls[c][k] /\ k # i
      BY <1>3, <2>2 DEF MadeLists
    <3>2. \A j \in MadeLists(now[c]) :
            Before(i, j) \in MadeLists(calls[c]) /\ now[c][j] = calls[c][Before(i, j)]
      BY <1>4 DEF MadeLists
    <3>3. MadeLists(now[c]) = {} => MadeLists(calls[c]) = {}
      BY <3>1
    <3>4. ASSUME NEW j \in MadeLists(now[c]), NEW l \in MadeLists(calls[c]), Before(i, j) < l
          PROVE  After(i, l) \in MadeLists(now[c]) /\ j < After(i, l)
      <4>1. /\ j \in Nat /\ l \in Nat /\ i \in Nat /\ l # i
            /\ j \in DOMAIN now[c]
        BY <1>2, <1>4, <3>1 DEF MadeLists
      <4>2. QED
        BY <3>1, <3>4, <4>1 DEF Before, After
    <3>5. QED
      BY <1>8, <2>2, <3>2, <3>3, <3>4 DEF Settled
  <2>3. QED
    BY <2>1, <2>2
<1>9. QED
  BY <1>6, <1>7, <1>8 DEF Keeps, now

\* A request that had nothing to tell goes, and another comes.
LEMMA TurnedTells ==
  ASSUME TypeInv, NEW c \in Clients, NEW i \in DOMAIN calls[c], calls[c][i].phase # "tell",
         NEW call, Tells(calls)
  PROVE  Tells(Turned(c, i, call))
<1> DEFINE now  == Turned(c, i, call)
           rest == RemoveAt(calls[c], i)
<1>1. now[c] = Append(rest, call) /\ \A d \in Clients : d # c => now[d] = calls[d]
  BY DEF TypeInv, CallsOK, Turned
<1>2. Queue(calls[c])
  BY CallFacts DEF TypeInv
<1>3. Queue(rest) /\ \A k \in DOMAIN calls[c] : k # i =>
                       After(i, k) \in DOMAIN rest /\ rest[After(i, k)] = calls[c][k]
  BY <1>2, Removed, RemovedKeeps
<1> HIDE DEF now, rest
<1>4. \A j \in DOMAIN rest : j \in DOMAIN now[c] /\ now[c][j] = rest[j]
  BY <1>1, <1>3, QueueFacts, Appended
<1>5. PICK d \in Clients : \E k \in DOMAIN calls[d] : calls[d][k].phase = "tell"
  BY DEF Tells
<1>6. \E k \in DOMAIN now[d] : now[d][k].phase = "tell"
  <2>0. PICK j \in DOMAIN calls[d] : calls[d][j].phase = "tell"
    BY <1>5
  <2>1. CASE d = c
    <3>1. After(i, j) \in DOMAIN rest /\ rest[After(i, j)] = calls[c][j]
      BY <1>3, <2>0, <2>1
    <3>2. QED
      BY <1>4, <2>0, <2>1, <3>1
  <2>2. CASE d # c
    BY <1>1, <2>0, <2>2
  <2>3. QED
    BY <2>1, <2>2
<1>7. QED
  BY <1>6 DEF Tells, now

-----------------------------------------------------------------------------
(* What pages miss *)

\* A page that misses something knows it, and its lists are stale.
LEMMA MissSettles ==
  ASSUME NEW p \in Pages, NEW pages, p \in pages, NEW now, CallsOK(now), Miss(pages, now)
  PROVE  Fresh(p)'
<1>1. p \in Clients
  BY ClientAssumption
<1>2. calls'[p] = [i \in DOMAIN now[p] |-> Stale(now[p][i])]
  BY <1>1 DEF Miss, Stale
<1>3. \A i \in DOMAIN now[p] : now[p][i] \in Requests
  BY <1>1, LenProperties, ElementOfSeq DEF CallsOK, Valid
<1>4. \A i \in MadeLists(calls'[p]) : calls'[p][i].stale
  <2> SUFFICES ASSUME NEW i \in MadeLists(calls'[p])
               PROVE  calls'[p][i].stale
    OBVIOUS
  <2>1. i \in DOMAIN now[p] /\ calls'[p][i] = Stale(now[p][i]) /\ Made(Stale(now[p][i]))
    BY <1>2 DEF MadeLists
  <2>2. Made(now[p][i])
    BY <1>3, <2>1 DEF Made, Stale, Requests
  <2>3. QED
    BY <1>3, <2>1, <2>2 DEF Stale, Requests
<1>5. behind'[p] = TRUE
  BY DEF Miss
<1>6. Settled(calls'[p], rows'[p], behind'[p], stored', readEmails')
  BY <1>4, <1>5 DEF Settled
<1>7. QED
  BY <1>6 DEF Fresh

\* To the others nothing happens.
LEMMA MissPasses ==
  ASSUME TypeInv, NEW p \in Pages, NEW pages, p \notin pages, NEW now, CallsOK(now),
         Miss(pages, now)
  PROVE  /\ calls'[p] = now[p] /\ behind'[p] = behind[p]
         /\ Tells(now) => Tells(calls')
<1>1. p \in Clients
  BY ClientAssumption
<1>2. calls'[p] = now[p] /\ behind'[p] = behind[p]
  BY <1>1 DEF Miss, TypeInv, PagesOK
<1>3. Tells(now) => Tells(calls')
  <2> SUFFICES ASSUME NEW c \in Clients, NEW i \in DOMAIN now[c], now[c][i].phase = "tell"
               PROVE  Tells(calls')
    BY DEF Tells
  <2>1. now[c][i] \in Requests
    BY LenProperties, ElementOfSeq DEF CallsOK, Valid
  <2>2. /\ i \in DOMAIN calls'[c]
        /\ calls'[c][i] = now[c][i] \/ calls'[c][i] = Stale(now[c][i])
    BY DEF Miss, Stale
  <2>3. calls'[c][i].phase = "tell"
    BY <2>1, <2>2 DEF Stale, Requests
  <2>4. QED
    BY <2>2, <2>3 DEF Tells
<1>4. QED
  BY <1>2, <1>3

LEMMA MissKeeps ==
  ASSUME TypeInv, NEW p \in Pages, NEW pages, NEW now, CallsOK(now), Miss(pages, now),
         p \notin pages, Keeps(p, now)
  PROVE  Keeps(p, calls') /\ behind'[p] = behind[p]
BY MissPasses DEF Keeps

\* An event comes to the pages whose socket is open; the others missed it, and who
\* caused it asks for the list by itself.
LEMMA BroadcastReaches ==
  ASSUME TypeInv, NEW p \in Pages, NEW informed, NEW now, CallsOK(now),
         Broadcast(informed, now),
         p \in informed => \E i \in DOMAIN now[p] : Owes(now[p][i])
  PROVE  Fresh(p)'
<1> DEFINE open == {q \in Pages : socket[q] = "open"}
<1>1. CASE p \in open
  <2>1. events'[p] = events[p] + 1 /\ events[p] \in Nat
    BY <1>1 DEF Broadcast, TypeInv, PagesOK
  <2>2. events'[p] > 0
    BY <2>1
  <2>3. QED
    BY <2>2 DEF Fresh, Coming
<1>2. CASE p \notin open /\ p \in informed
  <2>1. Miss(Pages \ (open \cup informed), now) /\ p \notin Pages \ (open \cup informed)
    BY <1>2 DEF Broadcast
  <2> HIDE DEF open
  <2>2. calls'[p] = now[p]
    BY <2>1, MissPasses
  <2>3. QED
    BY <1>2, <2>2 DEF Fresh, Coming
<1>3. CASE p \notin open /\ p \notin informed
  <2>1. Miss(Pages \ (open \cup informed), now) /\ p \in Pages \ (open \cup informed)
    BY <1>3 DEF Broadcast
  <2> HIDE DEF open
  <2>2. QED
    BY <2>1, MissSettles
<1>4. QED
  BY <1>1, <1>2, <1>3

-----------------------------------------------------------------------------
(* The steps, as page p sees them *)

LEMMA SameKeeps == \A p \in Pages : Keeps(p, calls)
BY DEF Keeps

LEMMA SendFresh ==
  ASSUME TypeInv, NEW p \in Pages, Fresh(p), NEW c \in Clients, NEW kind, NEW ids,
         kind # "list", Send(c, kind, ids)
  PROVE  Fresh(p)'
<1>1. Request(kind, ids).kind # "list" /\ calls' = With(c, Request(kind, ids))
  BY DEF Request, Send, With
<1>2. Keeps(p, calls')
  BY <1>1, WithKeeps
<1>3. Unmoved(p)
  BY DEF Send, Unmoved, serverVars
<1>4. QED
  BY <1>2, <1>3, FreshKept

\* A page that asks for the list waits for it; to the others nothing happens.
LEMMA RefreshFresh ==
  ASSUME TypeInv, NEW p \in Pages, Fresh(p), NEW c \in Pages,
         \/ calls' = With(c, ListRequest)
         \/ \E i \in DOMAIN calls[c] : /\ calls[c][i].phase # "tell"
                                       /\ calls' = Turned(c, i, ListRequest),
         p # c => Unmoved(p)
  PROVE  Fresh(p)'
<1> DEFINE Queued(rest) == calls' = [calls EXCEPT ![c] = Append(rest, ListRequest)]
<1>1. p \in Clients /\ c \in Clients
  BY ClientAssumption
<1>2. CASE p = c
  <2>1. ASSUME NEW rest, Queue(rest), Queued(rest)
        PROVE  \E j \in DOMAIN calls'[p] : Owes(calls'[p][j])
    <3>1. calls'[p] = Append(rest, ListRequest)
      BY <1>1, <1>2, <2>1 DEF TypeInv, CallsOK
    <3>2. /\ Len(rest) \in Nat
          /\ DOMAIN Append(rest, ListRequest) = 1 .. Len(rest) + 1
          /\ Append(rest, ListRequest)[Len(rest) + 1] = ListRequest
      BY <2>1, QueueFacts, Appended
    <3>3. Len(rest) + 1 \in 1 .. Len(rest) + 1
      BY <3>2
    <3>4. Owes(ListRequest)
      BY DEF Owes, ListRequest, Request
    <3>5. QED
      BY <3>1, <3>2, <3>3, <3>4
  <2>2. Queue(calls[c]) /\ \A i \in DOMAIN calls[c] : Queue(RemoveAt(calls[c], i))
    BY <1>1, CallFacts, Removed DEF TypeInv
  <2>3. \E rest : Queue(rest) /\ Queued(rest)
    BY <2>2 DEF With, Turned
  <2> HIDE DEF Queued
  <2>4. QED
    BY <2>1, <2>3 DEF Fresh, Coming
<1>3. CASE p # c
  <2>1. CASE calls' = With(c, ListRequest)
    BY <1>1, <1>3, <2>1, WithKeeps, FreshKept
  <2>2. ASSUME NEW i \in DOMAIN calls[c], calls[c][i].phase # "tell",
               calls' = Turned(c, i, ListRequest)
        PROVE  Fresh(p)'
    <3>1. Tells(calls) => Tells(calls')
      BY <1>1, <2>2, TurnedTells
    <3>2. calls'[p] = calls[p]
      BY <1>1, <1>3, <2>2 DEF TypeInv, CallsOK, Turned
    <3>3. Keeps(p, calls')
      BY <3>1, <3>2 DEF Keeps
    <3>4. QED
      BY <1>3, <3>3, FreshKept
  <2>3. QED
    BY <2>1, <2>2
<1>4. QED
  BY <1>2, <1>3

LEMMA UserFresh ==
  ASSUME TypeInv, NEW p \in Pages, Fresh(p), NEW c \in Pages, User(c)
  PROVE  Fresh(p)'
<1>1. c \in Clients
  BY ClientAssumption
<1>2. ASSUME UNCHANGED <<serverVars, rows, behind, socket, events, calls, acts>>
      PROVE  Fresh(p)'
  BY <1>2, SameKeeps, FreshKept DEF Unmoved, serverVars
<1>3. ASSUME \/ \E m \in Mails : Tick(c, m) \/ Untick(c, m)
             \/ \E checked \in BOOLEAN : TickAll(c, checked)
      PROVE  Fresh(p)'
  BY <1>2, <1>3 DEF Tick, Untick, TickAll
<1>4. ASSUME \/ \E m \in Mails : UserDeletes(c, m) \/ UserOpens(c, m)
             \/ UserDeletesAll(c) \/ UserResets(c)
      PROVE  Fresh(p)'
  BY <1>1, <1>4, SendFresh DEF UserDeletes, UserOpens, UserDeletesAll, UserResets
<1>5. ASSUME NEW kind \in BulkKinds, UserActs(c, kind)
      PROVE  Fresh(p)'
  BY <1>1, <1>5, SendFresh DEF UserActs, BulkKinds
<1>6. ASSUME UserLists(c)
      PROVE  Fresh(p)'
  <2>1. calls' = With(c, ListRequest) /\ Unmoved(p)
    BY <1>6 DEF UserLists, Refresh, With, Unmoved, serverVars
  <2>2. QED
    BY <2>1, RefreshFresh
<1>7. QED
  BY <1>3, <1>4, <1>5, <1>6 DEF User

LEMMA ListTells ==
  ASSUME TypeInv, NEW c \in Pages, NEW i \in DOMAIN calls[c], ListArrives(c, i), Tells(calls)
  PROVE  Tells(calls')
<1> DEFINE now == [j \in DOMAIN calls[c] |->
                     [calls[c][j] EXCEPT !.stale = @ \/ (j < i /\ Made(calls[c][j]))]]
<1>1. /\ c \in Clients /\ Len(calls[c]) \in Nat /\ DOMAIN calls[c] = 1 .. Len(calls[c])
      /\ \A j \in DOMAIN calls[c] : calls[c][j] \in Requests
  BY ClientAssumption, CallFacts DEF TypeInv
<1>2. /\ calls[c][i].phase = "answered" /\ calls'[c] = RemoveAt(now, i)
      /\ \A d \in Clients : d # c => calls'[d] = calls[d]
  BY <1>1 DEF ListArrives, TypeInv, CallsOK
<1>3. /\ DOMAIN now = DOMAIN calls[c]
      /\ \A j \in DOMAIN calls[c] : now[j].phase = calls[c][j].phase
  BY <1>1 DEF Requests
<1>4. Queue(now)
  <2>1. now \in [1 .. Len(calls[c]) -> Range(now)]
    BY <1>1 DEF Range
  <2> HIDE DEF now
  <2>2. QED
    BY <1>1, <2>1, SeqDef DEF Queue
<1> HIDE DEF now
<1>5. PICK d \in Clients : \E k \in DOMAIN calls[d] : calls[d][k].phase = "tell"
  BY DEF Tells
<1>6. PICK k \in DOMAIN calls[d] : calls[d][k].phase = "tell"
  BY <1>5
<1>7. \E l \in DOMAIN calls'[d] : calls'[d][l].phase = "tell"
  <2>1. CASE d = c
    <3>1. k \in DOMAIN now /\ k # i /\ i \in DOMAIN now
      BY <1>2, <1>3, <1>6, <2>1
    <3>2. After(i, k) \in DOMAIN RemoveAt(now, i) /\ RemoveAt(now, i)[After(i, k)] = now[k]
      BY <1>4, <3>1, RemovedKeeps
    <3>3. QED
      BY <1>2, <1>3, <1>6, <2>1, <3>2
  <2>2. CASE d # c
    BY <1>2, <1>6, <2>2
  <2>3. QED
    BY <2>1, <2>2
<1>8. QED
  BY <1>7 DEF Tells

\* The answer to a list: what is on the screen is of the newest list, or the page
\* knows that it is not.
LEMMA ListFresh ==
  ASSUME TypeInv, NEW p \in Pages, Fresh(p), NEW i \in DOMAIN calls[p], ListArrives(p, i)
  PROVE  Fresh(p)'
<1> DEFINE queue == calls[p]
           now   == [j \in DOMAIN calls[p] |->
                       [calls[p][j] EXCEPT !.stale = @ \/ (j < i /\ Made(calls[p][j]))]]
<1>1. /\ p \in Clients /\ Queue(queue) /\ Len(queue) \in Nat /\ DOMAIN queue = 1 .. Len(queue)
      /\ \A j \in DOMAIN queue : queue[j] \in Requests
  BY ClientAssumption, CallFacts DEF TypeInv
<1>2. ASSUME NEW j \in DOMAIN queue
      PROVE  /\ now[j].kind = queue[j].kind /\ now[j].phase = queue[j].phase
             /\ now[j].done = queue[j].done /\ now[j].seen = queue[j].seen
             /\ now[j].stale = (queue[j].stale \/ (j < i /\ Made(queue[j])))
  BY <1>1 DEF Requests
<1>3. Queue(now) /\ DOMAIN now = DOMAIN queue /\ Len(now) = Len(queue)
  <2>1. now \in [1 .. Len(queue) -> Range(now)]
    BY <1>1 DEF Range
  <2> HIDE DEF now, queue
  <2>2. now \in Seq(Range(now))
    BY <1>1, <2>1, SeqDef
  <2>3. QED
    BY <1>1, <2>1, <2>2, LenProperties DEF Queue
<1>4. /\ queue[i].kind = "list" /\ queue[i].phase = "answered" /\ i \in MadeLists(queue)
      /\ rows'[p] = queue[i].seen /\ behind'[p] = queue[i].stale
      /\ calls'[p] = RemoveAt(now, i) /\ \A d \in Clients : d # p => calls'[d] = calls[d]
      /\ UNCHANGED <<stored, readEmails, untold, events>>
  BY <1>1 DEF ListArrives, MadeLists, Made, TypeInv, PagesOK, CallsOK, serverVars
<1>5. i \in DOMAIN now /\ i \in DOMAIN queue
  BY <1>3
<1> HIDE DEF now, queue
<1> DEFINE left == calls'[p]
<1>6. ASSUME NEW k \in DOMAIN queue, k # i
      PROVE  After(i, k) \in DOMAIN left /\ left[After(i, k)] = now[k]
  BY <1>3, <1>4, <1>5, <1>6, RemovedKeeps
<1>7. ASSUME NEW j \in DOMAIN left
      PROVE  /\ j \in Nat /\ Before(i, j) \in DOMAIN queue /\ Before(i, j) # i
             /\ left[j] = now[Before(i, j)]
  <2>1. /\ DOMAIN RemoveAt(now, i) = 1 .. Len(now) - 1
        /\ \A k \in 1 .. Len(now) - 1 :
             /\ Before(i, k) \in DOMAIN now /\ Before(i, k) # i
             /\ RemoveAt(now, i)[k] = now[Before(i, k)]
    BY <1>3, <1>5, Removed
  <2>2. j \in 1 .. Len(now) - 1
    BY <1>4, <1>7, <2>1
  <2>3. QED
    BY <1>3, <1>4, <2>1, <2>2
<1>8. ASSUME Coming(p, calls, events, untold)
      PROVE  Fresh(p)'
  <2>1. CASE Tells(calls)
    BY <2>1, ListTells DEF Fresh, Coming
  <2>2. ASSUME NEW k \in DOMAIN calls[p], Owes(calls[p][k])
        PROVE  Fresh(p)'
    <3>1. k \in DOMAIN queue /\ Owes(queue[k])
      BY <2>2 DEF queue
    <3>2. k # i
      BY <1>4, <3>1 DEF Owes, DeleteKinds, BulkKinds
    <3>3. After(i, k) \in DOMAIN left /\ Owes(left[After(i, k)])
      BY <1>2, <1>6, <3>1, <3>2 DEF Owes
    <3>4. QED
      BY <3>3 DEF Fresh, Coming
  <2>3. CASE untold > 0 \/ events[p] > 0
    BY <1>4, <2>3 DEF Fresh, Coming
  <2>4. QED
    BY <1>8, <2>1, <2>2, <2>3 DEF Coming
<1>9. ASSUME Settled(queue, rows[p], behind[p], stored, readEmails)
      PROVE  Settled(left, rows'[p], behind'[p], stored, readEmails)
  <2>1. ASSUME NEW k \in MadeLists(queue), k # i
        PROVE  After(i, k) \in MadeLists(left)
    <3>1. k \in DOMAIN queue /\ queue[k].kind = "list" /\ Made(queue[k])
      BY <2>1 DEF MadeLists
    <3>2. QED
      BY <1>2, <1>6, <2>1, <3>1 DEF MadeLists, Made
  <2>2. ASSUME MadeLists(left) = {}
        PROVE  rows'[p] = [ids |-> stored, read |-> stored \cap readEmails] \/ behind'[p]
    <3>1. queue[i].stale \/ Shows(queue[i], stored, readEmails)
      <4>1. \A k \in MadeLists(queue) : k = i
        BY <2>1, <2>2
      <4>2. i \in Nat
        BY <1>1, <1>5
      <4>3. ~ \E k \in MadeLists(queue) : i < k
        BY <4>1, <4>2
      <4>4. QED
        BY <1>4, <1>9, <4>3 DEF Settled
    <3>2. queue[i].seen \in Rows
      BY <1>1, <1>5 DEF Requests
    <3>3. Shows(queue[i], stored, readEmails)
            => queue[i].seen = [ids |-> stored, read |-> stored \cap readEmails]
      BY <1>4, <3>2 DEF Shows, Rows
    <3>4. QED
      BY <1>4, <3>1, <3>3
  <2>3. ASSUME NEW j \in MadeLists(left)
        PROVE  \/ left[j].stale
               \/ Shows(left[j], stored, readEmails)
               \/ \E l \in MadeLists(left) : j < l
    <3> DEFINE k == Before(i, j)
    <3>1. /\ j \in DOMAIN left /\ j \in Nat /\ left[j] = now[k]
          /\ k \in DOMAIN queue /\ k # i
      BY <1>7, <2>3 DEF MadeLists
    <3>2. k \in MadeLists(queue) /\ Made(queue[k])
      BY <1>2, <2>3, <3>1 DEF MadeLists, Made
    <3>3. i \in Nat /\ k \in Nat
      BY <1>1, <1>5, <3>1
    <3>4. CASE k < i
      BY <1>2, <3>1, <3>2, <3>4
    <3>5. CASE queue[k].stale
      BY <1>2, <3>1, <3>5
    <3>6. CASE Shows(queue[k], stored, readEmails)
      BY <1>2, <3>1, <3>6 DEF Shows
    <3>7. ASSUME NEW l \in MadeLists(queue), k < l, ~(k < i)
          PROVE  \E m \in MadeLists(left) : j < m
      <4>1. l \in Nat /\ i < k
        BY <1>1, <3>1, <3>3, <3>7 DEF MadeLists
      <4>2. l # i /\ After(i, l) = l - 1 /\ j = k - 1
        BY <3>1, <3>3, <3>7, <4>1 DEF After, Before
      <4>3. j < After(i, l)
        BY <3>3, <3>7, <4>1, <4>2
      <4>4. QED
        BY <2>1, <4>2, <4>3
    <3> HIDE DEF k
    <3>8. QED
      BY <1>9, <3>2, <3>4, <3>5, <3>6, <3>7 DEF Settled
  <2>4. QED
    BY <2>2, <2>3 DEF Settled
<1>10. QED
  BY <1>4, <1>8, <1>9 DEF Fresh, queue

LEMMA PageFresh ==
  ASSUME TypeInv, NEW p \in Pages, Fresh(p), NEW c \in Pages, Page(c)
  PROVE  Fresh(p)'
<1>1. c \in Clients /\ CallsOK(calls)
  BY ClientAssumption DEF TypeInv
<1>2. CASE Connect(c)
  BY <1>2, SameKeeps, FreshKept DEF Connect, Unmoved, serverVars
<1>3. CASE Drop(c)
  <2> DEFINE pages == IF events[c] > 0 THEN {c} ELSE {}
  <2>1. Miss(pages, calls)
    BY <1>3 DEF Drop
  <2>2. CASE p \in pages
    BY <1>1, <2>1, <2>2, MissSettles
  <2>3. CASE p \notin pages
    <3>1. Keeps(p, calls') /\ behind'[p] = behind[p]
      BY <1>1, <2>1, <2>3, SameKeeps, MissKeeps
    <3>2. events'[p] = events[p]
      BY <1>3, <2>3 DEF Drop, TypeInv, PagesOK
    <3>3. QED
      BY <1>3, <3>1, <3>2, FreshKept DEF Drop, Unmoved, serverVars
  <2>4. QED
    BY <2>2, <2>3
<1>4. CASE EventArrives(c)
  <2>1. calls' = With(c, ListRequest)
    BY <1>4 DEF EventArrives, Refresh, With
  <2>2. p # c => Unmoved(p)
    BY <1>4 DEF EventArrives, Unmoved, serverVars, TypeInv, PagesOK
  <2>3. QED
    BY <2>1, <2>2, RefreshFresh
<1>5. ASSUME NEW i \in DOMAIN calls[c], ListArrives(c, i)
      PROVE  Fresh(p)'
  <2>1. CASE p = c
    BY <1>5, <2>1, ListFresh
  <2>2. CASE p # c
    <3>1. Unmoved(p)
      BY <1>5, <2>2 DEF ListArrives, Unmoved, serverVars, TypeInv, PagesOK
    <3>2. calls'[p] = calls[p]
      BY <1>1, <1>5, <2>2, ClientAssumption DEF ListArrives, TypeInv, CallsOK
    <3>3. Tells(calls) => Tells(calls')
      BY <1>5, ListTells
    <3>4. QED
      BY <3>1, <3>2, <3>3, FreshKept DEF Keeps
  <2>3. QED
    BY <2>1, <2>2
<1>6. ASSUME NEW i \in DOMAIN calls[c], ActionSucceeds(c, i)
      PROVE  Fresh(p)'
  <2>1. calls[c][i].phase = "answered" /\ calls[c][i].kind # "list" /\ Unmoved(p)
    BY <1>6 DEF ActionSucceeds, DeleteKinds, BulkKinds, Unmoved, serverVars
  <2>2. CASE calls[c][i].kind \in BulkKinds /\ calls[c][i].done = {}
    <3>1. ~Owes(calls[c][i]) /\ calls' = Without(c, i)
      BY <1>6, <2>2 DEF ActionSucceeds, Without, Owes, DeleteKinds, BulkKinds
    <3>2. QED
      BY <1>1, <2>1, <3>1, WithoutKeeps, FreshKept
  <2>3. CASE ~(calls[c][i].kind \in BulkKinds /\ calls[c][i].done = {})
    <3>1. calls' = Turned(c, i, ListRequest)
      BY <1>6, <2>3 DEF ActionSucceeds, Refresh, Turned
    <3>2. QED
      BY <2>1, <3>1, RefreshFresh
  <2>4. QED
    BY <2>2, <2>3
<1>7. ASSUME NEW i \in DOMAIN calls[c], Fails(c, i)
      PROVE  Fresh(p)'
  <2> DEFINE pages == IF calls[c][i].kind = "list" THEN {c} ELSE {}
  <2>1. Miss(pages, Without(c, i)) /\ CallsOK(Without(c, i))
    BY <1>1, <1>7, WithoutOK DEF Fails, Without
  <2>2. CASE p \in pages
    BY <2>1, <2>2, MissSettles
  <2>3. CASE p \notin pages
    <3>1. calls[c][i].phase = "failed" /\ (p = c => calls[c][i].kind # "list")
      BY <1>7, <2>3 DEF Fails
    <3>2. p = c => ~Owes(calls[c][i])
      BY <1>1, <3>1, CallFacts DEF Owes, Sound
    <3>3. Keeps(p, Without(c, i))
      BY <1>1, <3>1, <3>2, WithoutKeeps
    <3>4. Keeps(p, calls') /\ behind'[p] = behind[p]
      BY <2>1, <2>3, <3>3, MissKeeps
    <3>5. QED
      BY <1>7, <3>4, FreshKept DEF Fails, Unmoved, serverVars
  <2>4. QED
    BY <2>2, <2>3
<1>8. ASSUME NEW i \in DOMAIN calls[c], MailShown(c, i)
      PROVE  Fresh(p)'
  <2>1. /\ calls' = Without(c, i) /\ calls[c][i].phase # "tell" /\ calls[c][i].kind # "list"
        /\ ~Owes(calls[c][i]) /\ Unmoved(p)
    BY <1>8 DEF MailShown, Without, Owes, DeleteKinds, BulkKinds, Unmoved, serverVars
  <2>2. QED
    BY <1>1, <2>1, WithoutKeeps, FreshKept
<1>9. QED
  BY <1>2, <1>3, <1>4, <1>5, <1>6, <1>7, <1>8 DEF Page

LEMMA CallerFresh ==
  ASSUME TypeInv, NEW p \in Pages, Fresh(p), NEW c \in Clients \ Pages, Caller(c)
  PROVE  Fresh(p)'
<1>1. ASSUME CallerSends(c) PROVE Fresh(p)'
  BY <1>1, SendFresh DEF CallerSends, BulkKinds
<1>2. ASSUME NEW i \in DOMAIN calls[c], CallerAnswered(c, i) PROVE Fresh(p)'
  <2>1. calls' = Without(c, i) /\ calls[c][i].phase # "tell" /\ Unmoved(p)
    BY <1>2 DEF CallerAnswered, Without, Unmoved, serverVars
  <2>2. QED
    BY <2>1, WithoutKeeps, FreshKept
<1>3. QED
  BY <1>1, <1>2 DEF Caller

LEMMA ArrivalFresh ==
  ASSUME TypeInv, NEW p \in Pages, Fresh(p), MailTold \/ \E m \in Mails : MailStored(m)
  PROVE  Fresh(p)'
<1>1. ASSUME NEW m \in Mails, MailStored(m) PROVE Fresh(p)'
  <2>1. untold \in Nat /\ untold' = untold + 1
    BY <1>1, FS_CardinalityType DEF MailStored, TypeInv, ServerOK
  <2>2. untold' > 0
    BY <2>1
  <2>3. QED
    BY <2>2 DEF Fresh, Coming
<1>2. CASE MailTold
  BY <1>2, BroadcastReaches DEF MailTold, TypeInv
<1>3. QED
  BY <1>1, <1>2

\* getEmails: the page's newest list is what the server has now.
LEMMA SearchFresh ==
  ASSUME TypeInv, NEW p \in Pages, Fresh(p), NEW c \in Clients, NEW i \in DOMAIN calls[c],
         HandleSearch(c, i)
  PROVE  Fresh(p)'
<1> DEFINE call == calls[c][i]
           new  == [call EXCEPT !.phase = "found", !.seen.ids = stored]
           rest == RemoveAt(calls[c], i)
<1>1. /\ p \in Clients /\ call \in Requests /\ Queue(calls[c])
      /\ call.kind = "list" /\ call.phase = "sent" /\ Unmoved(p)
  BY ClientAssumption, CallFacts DEF TypeInv, HandleSearch, Unmoved, serverVars
<1>2. CASE calls' = Turned(c, i, new) /\ p # c
  <2>1. Tells(calls) => Tells(calls')
    BY <1>1, <1>2, TurnedTells
  <2>2. calls'[p] = calls[p]
    BY <1>1, <1>2 DEF Turned, TypeInv, CallsOK
  <2>3. QED
    BY <1>1, <2>1, <2>2, FreshKept DEF Keeps
<1>3. CASE calls' = Turned(c, i, new) /\ p = c
  <2>1. calls'[p] = Append(rest, new)
    BY <1>1, <1>3 DEF Turned, TypeInv, CallsOK
  <2>2. new.kind = "list" /\ Made(new) /\ Shows(new, stored, readEmails)
    BY <1>1 DEF Requests, Rows, Made, Shows
  <2> HIDE DEF new, rest
  <2>3. Queue(rest)
    BY <1>1, Removed DEF rest
  <2>4. /\ Len(rest) \in Nat /\ DOMAIN calls'[p] = 1 .. Len(rest) + 1
        /\ calls'[p][Len(rest) + 1] = new
    BY <2>1, <2>3, QueueFacts, Appended
  <2>5. Len(rest) + 1 \in MadeLists(calls'[p])
    BY <2>2, <2>4 DEF MadeLists
  <2>6. \A j \in MadeLists(calls'[p]) : j = Len(rest) + 1 \/ j < Len(rest) + 1
    BY <2>4 DEF MadeLists
  <2>7. Settled(calls'[p], rows'[p], behind'[p], stored, readEmails)
    BY <2>2, <2>4, <2>5, <2>6 DEF Settled
  <2>8. QED
    BY <1>1, <2>7 DEF Fresh, Unmoved
<1>4. CASE calls' = Put(c, i, [call EXCEPT !.phase = "failed"])
  <2>1. CASE p = c
    <3>1. Owes([call EXCEPT !.phase = "failed"])
      BY <1>1 DEF Owes, Requests
    <3>2. i \in DOMAIN calls'[p] /\ calls'[p][i] = [call EXCEPT !.phase = "failed"]
      BY <1>1, <1>4, <2>1 DEF Put, TypeInv, CallsOK
    <3>3. QED
      BY <3>1, <3>2 DEF Fresh, Coming
  <2>2. CASE p # c
    BY <1>1, <1>4, <2>2, PutKeeps, FreshKept
  <2>3. QED
    BY <2>1, <2>2
<1>5. QED
  BY <1>2, <1>3, <1>4 DEF HandleSearch, Turned, Put

\* getEmails: the marks are those of now, on the mails of the search.
LEMMA MarksFresh ==
  ASSUME TypeInv, NEW p \in Pages, Fresh(p), NEW c \in Clients, NEW i \in DOMAIN calls[c],
         NEW call, calls' = Put(c, i, call), Unmoved(p),
         calls[c][i].kind = "list", calls[c][i].phase = "found",
         call = [calls[c][i] EXCEPT !.phase = "answered",
                                    !.seen.read = calls[c][i].seen.ids \cap readEmails]
  PROVE  Fresh(p)'
<1>1. CASE p # c
  BY <1>1, PutKeeps, FreshKept
<1>2. CASE p = c
  <2>1. /\ calls[p][i] \in Requests
        /\ DOMAIN calls'[p] = DOMAIN calls[p] /\ calls'[p][i] = call
        /\ \A j \in DOMAIN calls[p] : j # i => calls'[p][j] = calls[p][j]
        /\ \A d \in Clients : d # p => calls'[d] = calls[d]
    BY <1>2, CallFacts DEF Put, TypeInv, CallsOK
  <2>2. /\ call.kind = "list" /\ call.phase = "answered" /\ call.stale = calls[p][i].stale
        /\ call.seen.ids = calls[p][i].seen.ids
        /\ call.seen.read = calls[p][i].seen.ids \cap readEmails
    BY <1>2, <2>1 DEF Requests, Rows
  <2>3. ~Owes(calls[p][i]) /\ calls[p][i].phase # "tell"
    BY <1>2 DEF Owes, DeleteKinds, BulkKinds
  <2>4. Tells(calls) => Tells(calls')
    <3> SUFFICES ASSUME NEW d \in Clients, NEW k \in DOMAIN calls[d], calls[d][k].phase = "tell"
                 PROVE  k \in DOMAIN calls'[d] /\ calls'[d][k].phase = "tell"
      BY DEF Tells
    <3>1. QED
      BY <2>1, <2>3
  <2>5. (\E k \in DOMAIN calls[p] : Owes(calls[p][k]))
          => \E k \in DOMAIN calls'[p] : Owes(calls'[p][k])
    BY <2>1, <2>3
  <2>6. MadeLists(calls'[p]) = MadeLists(calls[p])
    <3>1. i \in DOMAIN calls[p] /\ i \in MadeLists(calls[p]) /\ i \in MadeLists(calls'[p])
      BY <1>2, <2>1, <2>2 DEF MadeLists, Made
    <3>2. \A j : j # i => (j \in MadeLists(calls[p]) <=> j \in MadeLists(calls'[p]))
      BY <2>1 DEF MadeLists
    <3>3. QED
      BY <3>1, <3>2
  <2>7. ASSUME NEW j \in MadeLists(calls[p])
        PROVE  /\ calls[p][j].stale => calls'[p][j].stale
               /\ Shows(calls[p][j], stored, readEmails)
                    => Shows(calls'[p][j], stored, readEmails)
    <3>1. CASE j = i
      BY <2>1, <2>2, <3>1 DEF Shows
    <3>2. CASE j # i
      BY <2>1, <2>7, <3>2 DEF MadeLists
    <3>3. QED
      BY <3>1, <3>2
  <2>8. Settled(calls[p], rows[p], behind[p], stored, readEmails)
          => Settled(calls'[p], rows'[p], behind'[p], stored', readEmails')
    BY <2>6, <2>7 DEF Settled, Unmoved
  <2>9. Coming(p, calls, events, untold) => Coming(p, calls', events', untold')
    BY <2>4, <2>5 DEF Coming, Unmoved
  <2>10. QED
    BY <2>8, <2>9 DEF Fresh
<1>3. QED
  BY <1>1, <1>2

\* Every step of a handler: what it changes is told, or missed, or asked for.
LEMMA HandlerFresh ==
  ASSUME TypeInv, NEW p \in Pages, Fresh(p), NEW c \in Clients, NEW i \in DOMAIN calls[c],
         Handle(c, i)
  PROVE  Fresh(p)'
<1> DEFINE call      == calls[c][i]
           At(phase) == [call EXCEPT !.phase = phase]
<1>1. call \in Requests /\ Sound(call) /\ call \in Valid /\ p \in Clients /\ CallsOK(calls)
  BY ClientAssumption, CallFacts DEF TypeInv, Valid
<1>2. \A phase : /\ [calls EXCEPT ![c][i].phase = phase] = Put(c, i, At(phase))
                 /\ At(phase).kind = call.kind /\ At(phase).phase = phase
                 /\ At(phase).done = call.done
  BY <1>1 DEF Put, Requests
<1>3. \A new : /\ Put(c, i, new)[c][i] = new /\ i \in DOMAIN Put(c, i, new)[c]
               /\ new \in Valid => CallsOK(Put(c, i, new))
  BY <1>1, PutOK DEF Put, CallsOK
<1>4. At("answered") \in Valid
  BY <1>1 DEF Valid, Requests, Sound
<1> HIDE DEF At
\* The handler is about to tell everybody.
<1>5. ASSUME calls' = Put(c, i, At("tell"))
      PROVE  Fresh(p)'
  BY <1>2, <1>3, <1>5 DEF Fresh, Coming, Tells
\* It tells the others, and its caller waits for the answer.
<1>6. ASSUME Broadcast({c}, Put(c, i, At("answered"))),
             call.kind \in DeleteKinds \cup {"reset"}
      PROVE  Fresh(p)'
  <2>1. Owes(At("answered"))
    BY <1>2, <1>6 DEF Owes
  <2>2. QED
    BY <1>3, <1>4, <1>6, <2>1, BroadcastReaches
\* The request goes on, and no page minds.
<1>7. ASSUME NEW new, calls' = Put(c, i, new), Unmoved(p), call.phase # "tell",
             call.kind # "list", new.kind = call.kind, Owes(call) => Owes(new)
      PROVE  Fresh(p)'
  BY <1>7, PutKeeps, FreshKept
<1>8. CASE HandleMarks(c, i)
  <2> DEFINE new == [call EXCEPT !.phase = "answered",
                                 !.seen.read = call.seen.ids \cap readEmails]
  <2>1. calls' = Put(c, i, new)
    BY <1>8, MarksPut
  <2>2. Unmoved(p) /\ call.kind = "list" /\ call.phase = "found"
    BY <1>8 DEF HandleMarks, Unmoved, serverVars
  <2>3. QED
    BY <2>1, <2>2, MarksFresh
<1>9. CASE HandleDelete(c, i)
  <2>1. call.kind \in DeleteKinds /\ call.kind # "list" /\ call.kind \notin BulkKinds
    BY <1>9 DEF HandleDelete, DeleteKinds, BulkKinds
  <2>2. CASE /\ call.phase = "sent" /\ calls' = [calls EXCEPT ![c][i].phase = "failed"]
             /\ UNCHANGED <<serverVars, events, behind>>
    <3>1. ~Owes(call) /\ Unmoved(p)
      BY <1>9, <2>1, <2>2 DEF HandleDelete, Owes, Unmoved, serverVars
    <3>2. calls' = Put(c, i, At("failed")) /\ At("failed").kind = call.kind
      BY <1>2, <2>2
    <3>3. QED
      BY <1>7, <2>1, <2>2, <3>1, <3>2
  <2>3. CASE calls' = [calls EXCEPT ![c][i].phase = "tell"]
    BY <1>2, <1>5, <2>3
  <2>4. CASE Broadcast({c}, [calls EXCEPT ![c][i].phase = "answered"])
    BY <1>2, <1>6, <2>1, <2>4
  <2>5. QED
    BY <1>9, <2>2, <2>3, <2>4 DEF HandleDelete
<1>10. CASE HandleReset(c, i)
  BY <1>2, <1>5, <1>6, <1>10 DEF HandleReset
<1>11. CASE BulkDone(c, i)
  <2>1. /\ calls' = Put(c, i, At("answered")) /\ Unmoved(p) /\ call.kind \in BulkKinds
        /\ call.phase = "sent"
    BY <1>2, <1>11 DEF BulkDone, Unmoved, serverVars
  <2>2. call.kind # "list" /\ call.kind \notin DeleteKinds \cup {"reset"}
    BY <2>1 DEF BulkKinds, DeleteKinds
  <2>3. Owes(call) => Owes(At("answered"))
    BY <1>2, <2>2 DEF Owes
  <2>4. QED
    BY <1>2, <1>7, <2>1, <2>2, <2>3
<1>12. CASE HandleOpen(c, i)
  <2>1. call.kind = "open" /\ ~Owes(call)
    BY <1>12 DEF HandleOpen, Owes, DeleteKinds, BulkKinds
  <2>2. CASE /\ call.phase = "sent" /\ UNCHANGED <<readEmails, behind>>
             /\ calls' = [calls EXCEPT ![c][i].phase =
                            IF call.ids \subseteq stored THEN "found" ELSE "failed"]
    <3>1. Unmoved(p)
      BY <1>12, <2>2 DEF HandleOpen, Unmoved
    <3>2. PICK phase \in {"found", "failed"} : calls' = [calls EXCEPT ![c][i].phase = phase]
      BY <2>2
    <3>3. calls' = Put(c, i, At(phase)) /\ At(phase).kind = call.kind
      BY <1>2, <3>2
    <3>4. QED
      BY <1>7, <2>1, <2>2, <3>1, <3>3
  <2>3. CASE Miss(Pages, [calls EXCEPT ![c][i].phase = "answered"])
    BY <1>2, <1>3, <1>4, <2>3, MissSettles
  <2>4. QED
    BY <1>12, <2>2, <2>3 DEF HandleOpen
<1>13. ASSUME NEW m \in Mails, HandleBulkDelete(c, i, m) \/ HandleBulkMark(c, i, m)
       PROVE  Fresh(p)'
  <2> DEFINE idle == [call EXCEPT !.todo = @ \ {m}]
             done == [call EXCEPT !.todo = @ \ {m}, !.done = @ \cup {m}]
  <2>1. /\ call.kind \in BulkKinds /\ call.kind # "list"
        /\ call.kind \notin DeleteKinds \cup {"reset"}
    BY <1>13 DEF HandleBulkDelete, HandleBulkMark, BulkKinds, DeleteKinds
  <2>2. /\ [calls EXCEPT ![c][i].todo = @ \ {m}] = Put(c, i, idle)
        /\ [calls EXCEPT ![c][i].todo = @ \ {m}, ![c][i].done = @ \cup {m}] = Put(c, i, done)
    BY DEF Put
  <2>3. /\ idle.kind = call.kind /\ idle.phase = call.phase /\ idle.done = call.done
        /\ done \in Valid /\ done.kind = call.kind /\ m \in done.done
    BY <1>1 DEF Valid, Requests, Sound
  <2> HIDE DEF idle, done
  <2>4. CASE Miss(Pages \ {c}, Put(c, i, done))
    <3>1. CASE p = c
      <4>1. calls'[p] = Put(c, i, done)[p]
        BY <1>3, <2>3, <2>4, <3>1, MissPasses
      <4>2. Owes(done)
        BY <2>1, <2>3 DEF Owes
      <4>3. QED
        BY <1>3, <3>1, <4>1, <4>2 DEF Fresh, Coming
    <3>2. CASE p # c
      BY <1>3, <2>3, <2>4, <3>2, MissSettles
    <3>3. QED
      BY <3>1, <3>2
  <2>5. CASE HandleBulkDelete(c, i, m) /\ m \notin stored
    <3>1. calls' = Put(c, i, idle) /\ Unmoved(p)
      BY <2>2, <2>5 DEF HandleBulkDelete, Unmoved
    <3>2. call.phase # "tell"
      BY <1>1, <2>1 DEF Sound
    <3>3. Owes(call) => Owes(idle)
      BY <2>1, <2>3 DEF Owes
    <3>4. QED
      BY <1>7, <2>1, <2>3, <3>1, <3>2, <3>3
  <2>6. QED
    BY <1>13, <2>2, <2>4, <2>5 DEF HandleBulkDelete, HandleBulkMark
<1>14. QED
  BY <1>8, <1>9, <1>10, <1>11, <1>12, <1>13, SearchFresh DEF Handle

LEMMA FreshNext == TypeInv /\ FreshInv /\ [Next]_vars => FreshInv'
<1> SUFFICES ASSUME TypeInv, FreshInv, [Next]_vars, NEW p \in Pages PROVE Fresh(p)'
  BY DEF FreshInv
<1>1. Fresh(p)
  BY DEF FreshInv
<1>2. UNCHANGED vars => Fresh(p)'
  BY <1>1, SameKeeps, FreshKept DEF vars, serverVars, Unmoved
<1>3. QED
  BY <1>1, <1>2, UserFresh, PageFresh, CallerFresh, ArrivalFresh, HandlerFresh DEF Next

\* A page at rest shows the mails and the marks the server has, unless it missed
\* something that it was never told of, for any mails, pages and callers: whatever
\* order answers and events come in, and whatever fails or is lost on the way.
THEOREM ListIsCurrentHolds == Spec => []ListIsCurrent
<1>1. TypeInv /\ FreshInv => ListIsCurrent
  <2> SUFFICES ASSUME TypeInv, FreshInv, NEW p \in Pages, Quiet(p)
               PROVE  rows[p] = Listing \/ behind[p]
    BY DEF ListIsCurrent
  <2>1. calls[p] = <<>> /\ DOMAIN calls[p] = {}
    BY DEF Quiet
  <2>2. ~Tells(calls) /\ ~(untold > 0) /\ ~(events[p] > 0)
    BY DEF Quiet, Tells
  <2>3. Settled(calls[p], rows[p], behind[p], stored, readEmails)
    BY <2>1, <2>2 DEF FreshInv, Fresh, Coming
  <2>4. MadeLists(calls[p]) = {}
    BY <2>1 DEF MadeLists
  <2>5. QED
    BY <2>3, <2>4 DEF Settled, Listing
<1>2. Init => TypeInv /\ FreshInv
  BY TypeInvInitially, FreshInitially
<1>3. TypeInv /\ FreshInv /\ [Next]_vars => (TypeInv /\ FreshInv)'
  BY TypeInvNext, FreshNext
<1>4. QED
  BY <1>1, <1>2, <1>3, PTL DEF Spec
=============================================================================
