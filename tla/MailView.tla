------------------------------- MODULE MailView -------------------------------
(***************************************************************************)
(* A mail on the screen of the web client: its header, its attachments, its *)
(* tabs and the panel below them. Each part is asked for by a request of    *)
(* its own, answers come in any order, and any of them may be an error: the *)
(* mail may be gone, or the version listed without a body.                  *)
(*                                                                          *)
(* An answer is known by the mail and the tab it is for. The address        *)
(* follows what is shown; a change of it by the page itself routes nowhere. *)
(*                                                                          *)
(* Source: http/static/script.js, http/httpd.go                             *)
(***************************************************************************)
EXTENDS Integers, Sequences, SequencesExt

CONSTANTS
  ViewedMails,    \* mails in the list
  BodyVersions,   \* BodyVersions[m]: the versions the list says m has
  NoMail,
  RoutedTabs,     \* tabs an address may name; "none" is there for the best one
  ViewCalls,      \* bound: requests under way when one is sent
  ViewActs        \* bound: clicks and addresses

ASSUME ViewAssumption ==
  /\ NoMail \notin ViewedMails
  /\ \A m \in ViewedMails : "raw" \in BodyVersions[m]
  /\ ViewCalls \in Nat /\ ViewActs \in Nat

VARIABLES
  screen,         \* "list" or "view"
  currentEmailId,
  header,         \* the mail the header, and the tabs, are of
  active,         \* the tab that is active
  links,          \* the mail the links to attachments are of
  panels,         \* panels[p]: the mail and the tab the text in it is of
  visible,        \* the panels that are not hidden
  viewCalls,      \* requests under way, in the order they were sent
  timers          \* tabs to be clicked 200 ms after a mail was opened for them

\* What the properties look back at. No code reads these.
VARIABLES
  told,           \* told[k]: answers of kind k since one of that kind was last
                  \*          asked for
  viewed          \* clicks and addresses so far

partVars == <<header, active, links, panels, visible, told>>
viewVars == <<screen, currentEmailId, partVars, viewCalls, timers, viewed>>

Panels    == {"content", "headers", "mime-tree"}
Tabs(m)   == BodyVersions[m] \cup {"headers", "mime-tree"}
PanelOf(tab) == IF tab \in Panels THEN tab ELSE "content"

PickBest(versions) ==
  IF "html" \in versions THEN "html"
  ELSE IF "watch-html" \in versions THEN "watch-html"
  ELSE IF "plain-text" \in versions THEN "plain-text"
  ELSE "raw"

Nowhere == [mail |-> NoMail, tab |-> "none"]

\* old: one of its kind was asked for after it.
Call(kind, m, tab) == [kind |-> kind, mail |-> m, tab |-> tab, old |-> FALSE]

\* rest and then new, which outdates what rest has of its kind.
AskedBehind(rest, new) ==
  Append([i \in DOMAIN rest |-> [rest[i] EXCEPT !.old = @ \/ rest[i].kind = new.kind]], new)

Others(i) == RemoveAt(viewCalls, i)

ViewInit ==
  /\ screen = "list" /\ currentEmailId = NoMail /\ header = NoMail /\ active = "none"
  /\ links = NoMail /\ panels = [p \in Panels |-> Nowhere] /\ visible = {"content"}
  /\ viewCalls = <<>> /\ timers = {}
  /\ told = [attachments |-> <<>>, panel |-> <<>>] /\ viewed = 0

-----------------------------------------------------------------------------
(* Parts of the actions. rest: the requests that are still under way. *)

\* updateEmailContent: header and tabs at once, the rest when it comes.
UpdateEmailContent(m, rest) ==
  LET best == PickBest(BodyVersions[m]) IN
  /\ currentEmailId' = m /\ header' = m /\ active' = best
  /\ viewCalls' = AskedBehind(AskedBehind(rest, Call("attachments", m, "none")),
                              Call("panel", m, best))
  /\ told' = [attachments |-> <<>>, panel |-> <<>>]
  /\ UNCHANGED <<links, panels, visible>>

\* A mistake for the checks: the tree stays when the headers are asked for.
HiddenForKeepsTree(tab) ==
  CASE tab = "headers" -> {"content"} [] tab = "mime-tree" -> {"content", "headers"}
    [] OTHER -> {"headers", "mime-tree"}

\* What is hidden when a tab is clicked, before its answer is there.
HiddenFor(tab) ==
  CASE tab = "headers"   -> {"content", "mime-tree"}
    [] tab = "mime-tree" -> {"content", "headers"}
    [] OTHER             -> {"headers", "mime-tree"}

\* The click of a tab that is not the active one: of that, nothing comes.
ClickTab(tab) ==
  /\ active' = tab
  /\ visible' = (visible \ HiddenFor(tab)) \cup (IF PanelOf(tab) = "content" THEN {"content"} ELSE {})
  /\ viewCalls' = AskedBehind(viewCalls, Call("panel", header, tab))
  /\ told' = [told EXCEPT !.panel = <<>>]
  /\ UNCHANGED <<header, links, panels>>

-----------------------------------------------------------------------------
(* The user *)

Clicks == viewed < ViewActs /\ viewed' = viewed + 1 /\ Len(viewCalls) < ViewCalls

OpenRow(m) ==
  /\ screen = "list" /\ Clicks
  /\ UpdateEmailContent(m, viewCalls) /\ screen' = "view"
  /\ UNCHANGED timers

\* #/email/m/tab, from the address bar, a bookmark or the history.
Route(m, tab) ==
  /\ Clicks
  /\ viewCalls' = AskedBehind(viewCalls, Call("mail", m, tab))
  /\ UNCHANGED <<screen, currentEmailId, partVars, timers>>

UserClicksTab(tab) ==
  /\ screen = "view" /\ tab \in Tabs(header) \ {active} /\ Clicks
  /\ ClickTab(tab)
  /\ UNCHANGED <<screen, currentEmailId, timers>>

BackToList ==
  /\ screen = "view" /\ Clicks /\ screen' = "list"
  /\ UNCHANGED <<currentEmailId, partVars, viewCalls, timers>>

DeleteViewed ==
  /\ screen = "view" /\ currentEmailId # NoMail /\ Clicks
  /\ viewCalls' = AskedBehind(viewCalls, Call("delete", currentEmailId, "none"))
  /\ currentEmailId' = NoMail
  /\ UNCHANGED <<screen, partVars, timers>>

DeleteRow(m) ==
  /\ screen = "list" /\ Clicks
  /\ viewCalls' = AskedBehind(viewCalls, Call("delete", m, "none"))
  /\ UNCHANGED <<screen, currentEmailId, partVars, timers>>

-----------------------------------------------------------------------------
(* The answers *)

\* The success callback of routeFromHash.
MailArrives(i) ==
  LET call == viewCalls[i] IN
  /\ call.kind = "mail"
  /\ UpdateEmailContent(call.mail, Others(i)) /\ screen' = "view"
  /\ timers' = timers \cup ({call.tab} \ {"none"})
  /\ UNCHANGED viewed

\* The tab is looked up when its time has come, in whatever mail is there by then.
TimerFires(tab) ==
  /\ tab \in timers /\ timers' = timers \ {tab}
  /\ IF tab \in Tabs(header) \ {active} THEN ClickTab(tab)
     ELSE UNCHANGED <<partVars, viewCalls>>
  /\ UNCHANGED <<screen, currentEmailId, viewed>>

AttachmentsArrive(i) ==
  LET call == viewCalls[i] IN
  /\ call.kind = "attachments"
  /\ links' = call.mail
  /\ viewCalls' = Others(i)
  /\ told' = [told EXCEPT !.attachments = Append(@, call)]
  /\ UNCHANGED <<screen, currentEmailId, header, active, panels, visible, timers, viewed>>

\* renderEmailBody hides the other panels again, those of headers and tree do not.
PanelArrives(i) ==
  LET call == viewCalls[i]
      p    == PanelOf(call.tab)
  IN
  /\ call.kind = "panel"
  /\ panels' = [panels EXCEPT ![p] = [mail |-> call.mail, tab |-> call.tab]]
  /\ visible' = IF p = "content" THEN {p} ELSE visible \cup {p}
  /\ viewCalls' = Others(i)
  /\ told' = [told EXCEPT !.panel = Append(@, call)]
  /\ UNCHANGED <<screen, currentEmailId, header, active, links, timers, viewed>>

\* The list comes back, whatever is on the screen by then.
Deleted(i) ==
  /\ viewCalls[i].kind = "delete"
  /\ viewCalls' = Others(i) /\ screen' = "list"
  /\ UNCHANGED <<currentEmailId, partVars, timers, viewed>>

\* Only the route has something to do after an error: navigateToList.
CallFails(i) ==
  /\ viewCalls' = Others(i)
  /\ screen' = IF viewCalls[i].kind = "mail" THEN "list" ELSE screen
  /\ UNCHANGED <<currentEmailId, partVars, timers, viewed>>

-----------------------------------------------------------------------------
ViewNext ==
  \/ \E m \in ViewedMails :
       \/ OpenRow(m) \/ DeleteRow(m)
       \/ \E tab \in RoutedTabs : Route(m, tab)
  \/ screen = "view" /\ \E tab \in Tabs(header) : UserClicksTab(tab)
  \/ BackToList \/ DeleteViewed
  \/ \E i \in DOMAIN viewCalls :
       MailArrives(i) \/ AttachmentsArrive(i) \/ PanelArrives(i) \/ Deleted(i) \/ CallFails(i)
  \/ \E tab \in timers : TimerFires(tab)

ViewSpec == ViewInit /\ [][ViewNext]_viewVars
=============================================================================
