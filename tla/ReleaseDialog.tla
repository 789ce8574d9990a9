---------------------------- MODULE ReleaseDialog ----------------------------
(***************************************************************************)
(* The dialog that releases one mail or the selected ones. There is one     *)
(* dialog and one button in it: who opens it asks the server for addresses  *)
(* and relays first, and its answer fills the fields and says what the      *)
(* button does. Nothing else on the page can be clicked while it is open;   *)
(* answers and events go on arriving.                                       *)
(*                                                                          *)
(* Source: http/static/script.js, http/httpd.go                             *)
(***************************************************************************)
EXTENDS Integers, Sequences, SequencesExt

CONSTANTS
  ReleaseMails,   \* mails in the list
  ReleaseCalls,   \* bound: requests under way
  ReleaseActs     \* bound: clicks that send a request

VARIABLES
  selection,      \* selectedEmailIds: a Set, in the order of the ticks
  dialog,         \* what it shows, and what its button does
  releases,       \* requests under way
  released        \* clicks so far

releaseVars == <<selection, dialog, releases, released>>

\* emailId: the mail it names, or the number of mails; addresses: the mail whose
\* sender and recipients it offers; bulk: what its button does. counted: the
\* selection at that time, which no code reads.
Dialog(emailId, m, bulk, counted) ==
  [open |-> TRUE, emailId |-> emailId, addresses |-> m, bulk |-> bulk, counted |-> counted]

\* ids: the mails to release, or the one to ask the addresses of; shown: the
\* dialog whose button sent it, which no code reads.
Release(kind, ids, m, shown) ==
  [kind |-> kind, ids |-> ids, addresses |-> m, shown |-> shown]

\* As the page loads: closed, and empty, with the button of a single mail.
NoDialog == [open |-> FALSE, emailId |-> 0, addresses |-> 0, bulk |-> FALSE, counted |-> <<>>]

ReleaseInit ==
  selection = <<>> /\ dialog = NoDialog /\ releases = <<>> /\ released = 0

\* A request, with what it says of the mails.
SendRelease(kind, ids, m, shown) ==
  /\ released < ReleaseActs /\ released' = released + 1
  /\ Len(releases) < ReleaseCalls
  /\ releases' = Append(releases, Release(kind, ids, m, shown))

Over(i) == releases' = RemoveAt(releases, i)

-----------------------------------------------------------------------------
(* The list *)

TickRow(m) ==
  /\ ~dialog.open
  /\ selection' = IF Contains(selection, m) THEN Remove(selection, m)
                                            ELSE Append(selection, m)
  /\ UNCHANGED <<dialog, releases, released>>

\* clearSelection, by an event or an answer that has the list refreshed.
ListRefreshes ==
  /\ selection # <<>> /\ selection' = <<>>
  /\ UNCHANGED <<dialog, releases, released>>

-----------------------------------------------------------------------------
(* Opening the dialog *)

\* displayReleaseModal, from a row or from the view of a mail.
OpenForOne(m) ==
  /\ ~dialog.open
  /\ SendRelease("one", <<m>>, m, NoDialog)
  /\ UNCHANGED <<selection, dialog>>

\* #bulk-release: the addresses offered are those of the first mail selected.
OpenForSelection ==
  /\ ~dialog.open /\ selection # <<>>
  /\ SendRelease("selection", selection, Head(selection), NoDialog)
  /\ UNCHANGED <<selection, dialog>>

\* A mistake for the checks: the button does what the last dialog made it do.
OneArrivesUnbound(i) ==
  LET call == releases[i] IN
  /\ call.kind = "one"
  /\ dialog' = Dialog(call.addresses, call.addresses, dialog.bulk, dialog.counted)
  /\ Over(i)
  /\ UNCHANGED <<selection, released>>

OneArrives(i) ==
  LET call == releases[i] IN
  /\ call.kind = "one"
  /\ dialog' = Dialog(call.addresses, call.addresses, FALSE, <<>>)
  /\ Over(i)
  /\ UNCHANGED <<selection, released>>

\* The mails are counted now: they need not be those of the click.
SelectionArrives(i) ==
  LET call == releases[i] IN
  /\ call.kind = "selection"
  /\ dialog' = Dialog(Len(selection), call.addresses, TRUE, selection)
  /\ Over(i)
  /\ UNCHANGED <<selection, released>>

-----------------------------------------------------------------------------
(* Releasing *)

\* bindSingleReleaseHandler
ReleaseOne ==
  /\ dialog.open /\ ~dialog.bulk
  /\ SendRelease("relay", <<dialog.emailId>>, dialog.addresses, dialog)
  /\ UNCHANGED <<selection, dialog>>

\* The mails are those that are selected now.
ReleaseSelection ==
  /\ dialog.open /\ dialog.bulk
  /\ SendRelease("bulk-relay", selection, dialog.addresses, dialog)
  /\ UNCHANGED <<selection, dialog>>

\* Whatever dialog is open by then is closed. When none of the mails could be
\* relayed, succeeded is null and the callback ends at its first line.
Relayed(i) ==
  LET call == releases[i] IN
  /\ call.kind \in {"relay", "bulk-relay"}
  /\ \/ /\ dialog' = [dialog EXCEPT !.open = FALSE]
        /\ selection' = IF call.kind = "relay" THEN selection ELSE <<>>
        /\ call.ids # <<>>
     \/ /\ call.kind = "bulk-relay"
        /\ UNCHANGED <<selection, dialog>>
  /\ Over(i)
  /\ UNCHANGED released

\* An error is shown, and the dialog stays as it is.
ReleaseFails(i) == Over(i) /\ UNCHANGED <<selection, dialog, released>>

CloseDialog ==
  /\ dialog.open /\ dialog' = [dialog EXCEPT !.open = FALSE]
  /\ UNCHANGED <<selection, releases, released>>

-----------------------------------------------------------------------------
ReleaseNext ==
  \/ \E m \in ReleaseMails : TickRow(m) \/ OpenForOne(m)
  \/ ListRefreshes \/ OpenForSelection
  \/ \E i \in DOMAIN releases :
       OneArrives(i) \/ SelectionArrives(i) \/ Relayed(i) \/ ReleaseFails(i)
  \/ ReleaseOne \/ ReleaseSelection \/ CloseDialog

ReleaseSpec == ReleaseInit /\ [][ReleaseNext]_releaseVars
=============================================================================
