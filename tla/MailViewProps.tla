--------------------------- MODULE MailViewProps ---------------------------
(* What a user may rely on when reading a mail and when releasing mails. *)
EXTENDS MailView, ReleaseDialog

\* Nothing is under way.
Resting == viewCalls = <<>> /\ timers = {}

\* The panel last asked for came, after any other answer that came since it was
\* asked for; if it is not a body, whose callback hides the others, there was no
\* other.
PanelCameLast ==
  LET came == told.panel IN
  /\ came # <<>> /\ ~Last(came).old
  /\ PanelOf(active) = "content" \/ Len(came) = 1

LinksCameLast == told.attachments # <<>> /\ ~Last(told.attachments).old

\* When a mail is on the screen and nothing is under way, everything there is of
\* that mail: exactly one panel is visible, its text is of the mail in the header
\* and of the tab that is active, the links lead to that mail's attachments, and
\* the buttons act on it or, after a deletion that failed, on none. Except for a
\* part whose request failed or was overtaken by the answer to an older one.
ViewAgrees ==
  Resting /\ screen = "view" =>
    /\ currentEmailId \in {header, NoMail}
    /\ PanelCameLast =>
         /\ visible = {PanelOf(active)}
         /\ panels[PanelOf(active)] = [mail |-> header, tab |-> active]
    /\ LinksCameLast => links = header

\* What the button of the dialog sends is what the dialog shows: the one mail it
\* names, with the addresses of that mail, or the mails it counted when it was
\* filled; if the list was refreshed since, none of them. A dialog that was
\* opened for one mail never releases a selection, whichever of two answers came
\* first and whatever the button did before.
ReleasesWhatIsShown ==
  \A i \in DOMAIN releases :
    LET call == releases[i] IN
    /\ call.kind = "relay" =>
         call.ids = <<call.shown.emailId>> /\ call.addresses = call.shown.emailId
    /\ call.kind = "bulk-relay" =>
         /\ call.shown.emailId = Len(call.shown.counted)
         /\ call.ids \in {<<>>, call.shown.counted}
=============================================================================
