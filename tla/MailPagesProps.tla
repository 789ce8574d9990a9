--------------------------- MODULE MailPagesProps ---------------------------
(* What a user who turns the pages of the list may rely on. *)
EXTENDS MailPages

\* A page whose end is a number the server can count to.
Fits(page) == page >= 1 /\ page * PageSize <= MaxInt

\* Nothing is under way, the last request did not fail, and the answer on the
\* screen is no older than one that was there before.
Settled == asked = <<>> /\ unheard = 0 /\ ~failed /\ shown.from = latest

\* When everything has settled, the screen shows the page whose number it says,
\* cut out of the mails that are there now, and offers the next page exactly if
\* there are mails behind this one and the previous one exactly if it is not
\* the first: nobody is stranded on a page that deletions have emptied, and
\* SQLITE's count, made before its rows, is made up for by the event that came in
\* between. Except after a request that failed, after an older answer that
\* arrived behind a newer one, and for page numbers that do not fit.
PagerIsCurrent ==
  Settled /\ Fits(shown.page) =>
    /\ pageStart = shown.page
    /\ shown.next <=> shown.page * PageSize < Cardinality(Here)
    /\ shown.prev <=> shown.page > 1
    /\ \E list \in ReadNow :
         shown.rows = SubSeq(list, (shown.page - 1) * PageSize + 1,
                             Lesser(shown.page * PageSize, Len(list)))

\* Whoever turns the pages one by one from the first to the last meets every mail
\* that was there from the start and still is, whatever arrives meanwhile; and
\* whatever is deleted, as long as the page on the screen was drawn again
\* before it was turned.
WalkMissesNone ==
  Settled /\ walk.whole /\ Fits(shown.page) /\ ~shown.next =>
    walk.there \ gone \subseteq walk.met
=============================================================================
