---------------------------- MODULE MCMailSearch ----------------------------
(***************************************************************************)
(* An instance of MailSearch for TLC, mails of up to five parts and what may *)
(* be typed to find those of one or two, and of MailPages, three mails, two  *)
(* to a page, in each of the orders and by each of the ways to search. They *)
(* share no variable, and no step is one of both.                           *)
(***************************************************************************)
EXTENDS MailSearchProps, MailPagesProps, TLC

CONSTANTS m1, m2, m3       \* mails that are listed

\* m1 and m2 were sent at the same time, and m3 before them; by the clocks of
\* their senders it was m3, m1, m2.
MCDate     == (m1 :> 2) @@ (m2 :> 2) @@ (m3 :> 1)
MCDateText == (m1 :> 2) @@ (m2 :> 1) @@ (m3 :> 3)

Text(x)     == [kind |-> "text", text |-> x]
Dated(d)    == [kind |-> "date", day |-> d]
Span(n, u)  == [kind |-> "span", n |-> n, unit |-> u]

Part(media, begins, disposition, cid, words) ==
  [media |-> media, begins |-> begins, disposition |-> disposition, cid |-> cid,
   body |-> IF words = {} THEN "empty" ELSE "text", words |-> words, shown |-> words]

\* A body of blanks; one of tags alone, with a word in one of them; one with an
\* entity, which the preview decodes.
Blank   == [Part("absent", "absent", "none", "none", {}) EXCEPT !.body = "text"]
TagOnly == [Part("text/html-report", "text/html", "none", "none", {Text("long")})
              EXCEPT !.shown = {}]
Entity  == [Part("text/html", "text/html", "none", "none", {Text("sale"), Text("don&#39;t")})
              EXCEPT !.shown = {Text("sale"), Text("don't")}]

MCHeaders == {
  Part(Alternative, Alternative, "none", "none", {}),
  Part("multipart/mixed", "multipart/mixed", "none", "none", {}),
  Part("text/plain", "text/plain", "none", "none", {Text("offer")}),
  Part("text/plain", "text/plain", "none", "none", {}),
  Blank,
  Entity,
  Part("text/watch-html", "text/watch-html", "none", "none", {Text("tick")}),
  Part("text/html", "Text/HTML", "none", "none", {Text("loud")}),
  TagOnly,
  Part("image/png", "image/png", "none", "c1", {Text("pixels")}),
  Part("text/plain", "text/plain", "attachment", "c2", {Text("secret")}),
  Part("malformed", "malformed", "none", "none", {}) }

MCNow == 1000 * Day

MCEnvelopes == {
  [from |-> Text("alice"), recipients |-> {Text("bob")}, subject |-> {Text("offer")},
   date |-> 990 * Day],
  [from |-> Text("bob"), recipients |-> {Text("alice"), Text("carol")}, subject |-> {},
   date |-> 990 * Day + 600],
  [from |-> Text("bob"), recipients |-> {Text("bob")}, subject |-> {},
   date |-> 980 * Day],
  [from |-> Empty, recipients |-> {}, subject |-> {Text("hello")}, date |-> NoDate] }

Piece(form, key, value) == [form |-> form, key |-> key, value |-> value]

MCPieces == {
  Piece("word", "none", Text("offer")),
  Piece("word", "none", Dated(990)),
  Piece("phrase", "none", Text("alice")),
  Piece("phrase", "none", Empty),
  Piece("key", "from", Empty),
  Piece("key", "before", Empty),
  Piece("key", "subject", Empty),
  Piece("filter", "from", Text("alice")),
  Piece("filter", "from", Text("bob")),
  Piece("filter", "mailbox", Text("bob")),
  Piece("filter", "has", Text("attachment")),
  Piece("filter", "after", Dated(990)),
  Piece("filter", "older_than", Span(2, "w")),
  Piece("filter", "newer_than", Span(1, "month")),
  Piece("filter", "older_than", Span(300, "y")),
  Piece("filter", "older_than", Span(1, "y")),
  Piece("filter", "newer_than", Span(7, "d")),
  Piece("filter", "newer_than", Span(40, "m")),
  Piece("filter", "older_than", Span(-1, "h")),
  Piece("filter", "other", Text("offer")) }

MCInit == Init /\ PagerInit

\* Mails are read and searched while one of the lists is as it began.
MCNext ==
  \/ PagerInit /\ searcher = "FILESYSTEM" /\ came = {} /\ Next /\ UNCHANGED pagerVars
  \/ Init /\ PagerNext /\ UNCHANGED searchVars

MCSpec == MCInit /\ [][MCNext]_<<searchVars, pagerVars>>
=============================================================================
