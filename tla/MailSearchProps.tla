--------------------------- MODULE MailSearchProps ---------------------------
(* What a reader of mails, and somebody who looks for one, may rely on. *)
EXTENDS MailSearch

Parsed == outcome = "parsed"

\* Every attachment is listed once, under a number by which exactly it can be
\* downloaded, no other number leads anywhere, and the paper clip in the list
\* of mails tells whether there are any (three walks over the tree that count
\* for themselves).
AttachmentsAgree ==
  Parsed =>
    LET all == GetAttachments(nodes)
    IN  /\ {all[id] : id \in DOMAIN all} = {i \in DOMAIN nodes : AttachedAt(nodes, i)}
        /\ \A id \in 0 .. MaxNodes :
             GetAttachment(nodes, id) = IF id \in DOMAIN all THEN all[id] ELSE 0
        /\ HasAttachments(nodes) <=> DOMAIN all # {}

\* Where a part is met: with the alternative it is a part of, or by itself.
MetAt(t, i) ==
  IF InAlternative(t, i) THEN t[i].up ELSE i

\* What keeps the body of that version from a reader: an alternative that has
\* text of its own, but not that one, and is met before every part that has it.
Hidden(t, version) ==
  \E a \in DOMAIN t :
    /\ Settles(t, a) /\ DirectPart(t, a, version) = 0
    /\ \A i \in DOMAIN t : InlineLeaf(t, i) /\ Spells(t[i], version) => a < MetAt(t, i)

\* A header written in the way mail programs write it: the raw value begins
\* with the media type, in lower case and with nothing behind it but parameters.
Usual(n) ==
  \A v \in Versions : n.media = MediaOf(v) <=> Spells(n, v)

\* A body is never an attachment and always of the kind that was asked for; and
\* every tab the mail is listed with has one, except one that is Hidden. That
\* exception is real: in an alternative of a text and of a related part that
\* holds the HTML and its images, the HTML is listed and never shown.
TabsHaveBodies ==
  Parsed /\ (\A i \in DOMAIN nodes : Usual(nodes[i])) =>
    \A v \in Versions :
      LET leaf == GetBody(nodes, v)
      IN  /\ leaf # 0 => InlineLeaf(nodes, leaf) /\ Spells(nodes[leaf], v)
          /\ leaf # 0 <=> v \in GetBodyVersions(nodes) /\ ~Hidden(nodes, v)

\* The preview is of the first plain text of the mail that is not empty, however
\* deep it is, and of the first HTML that is not empty only if there is no such
\* text. If that one has nothing to show, as blanks or tags alone, the preview is
\* blank, whatever comes later.
PreviewIsFirstText ==
  Parsed =>
    LET texts(v) == {i \in DOMAIN nodes : InlineLeaf(nodes, i) /\ Spells(nodes[i], v)
                                          /\ nodes[i].body = "text"}
        first    == IF texts("plain-text") # {} THEN Least(texts("plain-text"))
                    ELSE Least(texts("html"))
    IN  GetPreview(nodes) = IF first = 0 THEN {} ELSE Displayed(nodes[first])

TextLeaves(t) == {i \in DOMAIN t : InlineLeaf(t, i) /\ \E v \in Versions : Spells(t[i], v)}

\* A mail whose texts are one part each of the same multipart, or its only part,
\* is shown and found as its sender would expect: each text has its tab, the tab
\* that opens first has a body, and every word of the preview that stands in that
\* body as it is previewed finds the mail. A word the preview made by decoding an
\* entity stands in no body, and need not.
SiblingsAreShown ==
  Parsed
  /\ (\A i \in DOMAIN nodes : Usual(nodes[i]))
  /\ (\A i, j \in TextLeaves(nodes) :
        nodes[i].up = nodes[j].up /\ (i # j => nodes[i].media # nodes[j].media)) =>
    /\ \A i \in TextLeaves(nodes) : \E v \in Versions : GetBody(nodes, v) = i
    /\ TextLeaves(nodes) # {} =>
         GetBody(nodes, PickBestBodyVersion(GetBodyVersions(nodes))) # 0
    /\ \A e \in Envelopes : PreviewLeaf(nodes) # 0 =>
         \A word \in GetPreview(nodes) \cap nodes[PreviewLeaf(nodes)].words :
           SaysText(nodes, e, word)

\* Every link in the tree the browser draws leads somewhere: a content id to a
\* part that has it, a text to a tab that is there.
LinksLead ==
  Parsed =>
    /\ \A cid \in CIDLinks(nodes) :
         LET i == GetPartByCID(nodes, cid) IN i # 0 /\ nodes[i].cid = cid
    /\ ViewLinks(nodes) \subseteq GetBodyVersions(nodes)

\* Typing on never adds a mail to the list, unless it completes a key that had
\* no value yet. (What the brackets allow is said first, to spare TLC the rest.)
TypingNarrows ==
  [][ \/ query' = query
      \/ Dangles(query)
      \/ \A e \in Envelopes : Found(nodes', e, query') => Found(nodes, e, query) ]_query

Spans == {p.value : p \in {q \in Pieces : q.form = "filter" /\ q.value.kind = "span"}}

\* The true length of a span as a calendar of 30 day months has it.
TrueMinutes(span) ==
  span.n * (CASE span.unit = "m" -> 1 [] span.unit = "h" -> Hour [] span.unit = "d" -> Day
              [] span.unit = "w" -> 7 * Day [] span.unit = "month" -> 30 * Day
              [] span.unit = "y" -> 365 * Day)

\* The query with one filter more.
With(key, span) == Append(query, [form |-> "filter", key |-> key, value |-> span])

\* Of two spans that time.Duration can hold, in whatever units, the longer one
\* finds fewer older mails and more newer ones, whatever else is typed, and no
\* mail is both older and newer than the same span.
AgesAreOrdered ==
  Parsed /\ Len(nodes) <= SearchNodes /\ Len(query) < MaxPieces /\ ~Dangles(query) =>
    \A e \in Envelopes :
      LET held  == {s \in Spans : IsDuration(s) /\ TrueMinutes(s) <= MaxMinutes}
          older == {s \in held : Found(nodes, e, With("older_than", s))}
          newer == {s \in held : Found(nodes, e, With("newer_than", s))}
      IN  /\ \A a, b \in held : TrueMinutes(a) <= TrueMinutes(b) =>
               /\ b \in older => a \in older
               /\ a \in newer => b \in newer
          /\ older \cap newer = {}
=============================================================================
