------------------------------ MODULE MimeTree ------------------------------
(***************************************************************************)
(* How a mail is taken apart, and what is read off the result: bodies,      *)
(* preview, attachments, parts with a content id.                           *)
(*                                                                          *)
(* A mail is a tree of multiparts and leaves. It is kept as the sequence of *)
(* its nodes in the order of their headers in the mail, which is the order  *)
(* parseMail meets them in and walkNodes visits them in; `up' is the        *)
(* position of the multipart a node is part of, 0 for the root. A walk is   *)
(* one pass over the positions; the visit of a node is a function of what   *)
(* the walk has found so far. A visit that answers stopWalk ends it for the *)
(* whole mail.                                                              *)
(*                                                                          *)
(* What matters of a header is the media type mime.ParseMediaType finds,    *)
(* the text type the raw value begins with (in the case it is written in),  *)
(* whether the part is an attachment, and the content id. What matters of a *)
(* body is whether it has bytes ("none" if not) and decodes to more than    *)
(* the empty string ("text", or else "empty"), the words that stand in it   *)
(* after decoding, and the words that are left once stripHTMLTags has taken *)
(* out its tags and decoded its entities. One of blanks, or of tags that    *)
(* leave nothing, is a "text" all the same.                                 *)
(*                                                                          *)
(* Source: storage/multipart/, http/static/script.js                        *)
(***************************************************************************)
EXTENDS Naturals, Sequences, SequencesExt, FiniteSets, FiniteSetsExt

CONSTANTS
  Headers,        \* what the header of a part, and its body, may be
  MaxNodes        \* bound: parts of a mail, the root included

ASSUME MimeAssumption ==
  /\ Headers \subseteq [media : STRING, begins : STRING, disposition : STRING,
                       cid : STRING, body : {"none", "empty", "text"},
                       words : {h.words : h \in Headers},
                       shown : {h.shown : h \in Headers}]
  /\ MaxNodes \in Nat

VARIABLES
  nodes,          \* the tree so far
  open,           \* the multiparts being read, the innermost last: the
                  \* recursion of parseMail
  outcome         \* "reading", "parsed" or "failed"

mimeVars == <<nodes, open, outcome>>

Alternative == "multipart/alternative"
Multiparts  == {Alternative, "multipart/mixed"}

\* The kinds of body a reader can ask for, and the media type of each.
Versions == {"plain-text", "html", "watch-html"}
MediaOf(version) ==
  CASE version = "plain-text" -> "text/plain"
    [] version = "html"       -> "text/html"
    [] version = "watch-html" -> "text/watch-html"

IsMultipart(n)  == n.media \in Multiparts
IsLeaf(n)       == ~IsMultipart(n)
IsAttachment(n) == n.disposition = "attachment"

\* isPlainText, isHTML, isWatchHTML: a test of the raw header.
Spells(n, version) == n.begins = MediaOf(version)

Least(S) == IF S = {} THEN 0 ELSE Min(S)

-----------------------------------------------------------------------------
(* parseMail                                                                *)

\* A Content-Type that is absent is written into the header.
Defaulted(h) ==
  IF h.media = "absent"
  THEN [h EXCEPT !.media = "text/plain", !.begins = "text/plain"]
  ELSE h

Node(h) == [media |-> h.media, begins |-> h.begins, disposition |-> h.disposition,
            cid |-> h.cid, body |-> h.body, words |-> h.words, shown |-> h.shown,
            up |-> IF open = <<>> THEN 0 ELSE Last(open)]

Reads == outcome = "reading" /\ (nodes = <<>> \/ open # <<>>)

ReadLeaf(h) ==
  /\ Reads /\ Len(nodes) < MaxNodes
  /\ h.media \notin Multiparts \cup {"malformed"}
  /\ nodes' = Append(nodes, Node(Defaulted(h)))
  /\ outcome' = IF open = <<>> THEN "parsed" ELSE "reading"
  /\ UNCHANGED open

ReadMultipart(h) ==
  /\ Reads /\ Len(nodes) < MaxNodes
  /\ h.media \in Multiparts
  /\ nodes' = Append(nodes, Node(h))
  /\ open' = Append(open, Len(nodes) + 1)
  /\ UNCHANGED outcome

\* NextPart meets the closing boundary; the caller goes on with its next part.
EndOfParts ==
  /\ outcome = "reading" /\ open # <<>>
  /\ open' = Front(open)
  /\ outcome' = IF Len(open) = 1 THEN "parsed" ELSE "reading"
  /\ UNCHANGED nodes

\* A media type that does not parse, or a multipart the mail breaks off in:
\* the error goes up through every call, and nothing of the mail is kept.
ParseFails ==
  /\ Reads
  /\ \/ \E h \in Headers : h.media = "malformed"
     \/ open # <<>>
  /\ outcome' = "failed"
  /\ nodes' = <<>> /\ open' = <<>>

MimeInit == nodes = <<>> /\ open = <<>> /\ outcome = "reading"

MimeNext ==
  \/ \E h \in Headers : ReadLeaf(h) \/ ReadMultipart(h)
  \/ EndOfParts
  \/ ParseFails

-----------------------------------------------------------------------------
(* The operators below take a tree t, the nodes of a mail.                  *)

\* What the visits to the nodes in turn make of what the walk begins with.
WalkNodes(start, visit) ==
  LET walked[i \in 0 .. Len(visit)] ==
        IF i = 0 THEN start ELSE visit[i][walked[i - 1]]
  IN  walked[Len(visit)]

-----------------------------------------------------------------------------
(* Attachments                                                              *)

AttachedAt(t, i) == IsLeaf(t[i]) /\ IsAttachment(t[i])

HasAttachments(t) == \E i \in DOMAIN t : AttachedAt(t, i)

\* Positions of the attachments by number; the numbers are the ids in the API.
GetAttachments(t) ==
  LET visit == [i \in DOMAIN t |-> [found \in Seq(DOMAIN t) |->
                  IF AttachedAt(t, i) THEN Append(found, i) ELSE found]]
      inOrder == WalkNodes(<<>>, visit)
  IN  [id \in 0 .. Len(inOrder) - 1 |-> inOrder[id + 1]]

\* A mistake for the checks: the number moves on with every leaf.
GetAttachmentCountsLeaves(t, wanted) ==
  LET visit == [i \in DOMAIN t |-> [walk \in [id : Nat, found : 0 .. Len(t)] |->
        IF walk.found # 0 \/ ~IsLeaf(t[i]) THEN walk
        ELSE IF AttachedAt(t, i) /\ walk.id = wanted THEN [walk EXCEPT !.found = i]
        ELSE [walk EXCEPT !.id = @ + 1]]]
  IN  WalkNodes([id |-> 0, found |-> 0], visit).found

\* The position of the attachment with that number, 0 if there is none.
GetAttachment(t, wanted) ==
  LET visit == [i \in DOMAIN t |-> [walk \in [id : Nat, found : 0 .. Len(t)] |->
        IF walk.found # 0 \/ ~AttachedAt(t, i) THEN walk
        ELSE IF walk.id = wanted THEN [walk EXCEPT !.found = i]
        ELSE [walk EXCEPT !.id = @ + 1]]]
  IN  WalkNodes([id |-> 0, found |-> 0], visit).found

-----------------------------------------------------------------------------
(* Bodies                                                                   *)

InlineLeaf(t, i) == IsLeaf(t[i]) /\ ~IsAttachment(t[i])

\* The versions the header of the mail lists (and "raw", always there).
GetBodyVersions(t) ==
  {v \in Versions : \E i \in DOMAIN t : InlineLeaf(t, i) /\ Spells(t[i], v)}

\* A mistake for the checks: attachments count as parts of an alternative.
DirectPartAnyDisposition(t, a, version) ==
  Least({i \in DOMAIN t : t[i].up = a /\ IsLeaf(t[i]) /\ Spells(t[i], version)})

\* The first part of multipart a, itself and not nested deeper, of that kind.
DirectPart(t, a, version) ==
  Least({i \in DOMAIN t : t[i].up = a /\ InlineLeaf(t, i) /\ Spells(t[i], version)})

\* What the visit of node i takes as the body of that version, 0 for nothing.
BodyAt(t, version, i) ==
  CASE t[i].media = Alternative -> DirectPart(t, i, version)
    [] InlineLeaf(t, i) /\ IF version = "watch-html"
                           THEN Spells(t[i], version)
                           ELSE t[i].media = MediaOf(version) -> i
    [] OTHER -> 0

\* An alternative that has text of its own ends the walk, whatever was asked for.
Settles(t, i) ==
  t[i].media = Alternative /\ \E v \in Versions : DirectPart(t, i, v) # 0

\* A mistake for the checks: only the first text of the mail is looked at.
GetBodyFirstText(t, version) ==
  LET at == Least({i \in DOMAIN t : \E v \in Versions : BodyAt(t, v, i) # 0})
  IN  IF at = 0 THEN 0 ELSE BodyAt(t, version, at)

\* The leaf whose text is the body of that version; 0 is the empty answer.
GetBody(t, version) ==
  LET stop  == Least({i \in DOMAIN t : BodyAt(t, version, i) # 0 \/ Settles(t, i)})
      taken == IF stop = 0 THEN 0 ELSE BodyAt(t, version, stop)
  IN  IF taken = 0 /\ InlineLeaf(t, 1) /\ Spells(t[1], version) THEN 1 ELSE taken

-----------------------------------------------------------------------------
(* The preview in the list of mails                                         *)

PreviewWalks(t) == [plain : 0 .. Len(t), html : 0 .. Len(t), stopped : BOOLEAN]

InAlternative(t, i) == t[i].up # 0 /\ t[t[i].up].media = Alternative

\* A mistake for the checks: the walk stops in an alternative at any text.
PreviewLeafStopsAtHtml(t) ==
  LET visit == [i \in DOMAIN t |-> [walk \in PreviewWalks(t) |->
        IF walk.stopped \/ ~InlineLeaf(t, i) \/ t[i].body # "text" THEN walk
        ELSE LET next == CASE Spells(t[i], "plain-text") /\ walk.plain = 0
                                -> [walk EXCEPT !.plain = i]
                           [] Spells(t[i], "html") /\ walk.plain = 0 /\ walk.html = 0
                                -> [walk EXCEPT !.html = i]
                           [] OTHER -> walk
             IN  [next EXCEPT !.stopped = InAlternative(t, i) /\ next # walk]]]
      walked == WalkNodes([plain |-> 0, html |-> 0, stopped |-> FALSE], visit)
  IN  IF walked.plain # 0 THEN walked.plain ELSE walked.html

\* What a visit takes as the preview: the first plain text, until then the first
\* HTML. An empty one leaves room for the next; one of blanks or of tags does not.
TakeText(t, walk, i) ==
  LET taken == IF t[i].body = "text" THEN i ELSE 0 IN
  CASE IsLeaf(t[i]) /\ Spells(t[i], "plain-text") /\ walk.plain = 0 -> [walk EXCEPT !.plain = taken]
    [] /\ IsLeaf(t[i]) /\ Spells(t[i], "html") /\ walk.html = 0
       /\ InAlternative(t, i) \/ walk.plain = 0 -> [walk EXCEPT !.html = taken]
    [] OTHER -> walk

\* A text in an alternative ends the walk, at the latest at the next part of one.
VisitText(t, walk, i) ==
  IF walk.stopped \/ AttachedAt(t, i) THEN walk
  ELSE LET next == TakeText(t, walk, i)
       IN  [next EXCEPT !.stopped = InAlternative(t, i) /\ next.plain # 0]

\* The leaf the preview is cut from, 0 for none.
PreviewLeaf(t) ==
  LET visit  == [i \in DOMAIN t |-> [walk \in PreviewWalks(t) |-> VisitText(t, walk, i)]]
      walked == WalkNodes([plain |-> 0, html |-> 0, stopped |-> FALSE], visit)
  IN  IF walked.plain # 0 THEN walked.plain ELSE walked.html

\* The words a preview has of a text: stripHTMLTags for HTML, any other as it is.
Displayed(n) == IF Spells(n, "html") THEN n.shown ELSE n.words

\* The preview, as the set of its words.
GetPreview(t) == IF PreviewLeaf(t) = 0 THEN {} ELSE Displayed(t[PreviewLeaf(t)])

-----------------------------------------------------------------------------
(* Parts by content id, and the links in the tree the browser draws         *)

HasCID(t, i, cid) == IsLeaf(t[i]) /\ t[i].cid = cid

\* A mistake for the checks: attachments are not looked at.
GetPartByCIDInline(t, cid) ==
  Least({i \in DOMAIN t : HasCID(t, i, cid) /\ ~IsAttachment(t[i])})

GetPartByCID(t, cid) == Least({i \in DOMAIN t : HasCID(t, i, cid)})

\* The content ids with a link to /cid/.
CIDLinks(t) ==
  {t[i].cid : i \in {j \in DOMAIN t : IsLeaf(t[j]) /\ t[j].body # "none"}} \ {"none"}

\* The tabs that a "view" link in the tree switches to.
ViewLinks(t) ==
  {v \in Versions : \E i \in DOMAIN t :
     InlineLeaf(t, i) /\ t[i].body # "none" /\ Spells(t[i], v) /\ t[i].media = MediaOf(v)}

\* The tab that opens with a mail.
PickBestBodyVersion(listed) ==
  IF "html" \in listed THEN "html"
  ELSE IF "watch-html" \in listed THEN "watch-html"
  ELSE IF "plain-text" \in listed THEN "plain-text"
  ELSE "raw"
=============================================================================
