----------------------------- MODULE MailPages -----------------------------
(***************************************************************************)
(* The list of mails page by page: how a search cuts a page out of what it  *)
(* finds, what getEmails says about the pages before and after it, and how  *)
(* the web client turns them while mails come and go.                       *)
(*                                                                          *)
(* Mails is what the query in the search box matches. A change of the       *)
(* storage reaches the page as an event; what becomes of pages that are not *)
(* told is WebClient's matter.                                              *)
(*                                                                          *)
(* Source: storage/storage_memory.go, storage/storage_filesystem.go,        *)
(* storage/storage_sqlite.go, http/httpd.go, http/static/script.js          *)
(***************************************************************************)
EXTENDS Integers, Sequences, SequencesExt, FiniteSets

CONSTANTS
  PagedMails,     \* mails that arrive, each one once
  Date,           \* Date[m]: the time a mail says it was sent
  DateText,       \* DateText[m]: the same as a text, in the sender's time zone
  Searchers,      \* the ways to answer a search: the type of the layer, and for
                  \*             SQLITE whether there is anything in the search box
  PageSize,       \* 20 in parsePageParameters
  MaxInt,         \* the largest int
  Addresses,      \* page numbers a user may put into the address bar
  PagerCalls,     \* bound: list requests under way
  PagerActs       \* bound: pages turned or addressed, mails that come or go

ASSUME PagerAssumption ==
  /\ IsFiniteSet(PagedMails) /\ Date \in [PagedMails -> Int] /\ DateText \in [PagedMails -> Int]
  /\ Searchers \subseteq {"MEMORY", "FILESYSTEM", "SQLITE", "SQLITE filtered"}
  /\ PageSize \in Nat \ {0} /\ MaxInt \in Nat /\ PageSize <= MaxInt
  /\ Cardinality(PagedMails) + PageSize <= MaxInt    \* ints count further than mails
  /\ Addresses \subseteq 0 .. MaxInt
  /\ PagerCalls \in Nat /\ PagerActs \in Nat

VARIABLES
  searcher,       \* how searches are answered
  came, gone,     \* mails that have arrived, those deleted since
  order,          \* how the folder or the table is read at present
  unheard,        \* changes whose event is not there yet
  asked,          \* list requests under way
  pageStart,      \* #page-start
  shown           \* the answer on the screen, with its two buttons

\* What the properties look back at. No code reads these.
VARIABLES
  walk,           \* the pages turned since the first one was shown
  latest,         \* the latest state of the storage an answer told of
  failed,         \* whether the last request to end had failed
  done            \* turns and changes so far

pagerVars == <<searcher, came, gone, order, unheard, asked, pageStart,
               shown, walk, latest, failed, done>>
storageVars == <<came, gone, order>>
screenVars  == <<pageStart, shown, walk, latest, failed>>

Here == came \ gone
Present  == [came |-> came, gone |-> gone]

\* SQLITE keeps dates as texts, and sorts those.
SortKey == IF searcher \in {"MEMORY", "FILESYSTEM"} THEN Date ELSE DateText

\* The ways to list S newest first: mails of one date come as they may.
Listings(S) ==
  {s \in SetToSeqs(S) :
     \A i, j \in DOMAIN s : i < j => SortKey[s[i]] >= SortKey[s[j]]}

\* A folder and a table are read in the same way until they change, a Go map
\* in a new way every time.
ReadNow == IF searcher = "MEMORY" THEN Listings(Here) ELSE {order}

-----------------------------------------------------------------------------
(* A page of a list                                                         *)

\* What an int makes of a result that is too large or too small for it.
Wrap(n) == ((n + MaxInt + 1) % (2 * (MaxInt + 1))) - (MaxInt + 1)

Lesser(a, b) == IF a <= b THEN a ELSE b

\* A mistake for the checks: pages counted from zero.
StartFromZero(page) == Wrap(page * PageSize)

Start(page) == Wrap((page - 1) * PageSize)

\* The bounds of the slice: behind start, up to end.
Bounds(page, len) ==
  LET start == Start(page)
  IN  [start |-> Lesser(start, len), end |-> Lesser(Wrap(start + PageSize), len)]

\* A slice whose bounds are out of range, or out of order, panics.
Cuts(b) == 0 <= b.start /\ b.start <= b.end

Cut(list, b) == SubSeq(list, b.start + 1, b.end)

\* LIMIT and OFFSET: an offset below zero is none.
SelectPage(list, page) ==
  LET start == IF Start(page) < 0 THEN 0 ELSE Start(page)
  IN  SubSeq(list, start + 1, Lesser(start + PageSize, Len(list)))

\* A mistake for the checks: a page that is just full is taken for the last.
IsLastPageEarly(page, total) == Wrap((page + 1) * PageSize) >= total

IsLastPage(page, total) == Wrap(page * PageSize) >= total

-----------------------------------------------------------------------------
Nothing == [came |-> {}, gone |-> {}]

\* from: the state of the storage the request knows of at least; seen: the one
\* its rows are from.
Ask(page) ==
  [page |-> page, phase |-> "sent", from |-> Nothing, seen |-> Nothing,
   total |-> 0, rows |-> <<>>]

\* Before the first answer the page has no rows and both its buttons.
FirstScreen ==
  [page |-> 1, rows |-> <<>>, prev |-> TRUE, next |-> TRUE,
   from |-> Nothing, seen |-> Nothing]

PagerInit ==
  /\ searcher \in Searchers
  /\ came \in SUBSET PagedMails /\ gone = {} /\ order \in Listings(came)
  /\ unheard = 0 /\ asked = <<Ask(1)>>
  /\ pageStart = 1 /\ shown = FirstScreen
  /\ walk = [there |-> {}, met |-> {}, whole |-> FALSE]
  /\ latest = Nothing /\ failed = FALSE /\ done = 0

\* What the bound counts.
Does == done < PagerActs /\ done' = done + 1

-----------------------------------------------------------------------------
(* The storage: by whom it is changed does not matter here                  *)

MailComes(m) ==
  /\ m \in PagedMails \ came /\ Does
  /\ came' = came \cup {m}
  /\ order' \in Listings(Here \cup {m})
  /\ unheard' = unheard + 1
  /\ UNCHANGED <<searcher, gone, asked, screenVars>>

MailGoes(m) ==
  /\ m \in Here /\ Does
  /\ gone' = gone \cup {m}
  /\ order' \in Listings(Here \ {m})
  /\ unheard' = unheard + 1
  /\ UNCHANGED <<searcher, came, asked, screenVars>>

-----------------------------------------------------------------------------
(* The server: a list request                                               *)

Becomes(i, call) ==
  /\ asked' = [asked EXCEPT ![i] = call]
  /\ UNCHANGED <<searcher, storageVars, unheard, screenVars, done>>

\* What is left of a search that found list, or of one that panicked.
Answered(call, list) ==
  LET b == Bounds(call.page, Len(list))
  IN  IF Cuts(b)
      THEN [call EXCEPT !.phase = "answered", !.total = Len(list), !.rows = Cut(list, b)]
      ELSE [call EXCEPT !.phase = "failed"]

\* parsePageParameters
RefusePage(i) ==
  /\ asked[i].phase = "sent" /\ asked[i].page < 1
  /\ Becomes(i, [asked[i] EXCEPT !.phase = "failed"])

\* MEMORY searches under its lock, SQLITE with filters by one statement.
SearchAtOnce(i) ==
  /\ asked[i].phase = "sent" /\ asked[i].page >= 1
  /\ searcher \in {"MEMORY", "SQLITE filtered"}
  /\ \E list \in ReadNow :
       Becomes(i, Answered([asked[i] EXCEPT !.from = Present, !.seen = Present], list))

\* FILESYSTEM lists the folder, and opens the files without a lock.
ListFolder(i) ==
  /\ asked[i].phase = "sent" /\ asked[i].page >= 1 /\ searcher = "FILESYSTEM"
  /\ Becomes(i, [asked[i] EXCEPT !.phase = "listed", !.from = Present, !.seen = Present,
                                 !.rows = order])

\* A file that is gone by now may have been read before it went.
LoadFiles(i) ==
  LET call == asked[i] IN
  /\ call.phase = "listed"
  /\ \/ Becomes(i, Answered(call, call.rows))
     \/ /\ gone # call.seen.gone
        /\ Becomes(i, [call EXCEPT !.phase = "failed"])

\* Without filters SQLITE counts by one statement, and selects by another.
CountRows(i) ==
  /\ asked[i].phase = "sent" /\ asked[i].page >= 1
  /\ searcher = "SQLITE"
  /\ Becomes(i, [asked[i] EXCEPT !.phase = "counted", !.from = Present,
                                 !.total = Cardinality(Here)])

SelectRows(i) ==
  /\ asked[i].phase = "counted"
  /\ Becomes(i, [asked[i] EXCEPT !.phase = "answered", !.seen = Present,
                                 !.rows = SelectPage(order, asked[i].page)])

-----------------------------------------------------------------------------
(* The web client                                                           *)

Drop(i) == asked' = RemoveAt(asked, i)

\* refreshEmailList, for the page the text says.
Refresh(page) ==
  /\ Len(asked) < PagerCalls
  /\ asked' = Append(asked, Ask(page))
  /\ pageStart' = page

EventComes ==
  /\ unheard > 0 /\ unheard' = unheard - 1
  /\ Refresh(pageStart)
  /\ UNCHANGED <<searcher, storageVars, shown, walk, latest, failed, done>>

Older(a, b) == a # b /\ a.came \subseteq b.came /\ a.gone \subseteq b.gone

Apart(S) == \A a, b \in S : a # b => SortKey[a] # SortKey[b]

\* A page that continues the walk: it was made after the one on the screen; it
\* is the next one and nothing was deleted in between, or no later one and no
\* more than a page was deleted; and mails of one date kept their places.
Continues(call) ==
  /\ ~Older(call.seen, shown.seen)
  /\ LET lost == Cardinality(call.seen.gone \ shown.seen.gone) IN
     \/ call.page = shown.page + 1 /\ lost = 0
     \/ call.page <= shown.page /\ lost <= PageSize
  /\ \/ Apart(call.seen.came \ shown.seen.gone)
     \/ searcher # "MEMORY" /\ call.seen = shown.seen

Walked(call) ==
  IF call.page = 1
  THEN [there |-> call.seen.came \ call.seen.gone, met |-> ToSet(call.rows), whole |-> TRUE]
  ELSE [walk EXCEPT !.met = @ \cup ToSet(call.rows), !.whole = @ /\ Continues(call)]

\* updatePagination, with the rows above it.
Screen(call) ==
  [page |-> call.page, rows |-> call.rows,
   prev |-> call.page # 1, next |-> ~IsLastPage(call.page, call.total),
   from |-> call.from, seen |-> call.seen]

\* The success callback of refreshEmailList.
PageArrives(i) ==
  LET call == asked[i] IN
  /\ call.phase = "answered"
  /\ shown' = Screen(call)
  /\ pageStart' = call.page
  /\ Drop(i)
  /\ walk' = Walked(call)
  /\ latest' = [came |-> latest.came \cup call.from.came,
                gone |-> latest.gone \cup call.from.gone]
  /\ failed' = FALSE
  /\ UNCHANGED <<searcher, storageVars, unheard, done>>

\* An error is logged; the text may name a page that is not on the screen.
PageFails(i) ==
  /\ asked[i].phase = "failed"
  /\ Drop(i)
  /\ latest' = Present /\ failed' = TRUE
  /\ UNCHANGED <<searcher, storageVars, unheard, pageStart, shown, walk, done>>

Turn(page) ==
  /\ Does /\ Refresh(page)
  /\ UNCHANGED <<searcher, storageVars, unheard, shown, walk, latest, failed>>

\* #next-page, #prev-page: from the page the text says, which need not be the
\* one on the screen. navigateToList takes page 0 for the first.
NextPage == shown.next /\ Turn(pageStart + 1)
PrevPage == shown.prev /\ Turn(IF pageStart = 1 THEN 1 ELSE pageStart - 1)

\* #/page/7 in the address bar: routeFromHash.
GoTo(page) == page \in Addresses /\ Turn(page)

-----------------------------------------------------------------------------
PagerNext ==
  \/ \E m \in PagedMails : MailComes(m) \/ MailGoes(m)
  \/ \E i \in DOMAIN asked :
       \/ RefusePage(i) \/ SearchAtOnce(i) \/ ListFolder(i) \/ LoadFiles(i)
       \/ CountRows(i) \/ SelectRows(i)
       \/ PageArrives(i) \/ PageFails(i)
  \/ EventComes \/ NextPage \/ PrevPage
  \/ \E page \in Addresses : GoTo(page)

PagerSpec == PagerInit /\ [][PagerNext]_pagerVars
=============================================================================
