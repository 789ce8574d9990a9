----------------------------- MODULE MailSearch -----------------------------
(***************************************************************************)
(* The search box: what is typed becomes tokens, tokens become filters, and *)
(* a mail is listed if every filter matches it.                             *)
(*                                                                          *)
(* A query is a sequence of pieces separated by blanks:                     *)
(*   word    offer           phrase   "big offer"                           *)
(*   filter  from:alice      key      from:  with its blank behind it       *)
(* A phrase that contains a colon is a filter whose key begins with the     *)
(* quote, so "other" stands for it and for every key there is no filter of. *)
(* Values are records: a text, a date (a day), a span (a number and a       *)
(* unit), or the empty text. Times are minutes, days begin at multiples     *)
(* of Day.                                                                  *)
(*                                                                          *)
(* An envelope is what the header of the root says besides its structure:   *)
(* from, recipients (To and Cc), subject (the texts found in it) and date.  *)
(*                                                                          *)
(* Source: storage/matcher/, storage/multipart/multipart_matcher.go         *)
(***************************************************************************)
EXTENDS MimeTree, Integers

CONSTANTS
  Pieces,         \* what may be typed
  Envelopes,      \* what the header of a mail may say
  Now,            \* the time of the search
  MaxMinutes,     \* time.Duration's limit of 292 years, in whole minutes
  SearchNodes,    \* bound: parts of a mail that is searched for
  MaxPieces       \* bound: pieces of a query

ASSUME SearchAssumption ==
  /\ Now \in Nat /\ MaxMinutes \in Nat \ {0}
  /\ SearchNodes \in Nat /\ MaxPieces \in Nat
  /\ \A p \in Pieces : p.form = "filter" /\ p.value.kind = "span" => p.value.n \in Int
  /\ \A e \in Envelopes : e.date \in Int

VARIABLE query

Hour == 60
Day  == 24 * Hour

Empty   == [kind |-> "empty"]
NoDate  == -1                   \* a Date header that does not parse: year 1
Keys    == {"mailbox", "has", "before", "after", "from", "older_than",
            "newer_than", "subject"}

-----------------------------------------------------------------------------
(* tokenizeQuery                                                            *)

\* A key takes the next piece as its value, blanks or not; what it took is no
\* piece of its own.
Taken(q) ==
  LET taken[i \in DOMAIN q] == i > 1 /\ q[i - 1].form = "key" /\ ~taken[i - 1]
  IN  taken

Dangles(q) == q # <<>> /\ Last(q).form = "key" /\ ~Taken(q)[Len(q)]

\* A piece read as a value: a filter or a key is the text it is written as.
AsValue(piece) ==
  IF piece.form \in {"word", "phrase"} THEN piece.value
  ELSE [kind |-> "text", text |-> "as typed"]

KeyValue(q, i) ==
  [key |-> q[i].key,
   value |-> CASE q[i].form = "filter" -> q[i].value
               [] q[i].form = "key"    -> IF i < Len(q) THEN AsValue(q[i + 1]) ELSE Empty]

\* A mistake for the checks: one value is kept for each key.
KeyValuePairsByKey(q) ==
  {KeyValue(q, i) : i \in {j \in DOMAIN q :
     /\ q[j].form \in {"filter", "key"} /\ ~Taken(q)[j]
     /\ \A k \in j + 1 .. Len(q) : q[k].key # q[j].key}}

KeyValuePairs(q) ==
  {KeyValue(q, i) :
     i \in {j \in DOMAIN q : q[j].form \in {"filter", "key"} /\ ~Taken(q)[j]}}

PlainTexts(q) ==
  {q[i].value : i \in {j \in DOMAIN q : q[j].form \in {"word", "phrase"} /\ ~Taken(q)[j]}}

-----------------------------------------------------------------------------
(* ParseQuery                                                               *)

\* time.Duration has 64 bits: a product beyond them comes out negative.
Wrapped(minutes) == IF minutes > MaxMinutes THEN minutes - 2 * MaxMinutes ELSE minutes

\* A mistake for the checks: a year in days.
MultiplierYearInDays(unit) ==
  CASE unit = "d" -> 24 [] unit = "w" -> 24 * 7
    [] unit = "month" -> 24 * 30 [] unit = "y" -> 365

\* Hours in the units parseCustomDuration knows itself.
Multiplier(unit) ==
  CASE unit = "d" -> 24 [] unit = "w" -> 24 * 7
    [] unit = "month" -> 24 * 30 [] unit = "y" -> 24 * 365

CustomUnits == {"d", "w", "month", "y"}

\* The rest is time.ParseDuration's, to which m is a minute, and which refuses
\* what does not fit.
ParseCustomDuration(span) ==
  CASE span.unit \in CustomUnits -> Wrapped(span.n * Multiplier(span.unit) * Hour)
    [] span.unit = "h" -> span.n * Hour
    [] span.unit = "m" -> span.n

IsDuration(value) ==
  /\ value.kind = "span"
  /\ \/ value.unit \in CustomUnits /\ value.n >= 0
     \/ value.unit \in {"h", "m"}
        /\ LET minutes == value.n * (IF value.unit = "h" THEN Hour ELSE 1)
           IN  minutes \in -MaxMinutes .. MaxMinutes

ValidFilter(pair) ==
  CASE pair.key = "has"                          -> pair.value = [kind |-> "text", text |-> "attachment"]
    [] pair.key \in {"before", "after"}          -> pair.value.kind = "date"
    [] pair.key \in {"older_than", "newer_than"} -> IsDuration(pair.value)
    [] OTHER                                     -> pair.key \in Keys

ValidQuery(q) == \A pair \in KeyValuePairs(q) : ValidFilter(pair)

ParseQuery(q) ==
  KeyValuePairs(q) \cup {[key |-> "text", value |-> v] : v \in PlainTexts(q) \ {Empty}}

-----------------------------------------------------------------------------
(* match, MatchAll                                                          *)

\* time.Since stops at the limit of time.Duration.
Since(date) == IF date = NoDate THEN MaxMinutes ELSE Now - date

SaysText(t, e, value) ==
  \/ \E v \in GetBodyVersions(t) :
       LET leaf == GetBody(t, v) IN leaf # 0 /\ value \in t[leaf].words
  \/ value \in e.subject \cup {e.from} \cup e.recipients

Match(t, e, f) ==
  CASE f.key = "mailbox"    -> f.value \in e.recipients
    [] f.key = "has"        -> HasAttachments(t)
    [] f.key = "text"       -> SaysText(t, e, f.value)
    [] f.key = "before"     -> e.date < f.value.day * Day
    [] f.key = "after"      -> e.date > f.value.day * Day
    [] f.key = "from"       -> f.value = e.from
    [] f.key = "newer_than" -> Since(e.date) < ParseCustomDuration(f.value)
    [] f.key = "older_than" -> Since(e.date) > ParseCustomDuration(f.value)
    [] f.key = "subject"    -> f.value \in e.subject \cup {Empty}

MatchAll(t, e, filters) == \A f \in filters : Match(t, e, f)

\* Whether a search for q lists the mail; a query that is not valid lists none.
Found(t, e, q) == ValidQuery(q) /\ MatchAll(t, e, ParseQuery(q))

-----------------------------------------------------------------------------
(* A mail is read, then searched for.                                       *)

searchVars == <<mimeVars, query>>

Type(piece) ==
  /\ outcome = "parsed" /\ Len(nodes) <= SearchNodes
  /\ Len(query) < MaxPieces
  /\ query' = Append(query, piece)
  /\ UNCHANGED mimeVars

Init == MimeInit /\ query = <<>>

Next ==
  \/ MimeNext /\ UNCHANGED query
  \/ \E piece \in Pieces : Type(piece)

Spec == Init /\ [][Next]_searchVars
=============================================================================
