--------------------------- MODULE SenderRewrite ---------------------------
(***************************************************************************)
(* What a release puts on the wire: rewriteSenderHeader replaces the From   *)
(* field of a stored mail by the relay's sender. The header is parsed into  *)
(* a map, which forgets the order of its keys, and is written again in the  *)
(* order that the raw text has, which is parsed a second time, by hand.     *)
(*                                                                          *)
(* A raw mail is a sequence of lines. A line is a field, the continuation   *)
(* of one, a line that begins with a colon, one that has none, or blank; a  *)
(* value is a sequence of words. Either parser takes both ends of lines.    *)
(***************************************************************************)
EXTENDS Naturals, Sequences, SequencesExt

CONSTANTS Lines,      \* the lines mails are made of
          MaxLines,   \* bound on the length of a mail
          Senders     \* what relays are configured with; <<>> is none

\* The key of a line that is no field is "".
AnyLine == [form : {"field", "more", "colon", "bad", "blank"},
            key : STRING \cup {"", "From"}, value : Seq(STRING)]

ASSUME RewriteAssumption ==
  /\ Lines \subseteq AnyLine
  /\ \A line \in Lines : line.form = "field" => line.key # ""
  /\ MaxLines \in Nat /\ Senders \subseteq Seq(STRING)

VARIABLE raw          \* the mail, as the engine returns it

Field(key, value) == [form |-> "field", key |-> key, value |-> value]
Blank == [form |-> "blank", key |-> "", value |-> <<>>]

\* CanonicalMIMEHeaderKey.
Canonical(key) == IF key = "FROM" THEN "From" ELSE key

Keys == {Canonical(line.key) : line \in {x \in Lines : x.form = "field"}} \cup {"From"}

\* The lines above the first blank one, and those below it.
Top(mail) == SelectInSeq(mail, LAMBDA line : line.form = "blank")
HeaderBlock(mail) == IF Top(mail) = 0 THEN mail ELSE SubSeq(mail, 1, Top(mail) - 1)
Body(mail) == IF Top(mail) = 0 THEN <<>> ELSE SubSeq(mail, Top(mail) + 1, Len(mail))

\* What the rounds of a loop make of what it begins with; a round is a function of
\* what those before it made.
Loop(start, rounds) ==
  LET made[i \in 0 .. Len(rounds)] ==
        IF i = 0 THEN start ELSE rounds[i][made[i - 1]]
  IN  made[Len(rounds)]

-----------------------------------------------------------------------------
(* net/mail *)

\* ReadMessage has no error: a mail may end with its header if that has a field.
Reads(mail) ==
  /\ Top(mail) = 0 => \E i \in DOMAIN mail : mail[i].form = "field"
  /\ \A i \in DOMAIN HeaderBlock(mail) :
       /\ mail[i].form # "bad"
       /\ i = 1 => mail[i].form # "more"

\* The values that each key comes with; a key that does not come has none.
Headers == [Keys -> Seq(Seq(STRING))]
NoHeader == [key \in Keys |-> <<>>]

\* A continuation goes to the last value.
Continued(values, more) == [values EXCEPT ![Len(values)] = @ \o more]

\* so: what was read, and the key of the last field, which a continuation goes to.
ReadLine(so, line) ==
  CASE line.form = "field" ->
         LET key == Canonical(line.key)
         IN  [header |-> [so.header EXCEPT ![key] = Append(@, line.value)], key |-> key]
    [] line.form = "more" /\ so.key # "" ->
         [header |-> [so.header EXCEPT ![so.key] = Continued(@, line.value)], key |-> so.key]
    [] line.form = "colon" -> [so EXCEPT !.key = ""]
    [] OTHER -> so

ReadFields(block) ==
  Loop([header |-> NoHeader, key |-> ""],
       [i \in DOMAIN block |->
          [so \in [header : Headers, key : Keys \cup {""}] |-> ReadLine(so, block[i])]])

Header(mail) == ReadFields(HeaderBlock(mail)).header

Get(header, key) == IF header[key] = <<>> THEN <<>> ELSE header[key][1]

-----------------------------------------------------------------------------
(* A mistake for the checks: every field is taken for a new key. *)

SeenKeysRepeated(block) ==
  Loop(<<>>, [i \in DOMAIN block |-> [seen \in Seq(Keys) |->
    IF block[i].form # "field" THEN seen ELSE Append(seen, Canonical(block[i].key))]])

-----------------------------------------------------------------------------
\* The keys in the order in which the raw header first has them. Continuations
\* and lines that begin with a colon are passed over.
SeenKeys(block) ==
  Loop(<<>>, [i \in DOMAIN block |-> [seen \in Seq(Keys) |->
    IF block[i].form # "field" \/ Canonical(block[i].key) \in ToSet(seen) THEN seen
    ELSE Append(seen, Canonical(block[i].key))]])

OrderedKeys(mail) == SeenKeys(HeaderBlock(mail))

FieldsOf(key, header) == [j \in 1 .. Len(header[key]) |-> Field(key, header[key][j])]

WriteKeys(keys, header) ==
  Loop(<<>>, [i \in DOMAIN keys |-> [written \in Seq(AnyLine) |->
    written \o FieldsOf(keys[i], header)]])

\* The keys the raw header does not have follow, in the order of the map; there
\* is at most one, From.
WriteHeaders(header, mail) ==
  LET keys == OrderedKeys(mail)
      rest == {key \in Keys : header[key] # <<>>} \ ToSet(keys)
  IN  WriteKeys(keys \o SetToSeq(rest), header)

RewriteSenderHeader(mail, sender) ==
  LET header == Header(mail)
  IN  IF sender = <<>> \/ ~Reads(mail) \/ Get(header, "From") = sender THEN mail
      ELSE WriteHeaders([header EXCEPT !["From"] = <<sender>>], mail)
             \o <<Blank>> \o Body(mail)

-----------------------------------------------------------------------------
RewriteInit == raw = <<>>

RewriteNext == Len(raw) < MaxLines /\ \E line \in Lines : raw' = Append(raw, line)

RewriteSpec == RewriteInit /\ [][RewriteNext]_raw

-----------------------------------------------------------------------------
\* What a relay is given says From what the relay asks for, once, and is the
\* stored mail in everything else: the other fields have the values they had,
\* those of one key in their order; the keys come in their order, From where it
\* first was or, if it was not there, last; and the body is untouched, whatever it
\* looks like. A mail that cannot be read, or needs no change, goes as it is; and
\* to send it through a second relay of the same sender changes nothing more.
RewriteIsExact ==
  \A sender \in Senders :
    LET sent   == RewriteSenderHeader(raw, sender)
        before == Header(raw)
        after  == Header(sent)
        keys   == OrderedKeys(raw)
    IN  IF sender = <<>> \/ ~Reads(raw) THEN sent = raw
        ELSE /\ Reads(sent)
             /\ Get(after, "From") = sender
             /\ sent # raw => after["From"] = <<sender>>
             /\ \A key \in Keys \ {"From"} : after[key] = before[key]
             /\ OrderedKeys(sent) = IF "From" \in ToSet(keys) THEN keys
                                    ELSE Append(keys, "From")
             /\ Body(sent) = Body(raw)
             /\ RewriteSenderHeader(sent, sender) = sent
=============================================================================
