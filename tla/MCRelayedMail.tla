--------------------------- MODULE MCRelayedMail ---------------------------
(* The mail server for TLC, and what a release sends. The two are checked by *)
(* turns: mails are written line by line while the server is in its initial *)
(* state.                                                                    *)
EXTENDS MCMailServer, SenderRewrite

\* Two spellings of From, a key that may come again, continuations that can
\* change the meaning of a value, and lines on which the two parsers could
\* disagree.
MCLines ==
  { Field("From", <<"ann">>), Field("FROM", <<"bob">>),
    Field("Received", <<"here">>), Field("Received", <<"there">>),
    Field("To", <<"cat">>), Blank }
    \cup [form : {"more", "colon", "bad"}, key : {""}, value : {<<"x">>}]

\* No sender, one a mail may have already, one that takes a folded value to have,
\* and one it never has.
MCSenders == {<<>>, <<"ann">>, <<"bob", "x">>, <<"relay">>}

MCInit == Init /\ RewriteInit

MCNext ==
  \/ RewriteInit /\ Next /\ UNCHANGED raw
  \/ Init /\ RewriteNext /\ UNCHANGED vars

MCSpec == MCInit /\ [][MCNext]_<<vars, raw>> /\ Fairness
=============================================================================
