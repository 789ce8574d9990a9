---------------------------- MODULE MCMailServer ----------------------------
(* Instances of MailServer for TLC. *)
EXTENDS MailServerProps, TLC

CONSTANTS m1, m2, h1, w1

\* An automatic relay, one that is switched off, and one that is only used on
\* request and whose mechanism is misspelt.
RelayNames == {"auto", "off", "misspelt"}

RelayTable ==
  [r \in RelayNames |-> [enabled   |-> r # "off",
                         auto      |-> r # "misspelt",
                         mechanism |-> r # "misspelt"]]

\* Both ends of the range, a value beyond it, and a delay.
SettingsAsked == {[rate |-> 101, delay |-> 1], [rate |-> 50, delay |-> -1]}

Wanted == {{m1}}

Named == {{m1, m2}}
=============================================================================
