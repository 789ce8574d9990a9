----------------------------- MODULE MailArchive -----------------------------
(***************************************************************************)
(* What the storage engine promises, without layers, files, locks or        *)
(* restarts: an archive that is offered mails, keeps them, answers searches *)
(* and erases what it was asked to erase.                                   *)
(*                                                                          *)
(* A mail the archive has kept is whole until somebody condemns it. A mail  *)
(* it has erased is gone for good. A search looks once, at one moment, at   *)
(* everything that is kept then, and answers exactly that, later.           *)
(***************************************************************************)
CONSTANTS
  Mails,          \* what may be offered, each mail once
  Callers         \* who may search

VARIABLES
  offered,        \* mails somebody asked to keep
  kept,           \* mails whose sender was told they are kept
  told,           \* mails a caller was told of
  condemned,      \* mails somebody asked to erase
  erased,         \* mails somebody was told are erased
  held,           \* how much of a mail there is: nothing, a part, the whole
  seen            \* seen[p]: {} or, while caller p searches, {what it saw}

vars == <<offered, kept, told, condemned, erased, held, seen>>

\* Mails whose sender and readers may count on them.
Promised == kept \ condemned

\* Mails the archive may still bring in, lose or clear away as it works: on
\* their way in, refused half way, or condemned.
Loose == offered \ (Promised \cup erased)

Init ==
  /\ offered = {} /\ kept = {} /\ told = {} /\ condemned = {} /\ erased = {}
  /\ held = [m \in Mails |-> "absent"]
  /\ seen = [p \in Callers |-> {}]

\* Somebody who erases everything at the time may or may not get the new mail.
Offer(m) ==
  /\ m \in Mails \ offered
  /\ offered' = offered \cup {m}
  /\ condemned' \in {condemned, condemned \cup {m}}
  /\ UNCHANGED <<kept, told, erased, held, seen>>

Rearranged ==
  /\ held' \in [Mails -> {"absent", "partial", "whole"}]
  /\ \A m \in Mails \ Loose : held'[m] = held[m]
  /\ UNCHANGED <<offered, kept, told, condemned, erased>>

Work == Rearranged /\ UNCHANGED seen

Keep(m) ==
  /\ m \in offered \ kept
  /\ m \in condemned \/ held[m] = "whole"
  /\ kept' = kept \cup {m}
  /\ told' = told \cup {m}
  /\ UNCHANGED <<offered, condemned, erased, held, seen>>

\* One mail the caller knows of, or all there are.
Condemn(S) ==
  /\ S \subseteq told \/ S = offered
  /\ condemned' = condemned \cup S
  /\ UNCHANGED <<offered, kept, told, erased, held, seen>>

Erase(S) ==
  /\ S \subseteq condemned
  /\ \A m \in S : held[m] = "absent"
  /\ erased' = erased \cup S
  /\ UNCHANGED <<offered, kept, told, condemned, held, seen>>

Look(p, S) ==
  /\ seen[p] = {}
  /\ Promised \subseteq S
  /\ S \subseteq {m \in offered : held[m] # "absent"}
  /\ seen' = [seen EXCEPT ![p] = {S}]
  /\ UNCHANGED <<offered, kept, told, condemned, erased, held>>

Answer(p, S) ==
  /\ seen[p] = {S}
  /\ told' = told \cup S
  /\ seen' = [seen EXCEPT ![p] = {}]
  /\ UNCHANGED <<offered, kept, condemned, erased, held>>

Fail(p) ==
  /\ seen' = [seen EXCEPT ![p] = {}]
  /\ UNCHANGED <<offered, kept, told, condemned, erased, held>>

\* Everybody who searches is cut off.
Stop == Rearranged /\ seen' = [p \in Callers |-> {}]

Next ==
  \/ \E m \in Mails : Offer(m) \/ Keep(m)
  \/ \E S \in SUBSET Mails : Condemn(S) \/ Erase(S)
  \/ \E p \in Callers : Fail(p) \/ \E S \in SUBSET Mails : Look(p, S) \/ Answer(p, S)
  \/ Work \/ Stop

Spec == Init /\ [][Next]_vars
=============================================================================
