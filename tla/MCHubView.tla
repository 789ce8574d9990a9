----------------------------- MODULE MCHubView ------------------------------
(***************************************************************************)
(* Instances for TLC of what pages are told and of what they show of one    *)
(* mail: WsHub, and MailView and ReleaseDialog with two mails. They share   *)
(* no variable, and no step is one of two: each runs while the others are   *)
(* where they began.                                                        *)
(***************************************************************************)
EXTENDS MCWsHub, MailViewProps

CONSTANTS m1, m2           \* mails to view and to release

\* m1 has a body to look at, m2 is only to be seen raw.
MCBodyVersions == (m1 :> {"html", "raw"}) @@ (m2 :> {"raw"})

MCInit == Init /\ ViewInit /\ ReleaseInit

MCNext ==
  \/ ViewInit /\ ReleaseInit /\ Next /\ UNCHANGED <<viewVars, releaseVars>>
  \/ Init /\ ReleaseInit /\ ViewNext /\ UNCHANGED <<vars, releaseVars>>
  \/ Init /\ ViewInit /\ ReleaseNext /\ UNCHANGED <<vars, viewVars>>

MCSpec == MCInit /\ [][MCNext]_<<vars, viewVars, releaseVars>>
=============================================================================
