---------------------------- MODULE MCWebClient -----------------------------
(* An instance of WebClient for TLC: a page and another client, who share a *)
(* mail.                                                                    *)
EXTENDS WebClientProps

CONSTANTS m1, page, caller
=============================================================================
