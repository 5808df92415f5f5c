---------------------------- MODULE MCOOCSICalls ----------------------------
(* Two calls and two pages that answer: enough for a second answer, of another *)
(* page, and for one call to expire while another waits.                      *)
EXTENDS OOCSICalls
=============================================================================
