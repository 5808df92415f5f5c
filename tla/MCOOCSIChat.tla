----------------------------- MODULE MCOOCSIChat -----------------------------
(* Two channels, the one that was left and the one joined next, and somebody  *)
(* of another name; two joins of one channel would be two functions.          *)
EXTENDS OOCSIChat
=============================================================================
