------------------------ MODULE MCOOCSIWebClient ------------------------
(* OOCSIWebClient for TLC: sockets are interchangeable.                  *)
EXTENDS OOCSIWebClient, TLC

Symmetry == Permutations(Sockets)
=========================================================================
