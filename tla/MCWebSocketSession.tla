------------------------ MODULE MCWebSocketSession ------------------------
(* WebSocketSession for TLC: connections are interchangeable.              *)
EXTENDS WebSocketSession, TLC

Symmetry == Permutations(Connections)
===========================================================================
