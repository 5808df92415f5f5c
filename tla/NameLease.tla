----------------------------- MODULE NameLease -----------------------------
(* What the server promises about the names of its clients: a connection is   *)
(* answered once, a welcome lends it a name that nobody has, a refusal lends  *)
(* it none, and a name that was given back is never lent to the same          *)
(* connection again.  WebSocketSession.tla implements this specification.     *)

CONSTANTS Connections,  \* WebSocket connections
          Names         \* the names there are

VARIABLES lent,   \* the connections that have each name
          said    \* what each connection was told

leaseVars == <<lent, said>>

LeaseInit ==
  /\ lent = [n \in Names |-> {}]
  /\ said = [c \in Connections |-> "none"]

Lend(c, n) ==
  /\ said[c] = "none"
  /\ lent[n] = {}
  /\ lent' = [lent EXCEPT ![n] = {c}]
  /\ said' = [said EXCEPT ![c] = "welcome"]

Refuse(c) ==
  /\ said[c] = "none"
  /\ said' = [said EXCEPT ![c] = "error"]
  /\ UNCHANGED lent

Return(c, n) ==
  /\ c \in lent[n]
  /\ lent' = [lent EXCEPT ![n] = @ \ {c}]
  /\ UNCHANGED said

LeaseNext == \E c \in Connections :
  \/ Refuse(c)
  \/ \E n \in Names : Lend(c, n) \/ Return(c, n)

LeaseSpec == LeaseInit /\ [][LeaseNext]_leaseVars
=============================================================================
