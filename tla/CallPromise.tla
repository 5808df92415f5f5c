----------------------------- MODULE CallPromise -----------------------------
(* What OOCSI.call() promises of each call, whatever the network, the clock   *)
(* and the responders do: it is answered while it is open, or it is over, and *)
(* neither can be undone.                                                     *)
CONSTANT Ids

VARIABLE status

Begin(id) ==
  /\ status[id] = "none"
  /\ status' = [status EXCEPT ![id] = "open"]

\* A call whose timeout is zero, or that is dropped for want of a connection.
Miss(id) ==
  /\ status[id] = "none"
  /\ status' = [status EXCEPT ![id] = "over"]

Answer(id) ==
  /\ status[id] = "open"
  /\ status' = [status EXCEPT ![id] = "answered"]

\* Time passes for all calls at once.
Expire ==
  \E ids \in SUBSET {id \in Ids : status[id] = "open"} :
    status' = [id \in Ids |-> IF id \in ids THEN "over" ELSE status[id]]

Init == status = [id \in Ids |-> "none"]

Next ==
  \/ \E id \in Ids : Begin(id) \/ Miss(id) \/ Answer(id)
  \/ Expire

Spec == Init /\ [][Next]_status
=============================================================================
