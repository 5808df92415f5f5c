---------------------------- MODULE ServiceLease ----------------------------
(* What the HTTP service gateway promises its callers, whatever the actors    *)
(* behind it do: a pooled request client serves at most one call at a time    *)
(* and is given back, and every call that is opened is closed.                *)
(* ServiceClientActor.tla is shown to implement this specification.           *)

CONSTANTS Calls,    \* HTTP requests to a service
          Pooled,   \* request clients created once per server
          Nobody    \* the holder of a client that is in the pool

VARIABLES holder,   \* the call each pooled client serves
          status    \* the progress of each call

leaseVars == <<holder, status>>

LeaseTypeOK ==
  /\ holder \in [Pooled -> Calls \union {Nobody}]
  /\ status \in [Calls -> {"idle", "open", "closed"}]

LeaseInit ==
  /\ holder = [k \in Pooled |-> Nobody]
  /\ status = [c \in Calls |-> "idle"]

\* A call arrives, and may be refused on the spot.
Open(c) ==
  /\ status[c] = "idle"
  /\ \E s \in {"open", "closed"} : status' = [status EXCEPT ![c] = s]
  /\ UNCHANGED holder

\* A call borrows a free client, never a second one.
Borrow(c, k) ==
  /\ status[c] # "idle"
  /\ holder[k] = Nobody
  /\ \A other \in Pooled : holder[other] # c
  /\ holder' = [holder EXCEPT ![k] = c]
  /\ UNCHANGED status

GiveBack(c, k) ==
  /\ holder[k] = c
  /\ holder' = [holder EXCEPT ![k] = Nobody]
  /\ UNCHANGED status

Close(c) ==
  /\ status[c] = "open"
  /\ status' = [status EXCEPT ![c] = "closed"]
  /\ UNCHANGED holder

LeaseNext ==
  \E c \in Calls :
    \/ Open(c)
    \/ Close(c)
    \/ \E k \in Pooled : Borrow(c, k) \/ GiveBack(c, k)

LeaseSpec == LeaseInit /\ [][LeaseNext]_leaseVars
=============================================================================
