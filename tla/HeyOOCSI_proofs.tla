--------------------------- MODULE HeyOOCSI_proofs ---------------------------
(* Proofs about HeyOOCSI: what a purge may remove and what a page may show,   *)
(* for any number of threads, devices, names and ids.                         *)
(*                                                                            *)
(* The argument: objects that are about to be announced are known to nobody   *)
(* (Announced), so that an object that a purge has in its hands comes back    *)
(* into the map under no circumstances, and is past its hour if it is there   *)
(* still (Victims).  What a page has to get rid of is among the keys it has   *)
(* still to visit, or in its hands (Purging).                                 *)
EXTENDS HeyOOCSI, FiniteSetTheorems, TLAPS

Asked ==
  \A t \in Threads : doing[t] = "lookup" => query[t].key \in Keys

KeysMatch ==
  \A k \in Keys : clients[k] # None => KeyOf[clients[k]] = k

Announced ==
  \A t \in Threads : doing[t] = "announcing" =>
    /\ \A u \in Threads : doing[u] = "announcing" => u = t
    /\ todo[t] \subseteq Devices
    /\ \A d \in todo[t] : d \notin Present /\ \A u \in Threads : d \notin read[u]

Victims ==
  \A t \in Threads : doing[t] = "removing" =>
    \A d \in read[t] :
      /\ read[t] = {d}
      /\ clients[KeyOf[d]] = d => age[d] = "expired"
      /\ IdOf[d] \notin stayed[t]

Purging ==
  \A t \in Threads : OnPage(t) =>
    /\ stayed[t] \subseteq connected
    /\ \A d \in since[t] :
         /\ clients[KeyOf[d]] = d
         /\ age[d] = "expired"
         /\ IdOf[d] \notin connected
         /\ KeyOf[d] \in todo[t] \/ d \in read[t]
         /\ doing[t] = "purging" => KeyOf[d] \in todo[t]
         /\ doing[t] # "listing"

IInv ==
  /\ TypeOK
  /\ Asked
  /\ KeysMatch
  /\ Announced
  /\ Victims
  /\ Purging


----------------------------------------------------------------------------
(* Types of what the actions compute.                                         *)

\* A lookup names a key.
LEMMA LookupKey ==
  ASSUME NEW q \in Queries, q.do = "lookup"
  PROVE  q.key \in Keys
<1>1. q \in [do : {"lookup"}, key : Keys] => q.key \in Keys
  OBVIOUS
<1>2. q \in [do : {"near"}, closest : Limits] => q.do = "near"
  OBVIOUS
<1>3. q \in [do : {"at"}, label : Labels] => q.do = "at"
  OBVIOUS
<1>. QED
  BY <1>1, <1>2, <1>3 DEF Queries

\* The ids within the distance are answers.
LEMMA InRangeType ==
  ASSUME NEW devices \in SUBSET Devices
  PROVE  InRange(devices) \subseteq Answer
<1>. SUFFICES ASSUME NEW d \in devices, NEW p \in PlacesOf[d]
              PROVE  [far |-> p.far, id |-> IdOf[d]] \in Answer
  BY DEF InRange
<1>1. PlacesOf[d] \subseteq [label : Labels, far : Nat] /\ IdOf[d] \in Ids
  BY HeyAssumption
<1>2. p \in [label : Labels, far : Nat]
  BY <1>1
<1>. QED
  BY <1>1, <1>2 DEF Answer

----------------------------------------------------------------------------
(* One lemma per kind of step.                                                *)

\* A thread has done its work.
LEMMA EndKeeps ==
  ASSUME IInv, NEW t \in Threads, End(t)
  PROVE  IInv'
<1>. USE HeyAssumption
<1>1. TypeOK /\ Asked /\ KeysMatch /\ Announced /\ Victims /\ Purging
  BY DEF IInv
<1>2. TypeOK'
  BY <1>1 DEF TypeOK, End, Queries, Nothing
<1>3. KeysMatch'
  BY <1>1 DEF TypeOK, KeysMatch, End, Queries, Nothing
<1>4. Announced'
  BY <1>1 DEF TypeOK, KeysMatch, Announced, Present, End, Queries, Nothing
<1>5. Victims'
  BY <1>1 DEF TypeOK, KeysMatch, Announced, Victims, Present, End, Queries, Nothing
<1>6. Purging'
  BY <1>1 DEF TypeOK, KeysMatch, Victims, Purging, OnPage, Present, End, Queries, Nothing
<1>7. Asked'
  BY <1>1 DEF TypeOK, Asked, End, Queries, Nothing
<1>. QED
  BY <1>2, <1>3, <1>4, <1>5, <1>6, <1>7 DEF IInv

\* The devices of a new message are known to nobody.
LEMMA AnnounceKeeps ==
  ASSUME IInv, NEW t \in Threads, NEW devices \in SUBSET Devices, Announce(t, devices)
  PROVE  IInv'
<1>. USE HeyAssumption
<1>1. TypeOK /\ Asked /\ KeysMatch /\ Announced /\ Victims /\ Purging
  BY DEF IInv
<1>2. TypeOK'
  BY <1>1 DEF TypeOK, Announce, Begin, Free, Nothing
<1>3. KeysMatch'
  BY <1>1 DEF TypeOK, KeysMatch, Announce, Begin, Free, Nothing
<1>4. Announced'
  BY <1>1 DEF TypeOK, KeysMatch, Announced, Present, Announce, Begin, Free, Nothing
<1>5. Victims'
  BY <1>1 DEF TypeOK, KeysMatch, Announced, Victims, Present, Announce, Begin, Free, Nothing
<1>6. Purging'
  BY <1>1 DEF TypeOK, KeysMatch, Victims, Purging, OnPage, Present, Announce, Begin, Free, Nothing
<1>7. Asked'
  BY <1>1 DEF TypeOK, Asked, Announce, Begin, Free, Nothing
<1>. QED
  BY <1>2, <1>3, <1>4, <1>5, <1>6, <1>7 DEF IInv

\* A device that nobody has in its hands takes the place of another.
LEMMA PutKeeps ==
  ASSUME IInv, NEW t \in Threads, NEW d \in Devices, PutDevice(t, d)
  PROVE  IInv'
<1>. USE HeyAssumption
<1>1. TypeOK /\ Asked /\ KeysMatch /\ Announced /\ Victims /\ Purging
  BY DEF IInv
<1>2. TypeOK'
  BY <1>1 DEF TypeOK, PutDevice, Leaves
<1>3. KeysMatch'
  BY <1>1 DEF TypeOK, KeysMatch, PutDevice, Leaves
<1>4. Announced'
  BY <1>1 DEF TypeOK, KeysMatch, Announced, Present, PutDevice, Leaves
<1>5. Victims'
  BY <1>1 DEF TypeOK, KeysMatch, Announced, Victims, Present, PutDevice, Leaves
<1>6. Purging'
  BY <1>1 DEF TypeOK, KeysMatch, Victims, Purging, OnPage, Present, PutDevice, Leaves
<1>7. Asked'
  BY <1>1 DEF TypeOK, Asked, PutDevice, Leaves
<1>. QED
  BY <1>2, <1>3, <1>4, <1>5, <1>6, <1>7 DEF IInv

\* A lookup begins.
LEMMA LookupKeeps ==
  ASSUME IInv, NEW t \in Threads, NEW q \in Queries, Lookup(t, q)
  PROVE  IInv'
<1>. USE HeyAssumption
<1>1. TypeOK /\ Asked /\ KeysMatch /\ Announced /\ Victims /\ Purging
  BY DEF IInv
<1>2. TypeOK'
  BY <1>1 DEF TypeOK, Lookup, Begin
<1>3. KeysMatch'
  BY <1>1 DEF TypeOK, KeysMatch, Lookup, Begin
<1>4. Announced'
  BY <1>1 DEF TypeOK, KeysMatch, Announced, Present, Lookup, Begin
<1>5. Victims'
  BY <1>1 DEF TypeOK, KeysMatch, Announced, Victims, Present, Lookup, Begin
<1>6. Purging'
  BY <1>1 DEF TypeOK, KeysMatch, Victims, Purging, OnPage, Present, Lookup, Begin
<1>7. Asked'
  BY <1>1, LookupKey DEF TypeOK, Asked, Lookup, Begin
<1>. QED
  BY <1>2, <1>3, <1>4, <1>5, <1>6, <1>7 DEF IInv

\* A lookup gets a device that is in the map.
LEMMA LookupGetsKeeps ==
  ASSUME IInv, NEW t \in Threads, LookupGets(t)
  PROVE  IInv'
<1>. USE HeyAssumption
<1>1. TypeOK /\ Asked /\ KeysMatch /\ Announced /\ Victims /\ Purging
  BY DEF IInv
<1>2. TypeOK'
  BY <1>1 DEF TypeOK, Asked, LookupGets, history
<1>3. KeysMatch'
  BY <1>1 DEF TypeOK, KeysMatch, LookupGets, history
<1>4. Announced'
  BY <1>1 DEF TypeOK, Asked, KeysMatch, Announced, Present, LookupGets, history
<1>5. Victims'
  BY <1>1 DEF TypeOK, KeysMatch, Announced, Victims, Present, LookupGets, history
<1>6. Purging'
  BY <1>1 DEF TypeOK, KeysMatch, Victims, Purging, OnPage, Present, LookupGets, history
<1>7. Asked'
  BY <1>1 DEF TypeOK, Asked, LookupGets, history
<1>. QED
  BY <1>2, <1>3, <1>4, <1>5, <1>6, <1>7 DEF IInv

\* A search begins.
LEMMA SearchKeeps ==
  ASSUME IInv, NEW t \in Threads, NEW q \in Queries, Search(t, q)
  PROVE  IInv'
<1>. USE HeyAssumption
<1>1. TypeOK /\ Asked /\ KeysMatch /\ Announced /\ Victims /\ Purging
  BY DEF IInv
<1>2. TypeOK'
  <2>1. Present \subseteq Devices /\ Keys \in (SUBSET Devices) \union (SUBSET Keys)
    BY DEF Present
  <2>. QED
    BY <1>1, <2>1 DEF TypeOK, Search, Begin
<1>3. KeysMatch'
  BY <1>1 DEF TypeOK, KeysMatch, Search, Begin
<1>4. Announced'
  BY <1>1 DEF TypeOK, KeysMatch, Announced, Present, Search, Begin
<1>5. Victims'
  BY <1>1 DEF TypeOK, KeysMatch, Announced, Victims, Present, Search, Begin
<1>6. Purging'
  BY <1>1 DEF TypeOK, KeysMatch, Victims, Purging, OnPage, Present, Search, Begin
<1>7. Asked'
  BY <1>1 DEF TypeOK, Asked, Search, Begin
<1>. QED
  BY <1>2, <1>3, <1>4, <1>5, <1>6, <1>7 DEF IInv

\* A visitor gets a device that is in the map.
LEMMA VisitKeeps ==
  ASSUME IInv, NEW t \in Threads, NEW k \in Keys, Visit(t, k)
  PROVE  IInv'
<1>. USE HeyAssumption
<1>1. TypeOK /\ Asked /\ KeysMatch /\ Announced /\ Victims /\ Purging
  BY DEF IInv
<1>2. TypeOK'
  BY <1>1 DEF TypeOK, Visit, history
<1>3. KeysMatch'
  BY <1>1 DEF TypeOK, KeysMatch, Visit, history
<1>4. Announced'
  BY <1>1 DEF TypeOK, KeysMatch, Announced, Present, Visit, history
<1>5. Victims'
  BY <1>1 DEF TypeOK, KeysMatch, Announced, Victims, Present, Visit, history
<1>6. Purging'
  BY <1>1 DEF TypeOK, KeysMatch, Victims, Purging, OnPage, Present, Visit, history
<1>7. Asked'
  BY <1>1 DEF TypeOK, Asked, Visit, history
<1>. QED
  BY <1>2, <1>3, <1>4, <1>5, <1>6, <1>7 DEF IInv

\* The nearest devices are answered.
LEMMA AnswerNearKeeps ==
  ASSUME IInv, NEW t \in Threads, AnswerNear(t)
  PROVE  IInv'
<1>. USE HeyAssumption
<1>1. TypeOK /\ Asked /\ KeysMatch /\ Announced /\ Victims /\ Purging
  BY DEF IInv
<1>2. TypeOK'
  <2>1. answer' \in [Threads -> SUBSET Answer]
    <3>1. PICK set \in SUBSET InRange(read[t]) : answer' = [answer EXCEPT ![t] = set]
      BY DEF AnswerNear
    <3>2. InRange(read[t]) \subseteq Answer
      BY <1>1, InRangeType DEF TypeOK
    <3>. QED
      BY <1>1, <3>1, <3>2 DEF TypeOK
  <2>. QED
    BY <1>1, <2>1 DEF TypeOK, AnswerNear, history
<1>3. KeysMatch'
  BY <1>1 DEF TypeOK, KeysMatch, AnswerNear, history
<1>4. Announced'
  BY <1>1 DEF TypeOK, KeysMatch, Announced, Present, AnswerNear, history
<1>5. Victims'
  BY <1>1 DEF TypeOK, KeysMatch, Announced, Victims, Present, AnswerNear, history
<1>6. Purging'
  BY <1>1 DEF TypeOK, KeysMatch, Victims, Purging, OnPage, Present, AnswerNear, history
<1>7. Asked'
  BY <1>1 DEF TypeOK, Asked, AnswerNear, history
<1>. QED
  BY <1>2, <1>3, <1>4, <1>5, <1>6, <1>7 DEF IInv

\* The devices at a location are answered.
LEMMA AnswerAtKeeps ==
  ASSUME IInv, NEW t \in Threads, AnswerAt(t)
  PROVE  IInv'
<1>. USE HeyAssumption
<1>1. TypeOK /\ Asked /\ KeysMatch /\ Announced /\ Victims /\ Purging
  BY DEF IInv
<1>2. TypeOK'
  <2>1. \A d \in Devices : [far |-> 0, id |-> IdOf[d]] \in Answer
    BY DEF Answer
  <2>2. answer' \in [Threads -> SUBSET Answer]
    BY <1>1, <2>1 DEF TypeOK, AnswerAt
  <2>. QED
    BY <1>1, <2>2 DEF TypeOK, AnswerAt, history
<1>3. KeysMatch'
  BY <1>1 DEF TypeOK, KeysMatch, AnswerAt, history
<1>4. Announced'
  BY <1>1 DEF TypeOK, KeysMatch, Announced, Present, AnswerAt, history
<1>5. Victims'
  BY <1>1 DEF TypeOK, KeysMatch, Announced, Victims, Present, AnswerAt, history
<1>6. Purging'
  BY <1>1 DEF TypeOK, KeysMatch, Victims, Purging, OnPage, Present, AnswerAt, history
<1>7. Asked'
  BY <1>1 DEF TypeOK, Asked, AnswerAt, history
<1>. QED
  BY <1>2, <1>3, <1>4, <1>5, <1>6, <1>7 DEF IInv

\* A page has to get rid of what is past its hour.
LEMMA PageKeeps ==
  ASSUME IInv, NEW t \in Threads, Page(t)
  PROVE  IInv'
<1>. USE HeyAssumption
<1>1. TypeOK /\ Asked /\ KeysMatch /\ Announced /\ Victims /\ Purging
  BY DEF IInv
<1>2. TypeOK'
  <2>1. Present \subseteq Devices /\ Keys \in (SUBSET Devices) \union (SUBSET Keys)
    BY DEF Present
  <2>. QED
    BY <1>1, <2>1 DEF TypeOK, Page, Begin, Nothing
<1>3. KeysMatch'
  BY <1>1 DEF TypeOK, KeysMatch, Page, Begin, Nothing
<1>4. Announced'
  BY <1>1 DEF TypeOK, KeysMatch, Announced, Present, Page, Begin, Nothing
<1>5. Victims'
  BY <1>1 DEF TypeOK, KeysMatch, Announced, Victims, Present, Page, Begin, Nothing
<1>6. Purging'
  BY <1>1 DEF TypeOK, KeysMatch, Victims, Purging, OnPage, Present, Page, Begin, Nothing
<1>7. Asked'
  BY <1>1 DEF TypeOK, Asked, Page, Begin, Nothing
<1>. QED
  BY <1>2, <1>3, <1>4, <1>5, <1>6, <1>7 DEF IInv

\* A purge passes over a device, or takes it in its hands.
LEMMA PurgeVisitKeeps ==
  ASSUME IInv, NEW t \in Threads, NEW k \in Keys, PurgeVisit(t, k)
  PROVE  IInv'
<1>. USE HeyAssumption
<1>1. TypeOK /\ Asked /\ KeysMatch /\ Announced /\ Victims /\ Purging
  BY DEF IInv
<1>2. TypeOK'
  BY <1>1 DEF TypeOK, PurgeVisit, history
<1>3. KeysMatch'
  BY <1>1 DEF TypeOK, KeysMatch, PurgeVisit, history
<1>4. Announced'
  BY <1>1 DEF TypeOK, KeysMatch, Announced, Present, PurgeVisit, history
<1>5. Victims'
  BY <1>1 DEF TypeOK, KeysMatch, Announced, Victims, Purging, OnPage, Present, PurgeVisit, history
<1>6. Purging'
  BY <1>1 DEF TypeOK, KeysMatch, Victims, Purging, OnPage, Present, PurgeVisit, history
<1>7. Asked'
  BY <1>1 DEF TypeOK, Asked, PurgeVisit, history
<1>. QED
  BY <1>2, <1>3, <1>4, <1>5, <1>6, <1>7 DEF IInv

\* A purge removes the device it has in its hands.
LEMMA RemoveKeeps ==
  ASSUME IInv, NEW t \in Threads, Remove(t)
  PROVE  IInv'
<1>. USE HeyAssumption
<1>1. TypeOK /\ Asked /\ KeysMatch /\ Announced /\ Victims /\ Purging
  BY DEF IInv
<1>2. TypeOK'
  <2>1. PICK d \in read[t] :
          IF clients[KeyOf[d]] = d
          THEN clients' = [clients EXCEPT ![KeyOf[d]] = None] /\ Leaves(d)
          ELSE UNCHANGED <<clients, age, since>>
    BY DEF Remove
  <2>2. clients' \in [Keys -> Devices \union {None}]
    BY <1>1, <2>1 DEF TypeOK
  <2>3. /\ age' \in [Devices -> {"fresh", "stamped", "expired"}]
        /\ since' \in [Threads -> SUBSET Devices]
    BY <1>1, <2>1 DEF TypeOK, Leaves
  <2>4. /\ doing' \in [Threads -> {"idle", "announcing", "lookup", "visiting", "sending",
                                   "purging", "removing", "listing"}]
        /\ read' \in [Threads -> SUBSET Devices]
        /\ UNCHANGED <<connected, query, todo, answer, stayed>>
    BY <1>1 DEF TypeOK, Remove
  <2>. QED
    BY <1>1, <2>2, <2>3, <2>4 DEF TypeOK
<1>3. KeysMatch'
  BY <1>1 DEF TypeOK, KeysMatch, Remove, Leaves
<1>4. Announced'
  BY <1>1 DEF TypeOK, KeysMatch, Announced, Present, Remove, Leaves
<1>5. Victims'
  BY <1>1 DEF TypeOK, KeysMatch, Announced, Victims, Present, Remove, Leaves
<1>6. Purging'
  BY <1>1 DEF TypeOK, KeysMatch, Victims, Purging, OnPage, Present, Remove, Leaves
<1>7. Asked'
  BY <1>1 DEF TypeOK, Asked, Remove, Leaves
<1>. QED
  BY <1>2, <1>3, <1>4, <1>5, <1>6, <1>7 DEF IInv

\* A purge is over: there is nothing left to get rid of.
LEMMA ListKeeps ==
  ASSUME IInv, NEW t \in Threads, List(t)
  PROVE  IInv'
<1>. USE HeyAssumption
<1>1. TypeOK /\ Asked /\ KeysMatch /\ Announced /\ Victims /\ Purging
  BY DEF IInv
<1>2. TypeOK'
  BY <1>1 DEF TypeOK, List, history
<1>3. KeysMatch'
  BY <1>1 DEF TypeOK, KeysMatch, List, history
<1>4. Announced'
  BY <1>1 DEF TypeOK, KeysMatch, Announced, Present, List, history
<1>5. Victims'
  BY <1>1 DEF TypeOK, KeysMatch, Announced, Victims, Present, List, history
<1>6. Purging'
  BY <1>1 DEF TypeOK, KeysMatch, Victims, Purging, OnPage, Present, List, history
<1>7. Asked'
  BY <1>1 DEF TypeOK, Asked, List, history
<1>. QED
  BY <1>2, <1>3, <1>4, <1>5, <1>6, <1>7 DEF IInv

\* Time passes.
LEMMA HourKeeps ==
  ASSUME IInv, NEW d \in Devices, AnHourPasses(d)
  PROVE  IInv'
<1>. USE HeyAssumption
<1>1. TypeOK /\ Asked /\ KeysMatch /\ Announced /\ Victims /\ Purging
  BY DEF IInv
<1>2. TypeOK'
  BY <1>1 DEF TypeOK, AnHourPasses, threadVars, history
<1>3. KeysMatch'
  BY <1>1 DEF TypeOK, KeysMatch, AnHourPasses, threadVars, history
<1>4. Announced'
  BY <1>1 DEF TypeOK, KeysMatch, Announced, Present, AnHourPasses, threadVars, history
<1>5. Victims'
  BY <1>1 DEF TypeOK, KeysMatch, Announced, Victims, Present, AnHourPasses, threadVars, history
<1>6. Purging'
  BY <1>1 DEF TypeOK, KeysMatch, Victims, Purging, OnPage, Present, AnHourPasses, threadVars, history
<1>7. Asked'
  BY <1>1 DEF TypeOK, Asked, AnHourPasses, threadVars, history
<1>. QED
  BY <1>2, <1>3, <1>4, <1>5, <1>6, <1>7 DEF IInv

\* A client comes: its devices need not go.
LEMMA ComesKeeps ==
  ASSUME IInv, NEW i \in Ids, ClientComes(i)
  PROVE  IInv'
<1>. USE HeyAssumption
<1>1. TypeOK /\ Asked /\ KeysMatch /\ Announced /\ Victims /\ Purging
  BY DEF IInv
<1>2. TypeOK'
  BY <1>1 DEF TypeOK, ClientComes, threadVars
<1>3. KeysMatch'
  BY <1>1 DEF TypeOK, KeysMatch, ClientComes, threadVars
<1>4. Announced'
  BY <1>1 DEF TypeOK, KeysMatch, Announced, Present, ClientComes, threadVars
<1>5. Victims'
  BY <1>1 DEF TypeOK, KeysMatch, Announced, Victims, Present, ClientComes, threadVars
<1>6. Purging'
  BY <1>1 DEF TypeOK, KeysMatch, Victims, Purging, OnPage, Present, ClientComes, threadVars
<1>7. Asked'
  BY <1>1 DEF TypeOK, Asked, ClientComes, threadVars
<1>. QED
  BY <1>2, <1>3, <1>4, <1>5, <1>6, <1>7 DEF IInv

\* A client goes.
LEMMA GoesKeeps ==
  ASSUME IInv, NEW i \in Ids, ClientGoes(i)
  PROVE  IInv'
<1>. USE HeyAssumption
<1>1. TypeOK /\ Asked /\ KeysMatch /\ Announced /\ Victims /\ Purging
  BY DEF IInv
<1>2. TypeOK'
  BY <1>1 DEF TypeOK, ClientGoes, threadVars
<1>3. KeysMatch'
  BY <1>1 DEF TypeOK, KeysMatch, ClientGoes, threadVars
<1>4. Announced'
  BY <1>1 DEF TypeOK, KeysMatch, Announced, Present, ClientGoes, threadVars
<1>5. Victims'
  BY <1>1 DEF TypeOK, KeysMatch, Announced, Victims, Present, ClientGoes, threadVars
<1>6. Purging'
  BY <1>1 DEF TypeOK, KeysMatch, Victims, Purging, OnPage, Present, ClientGoes, threadVars
<1>7. Asked'
  BY <1>1 DEF TypeOK, Asked, ClientGoes, threadVars
<1>. QED
  BY <1>2, <1>3, <1>4, <1>5, <1>6, <1>7 DEF IInv

----------------------------------------------------------------------------
(* The invariant.                                                             *)

LEMMA NextKeeps == IInv /\ [Next]_vars => IInv'
<1>. SUFFICES ASSUME IInv, [Next]_vars
              PROVE  IInv'
  OBVIOUS
<1>1. ASSUME NEW t \in Threads, ThreadStep(t)
      PROVE  IInv'
  <2>1. ASSUME NEW devices \in SUBSET Devices, Announce(t, devices)
        PROVE  IInv'
    BY <2>1, AnnounceKeeps
  <2>2. ASSUME NEW d \in Devices, PutDevice(t, d)
        PROVE  IInv'
    BY <2>2, PutKeeps
  <2>3. ASSUME NEW q \in Queries, Lookup(t, q) \/ Search(t, q)
        PROVE  IInv'
    BY <2>3, LookupKeeps, SearchKeeps
  <2>4. ASSUME NEW k \in Keys, Visit(t, k) \/ PurgeVisit(t, k)
        PROVE  IInv'
    BY <2>4, VisitKeeps, PurgeVisitKeeps
  <2>5. CASE LookupGets(t)
    BY <2>5, LookupGetsKeeps
  <2>6. CASE AnswerNear(t) \/ AnswerAt(t)
    BY <2>6, AnswerNearKeeps, AnswerAtKeeps
  <2>7. CASE Page(t) \/ Remove(t) \/ List(t)
    BY <2>7, PageKeeps, RemoveKeeps, ListKeeps
  <2>8. CASE EndAnnounce(t) \/ LookupThrows(t) \/ AnswerThrows(t) \/ Send(t) \/ ShowPage(t)
    BY <2>8, EndKeeps DEF EndAnnounce, LookupThrows, AnswerThrows, Send, ShowPage
  <2>. QED
    BY <1>1, <2>1, <2>2, <2>3, <2>4, <2>5, <2>6, <2>7, <2>8 DEF ThreadStep
<1>2. ASSUME NEW d \in Devices, AnHourPasses(d)
      PROVE  IInv'
  BY <1>2, HourKeeps
<1>3. ASSUME NEW i \in Ids, ClientComes(i) \/ ClientGoes(i)
      PROVE  IInv'
  BY <1>3, ComesKeeps, GoesKeeps
<1>4. CASE UNCHANGED vars
  BY <1>4
  DEF IInv, TypeOK, Asked, KeysMatch, Announced, Victims, Purging, OnPage, Present,
      vars, threadVars, history
<1>. QED
  BY <1>1, <1>2, <1>3, <1>4 DEF Next

LEMMA InitHolds == Init => IInv
  BY HeyAssumption
  DEF Init, IInv, TypeOK, Asked, KeysMatch, Announced, Victims, Purging, OnPage

\* The inductive invariant holds in every reachable state.
THEOREM Invariance == Spec => []IInv
<1>1. Init => IInv
  BY InitHolds
<1>2. IInv /\ [Next]_vars => IInv'
  BY NextKeeps
<1>. QED
  BY <1>1, <1>2, PTL DEF Spec

----------------------------------------------------------------------------
(* The theorems.                                                              *)

\* Every variable keeps its type.
THEOREM TypeCorrect == Spec => []TypeOK
<1>1. IInv => TypeOK
  BY DEF IInv
<1>. QED
  BY <1>1, Invariance, PTL

\* A purge removes no device whose client is there all the while.
THEOREM ConnectedDevicesStay == Spec => []ConnectedStays
<1>1. IInv => ConnectedStays
  BY DEF IInv, Victims, ConnectedStays
<1>. QED
  BY <1>1, Invariance, PTL

\* A page shows nothing that was stale when it was asked for.
THEOREM PagesAreClean == Spec => []PageShowsNoStale
<1>1. IInv => PageShowsNoStale
  BY DEF IInv, Purging, OnPage, PageShowsNoStale
<1>. QED
  BY <1>1, Invariance, PTL

\* Only a device past its hour is removed.
THEOREM OnlyExpiredArePurged == Spec => PurgedIsExpired
<1>1. ASSUME IInv, [Next]_vars
      PROVE  [\A k \in Keys : clients[k] # None /\ clients'[k] = None
                => age[clients[k]] = "expired"]_vars
  <2>. USE HeyAssumption
  <2>. SUFFICES ASSUME NEW k \in Keys, clients[k] # None, clients'[k] = None
                PROVE  age[clients[k]] = "expired"
    OBVIOUS
  <2>1. TypeOK /\ KeysMatch /\ Victims
    BY <1>1 DEF IInv
  <2>2. clients' # clients
    OBVIOUS
  <2>3. ASSUME NEW t \in Threads, NEW d \in Devices, PutDevice(t, d)
        PROVE  FALSE
    BY <2>1, <2>3 DEF TypeOK, PutDevice
  <2>4. ASSUME NEW t \in Threads, Remove(t)
        PROVE  age[clients[k]] = "expired"
    BY <2>1, <2>4 DEF TypeOK, KeysMatch, Victims, Remove
  <2>. QED
    BY <1>1, <2>2, <2>3, <2>4
    DEF Next, ThreadStep, Announce, Lookup, LookupGets, LookupThrows, Search, Visit,
        AnswerNear, AnswerThrows, AnswerAt, Send, Page, PurgeVisit, List, ShowPage,
        EndAnnounce, Begin, End, AnHourPasses, ClientComes, ClientGoes, vars
<1>. QED
  BY <1>1, Invariance, PTL DEF Spec, PurgedIsExpired
----------------------------------------------------------------------------
(* Searches.  What is in the map from the beginning to the end of one is under *)
(* a key it has still to visit, or has been read (Searching); nothing changes  *)
(* an answer, and what it has to hold only gets less.                          *)

Searching ==
  \A t \in Threads : doing[t] = "visiting" =>
    \A d \in since[t] :
      /\ clients[KeyOf[d]] = d
      /\ KeyOf[d] \in todo[t] \/ d \in read[t]

LookupAsks == \A t \in Threads : doing[t] = "lookup" => query[t].do = "lookup"

SInv == IInv /\ Searching /\ LookupAsks /\ EveryoneAtLocation /\ NearestKept

\* Of the nearest, those left out are farther away than any that is kept.
LEMMA NearestFacts ==
  ASSUME NEW fars \in SUBSET Nat, NEW n \in Int, NEW f \in fars
  PROVE  f \in Nearest(fars, n) \/ \A g \in Nearest(fars, n) : g < f
<1> SUFFICES ASSUME NEW g \in Nearest(fars, n), ~(g < f)
             PROVE  f \in Nearest(fars, n)
  OBVIOUS
<1> DEFINE belowF == {h \in fars : h < f}
           belowG == {h \in fars : h < g}
<1>1. g \in fars /\ Cardinality(belowG) < n
  BY DEF Nearest
<1>2. f \in Nat /\ g \in Nat /\ f <= g
  BY <1>1
<1>3. belowF \subseteq belowG
  <2>1. ASSUME NEW h \in fars, h < f
        PROVE  h < g
    <3>1. h \in Nat
      OBVIOUS
    <3> QED
      BY <1>2, <2>1, <3>1
  <2> QED
    BY <2>1
<1>4. belowG \subseteq 0..g
  <2>1. ASSUME NEW h \in fars, h < g
        PROVE  h \in 0..g
    <3>1. h \in Nat
      OBVIOUS
    <3> QED
      BY <1>2, <2>1, <3>1
  <2> QED
    BY <2>1
<1>5. IsFiniteSet(0..g)
  BY <1>2, FS_Interval
<1>6. IsFiniteSet(belowG)
  BY <1>4, <1>5, FS_Subset
<1>7. /\ Cardinality(belowF) <= Cardinality(belowG)
      /\ Cardinality(belowF) \in Nat /\ Cardinality(belowG) \in Nat
  BY <1>3, <1>6, FS_Subset, FS_CardinalityType
<1>8. Cardinality(belowF) < n
  BY <1>1, <1>7
<1> QED
  BY <1>8 DEF Nearest

\* If any are left out, the rest are as many as were asked for: the number of nearer
\* ones tells the distances apart, and takes each value below their number.
LEMMA NearestCount ==
  ASSUME NEW fars \in SUBSET Nat, IsFiniteSet(fars), NEW n \in Nat,
         NEW f \in fars, f \notin Nearest(fars, n)
  PROVE  /\ IsFiniteSet(Nearest(fars, n))
         /\ Cardinality(Nearest(fars, n)) = n
<1> DEFINE rank == [h \in fars |-> Cardinality({g \in fars : g < h})]
           N == Cardinality(fars)
           kept == Nearest(fars, n)
<1>1. N \in Nat
  BY FS_CardinalityType
<1>2. ASSUME NEW h \in fars
      PROVE  /\ IsFiniteSet({g \in fars : g < h})
             /\ rank[h] \in 0..(N - 1)
  <2> DEFINE below == {g \in fars : g < h}
  <2>1. h \notin below
    OBVIOUS
  <2>2. below \subseteq fars \ {h}
    BY <2>1
  <2>3. IsFiniteSet(fars \ {h}) /\ Cardinality(fars \ {h}) = N - 1
    BY FS_RemoveElement
  <2>4. IsFiniteSet(below) /\ Cardinality(below) <= N - 1
    BY <2>2, <2>3, FS_Subset
  <2>5. Cardinality(below) \in Nat
    BY <2>4, FS_CardinalityType
  <2>6. rank[h] = Cardinality(below)
    OBVIOUS
  <2> HIDE DEF rank, below, N
  <2>7. rank[h] \in 0..(N - 1)
    BY <1>1, <2>4, <2>5, <2>6
  <2> QED
    BY <2>4, <2>7 DEF below
<1>3. ASSUME NEW g \in fars, NEW h \in fars, g < h
      PROVE  rank[g] < rank[h]
  <2> DEFINE belowG == {x \in fars : x < g}
             belowH == {x \in fars : x < h}
  <2>1. belowG \union {g} \subseteq belowH
    <3>1. ASSUME NEW x \in fars, x < g
          PROVE  x < h
      <4>1. x \in Nat /\ g \in Nat /\ h \in Nat
        OBVIOUS
      <4> QED
        BY <1>3, <3>1, <4>1
    <3> QED
      BY <1>3, <3>1
  <2>2. g \notin belowG
    OBVIOUS
  <2>3. IsFiniteSet(belowG) /\ IsFiniteSet(belowH)
    BY <1>2
  <2>4. Cardinality(belowG \union {g}) = Cardinality(belowG) + 1
    BY <2>2, <2>3, FS_AddElement
  <2>5. Cardinality(belowG \union {g}) <= Cardinality(belowH)
    BY <2>1, <2>3, FS_Subset
  <2>6. Cardinality(belowG) \in Nat /\ Cardinality(belowH) \in Nat
    BY <2>3, FS_CardinalityType
  <2>7. rank[g] = Cardinality(belowG) /\ rank[h] = Cardinality(belowH)
    OBVIOUS
  <2> HIDE DEF rank, belowG, belowH
  <2> QED
    BY <2>4, <2>5, <2>6, <2>7
<1>4. DOMAIN rank = fars /\ rank = [h \in fars |-> rank[h]]
  OBVIOUS
<1>5. kept = {h \in fars : rank[h] < n}
  BY DEF Nearest
<1>6. rank[f] \in 0..(N - 1) /\ n <= rank[f]
  <2>1. ~(rank[f] < n) /\ rank[f] \in 0..(N - 1)
    BY <1>2, <1>5
  <2> HIDE DEF rank, N
  <2> QED
    BY <1>1, <2>1
<1> HIDE DEF rank, N, kept
<1>7. \A g, h \in fars : rank[g] = rank[h] => g = h
  <2> SUFFICES ASSUME NEW g \in fars, NEW h \in fars, rank[g] = rank[h], g # h
               PROVE  FALSE
    OBVIOUS
  <2>1. g \in Nat /\ h \in Nat
    OBVIOUS
  <2>2. g < h \/ h < g
    BY <2>1
  <2>3. rank[g] \in 0..(N - 1)
    BY <1>2
  <2> QED
    BY <1>1, <1>3, <2>2, <2>3
<1>8. rank \in Injection(fars, 0..(N - 1))
  BY <1>2, <1>4, <1>7 DEF Injection, IsInjective
<1>9. IsFiniteSet(0..(N - 1)) /\ Cardinality(0..(N - 1)) = N
  BY <1>1, FS_Interval
<1>10. rank \in Surjection(fars, 0..(N - 1))
  BY <1>8, <1>9, FS_Injection DEF N
<1>11. \A i \in 0..(n - 1) : \E h \in kept : rank[h] = i
  <2> SUFFICES ASSUME NEW i \in 0..(n - 1)
               PROVE  \E h \in kept : rank[h] = i
    OBVIOUS
  <2>1. i \in 0..(N - 1) /\ i < n
    BY <1>1, <1>6
  <2> QED
    BY <1>5, <1>10, <2>1 DEF Surjection
<1> DEFINE counted == [h \in kept |-> rank[h]]
<1>12. ASSUME NEW h \in kept
       PROVE  h \in fars /\ rank[h] \in 0..(n - 1)
  <2>1. h \in fars /\ rank[h] < n
    BY <1>5
  <2>2. rank[h] \in 0..(N - 1)
    BY <1>2, <2>1
  <2> QED
    BY <1>1, <2>1, <2>2
<1>13. counted \in Bijection(kept, 0..(n - 1))
  BY <1>7, <1>11, <1>12 DEF Bijection, Injection, Surjection, IsInjective
<1>14. IsFiniteSet(kept)
  BY <1>12, FS_Subset
<1>15. Cardinality(0..(n - 1)) = Cardinality(kept)
  BY <1>13, <1>14, FS_Bijection DEF ExistsBijection
<1> QED
  BY <1>14, <1>15, FS_Interval DEF kept

\* A thread that a step leaves alone: it keeps its search and its answer, and
\* what leaves the map it need not consider any more.
Spared(u) ==
  /\ doing'[u] = doing[u] /\ query'[u] = query[u]
  /\ todo'[u] = todo[u] /\ read'[u] = read[u] /\ answer'[u] = answer[u]
  /\ since'[u] \subseteq since[u]
  /\ \A d \in since'[u] : clients[KeyOf[d]] = d => clients'[KeyOf[d]] = d

\* The invariants, of one thread.
Sound(u) ==
  /\ doing[u] = "lookup" => query[u].do = "lookup"
  /\ doing[u] = "visiting" =>
       \A d \in since[u] : clients[KeyOf[d]] = d /\ (KeyOf[d] \in todo[u] \/ d \in read[u])
  /\ doing[u] = "sending" /\ query[u].do = "at" =>
       \A d \in since[u] : \A p \in PlacesOf[d] : p.label = query[u].label =>
         \E a \in answer[u] : a.id = IdOf[d]
  /\ doing[u] = "sending" /\ query[u].do = "near" =>
       \A d \in since[u] : \A p \in PlacesOf[d] : p.far < DISTANCE =>
         \/ \E a \in answer[u] : a.far = p.far
         \/ /\ Cardinality(answer[u]) = query[u].closest
            /\ \A a \in answer[u] : a.far < p.far

LEMMA SoundParts ==
  (\A u \in Threads : Sound(u)) <=> Searching /\ LookupAsks /\ EveryoneAtLocation /\ NearestKept
<1>1. \A u \in Threads : \A p : p \in Places(u) <=> \E d \in since[u] : p \in PlacesOf[d]
  BY DEF Places
<1>2. (\A u \in Threads : Sound(u)) => Searching /\ LookupAsks /\ EveryoneAtLocation
  BY DEF Sound, Searching, LookupAsks, EveryoneAtLocation
<1>3. (\A u \in Threads : Sound(u)) => NearestKept
  BY <1>1 DEF Sound, NearestKept
<1>4. Searching /\ LookupAsks /\ EveryoneAtLocation /\ NearestKept => \A u \in Threads : Sound(u)
  BY <1>1 DEF Sound, Searching, LookupAsks, EveryoneAtLocation, NearestKept
<1> QED
  BY <1>2, <1>3, <1>4

LEMMA SparedSound ==
  ASSUME NEW u \in Threads, Sound(u), Spared(u)
  PROVE  Sound(u)'
  BY DEF Sound, Spared

\* A search begins with what is there.
LEMMA SearchSound ==
  ASSUME IInv, NEW t \in Threads, NEW q \in Queries, Search(t, q)
  PROVE  Sound(t)' /\ \A u \in Threads \ {t} : Spared(u)
<1> USE HeyAssumption
<1>1. TypeOK
  BY DEF IInv
<1>2. /\ doing'[t] = "visiting" /\ todo'[t] = Keys /\ since'[t] = Present
      /\ clients' = clients
  BY <1>1 DEF TypeOK, Search, Begin
<1>3. \A d \in Present : clients[KeyOf[d]] = d /\ KeyOf[d] \in Keys
  BY DEF Present
<1>4. Sound(t)'
  <2>1. \A d \in since'[t] : clients'[KeyOf[d]] = d /\ KeyOf[d] \in todo'[t]
    BY <1>2, <1>3
  <2> QED
    BY <1>2, <2>1 DEF Sound
<1>5. \A u \in Threads \ {t} : Spared(u)
  BY <1>1 DEF TypeOK, Search, Begin, Spared
<1> QED
  BY <1>4, <1>5

\* A key that is visited gives what there is.
LEMMA VisitSound ==
  ASSUME IInv, NEW t \in Threads, Sound(t), NEW k \in Keys, Visit(t, k)
  PROVE  Sound(t)' /\ \A u \in Threads \ {t} : Spared(u)
<1> USE HeyAssumption
<1>1. TypeOK
  BY DEF IInv
<1>2. /\ doing'[t] = doing[t] /\ doing[t] \in {"visiting", "listing"}
      /\ todo'[t] = todo[t] \ {k} /\ since'[t] = since[t] /\ clients' = clients
      /\ read'[t] = read[t] \union ({clients[k]} \ {None})
  BY <1>1 DEF TypeOK, Visit, history
<1>3. ASSUME NEW d \in since[t], doing[t] = "visiting"
      PROVE  clients[KeyOf[d]] = d /\ (KeyOf[d] \in todo'[t] \/ d \in read'[t])
  <2>1. d \in Devices /\ d # None
    BY <1>1 DEF TypeOK
  <2> QED
    BY <1>2, <1>3, <2>1 DEF Sound
<1>4. Sound(t)'
  <2>1. doing'[t] = "visiting" =>
          \A d \in since'[t] : clients'[KeyOf[d]] = d /\ (KeyOf[d] \in todo'[t] \/ d \in read'[t])
    BY <1>2, <1>3
  <2> QED
    BY <1>2, <2>1 DEF Sound
<1>5. \A u \in Threads \ {t} : Spared(u)
  BY <1>1 DEF TypeOK, Visit, history, Spared
<1> QED
  BY <1>4, <1>5

\* An answer about a location is made of all that was read.
LEMMA AnswerAtSound ==
  ASSUME IInv, NEW t \in Threads, Sound(t), AnswerAt(t)
  PROVE  Sound(t)' /\ \A u \in Threads \ {t} : Spared(u)
<1>1. TypeOK
  BY DEF IInv
<1>2. /\ doing'[t] = "sending" /\ query'[t] = query[t] /\ query[t].do = "at"
      /\ since'[t] = since[t]
      /\ answer'[t] = {[far |-> 0, id |-> IdOf[d]] :
            d \in {e \in read[t] : \E p \in PlacesOf[e] : p.label = query[t].label}}
  BY <1>1 DEF TypeOK, AnswerAt, history
<1>3. \A d \in since[t] : d \in read[t]
  BY DEF Sound, AnswerAt
<1>4. \A d \in since'[t] : \A p \in PlacesOf[d] : p.label = query'[t].label =>
        \E a \in answer'[t] : a.id = IdOf[d]
  <2> SUFFICES ASSUME NEW d \in since'[t], NEW p \in PlacesOf[d], p.label = query'[t].label
               PROVE  \E a \in answer'[t] : a.id = IdOf[d]
    OBVIOUS
  <2>1. [far |-> 0, id |-> IdOf[d]] \in answer'[t]
    BY <1>2, <1>3
  <2> QED
    BY <2>1
<1>5. Sound(t)'
  BY <1>2, <1>4 DEF Sound
<1>6. \A u \in Threads \ {t} : Spared(u)
  BY <1>1 DEF TypeOK, AnswerAt, history, Spared
<1> QED
  BY <1>5, <1>6

\* An answer about the nearest is made of all distances that were read.
LEMMA AnswerNearSound ==
  ASSUME IInv, NEW t \in Threads, Sound(t), AnswerNear(t)
  PROVE  Sound(t)' /\ \A u \in Threads \ {t} : Spared(u)
<1> USE HeyAssumption
<1> DEFINE fars == {e.far : e \in InRange(read[t])}
           kept == Nearest(fars, query[t].closest)
<1>1. TypeOK
  BY DEF IInv
<1>2. query[t].do = "near" /\ query[t] \in Queries
  BY <1>1 DEF TypeOK, AnswerNear, Queries, Nothing
<1>3. query[t].closest \in Int
  <2>1. \A q \in [do : {"lookup"}, key : Keys] : q.do = "lookup"
    OBVIOUS
  <2>2. \A q \in [do : {"at"}, label : Labels] : q.do = "at"
    OBVIOUS
  <2>3. \A q \in [do : {"near"}, closest : Limits] : q.closest \in Limits
    OBVIOUS
  <2> QED
    BY <1>2, <2>1, <2>2, <2>3 DEF Queries
<1>4. PICK name \in [kept -> Ids] :
        answer' = [answer EXCEPT ![t] = {[far |-> f, id |-> name[f]] : f \in kept}]
  BY DEF AnswerNear
<1>5. /\ doing'[t] = "sending" /\ query'[t] = query[t] /\ since'[t] = since[t]
      /\ answer'[t] = {[far |-> f, id |-> name[f]] : f \in kept}
  BY <1>1, <1>4 DEF TypeOK, AnswerNear, history
<1>6. since[t] \subseteq read[t] /\ read[t] \subseteq Devices
  BY <1>1 DEF Sound, AnswerNear, TypeOK
<1>7. fars \subseteq Nat
  BY <1>6, InRangeType DEF Answer
<1>8. IsFiniteSet(fars)
  <2>1. \A e \in InRange(read[t]) : e.far < DISTANCE
    BY DEF InRange
  <2>2. \A x \in fars : x \in Nat /\ x < DISTANCE
    BY <1>7, <2>1
  <2> HIDE DEF fars
  <2>3. fars \subseteq 0..DISTANCE
    BY <2>2
  <2>4. IsFiniteSet(0..DISTANCE)
    BY FS_Interval
  <2> QED
    BY <2>3, <2>4, FS_Subset
<1>9. ASSUME NEW d \in since[t], NEW p \in PlacesOf[d], p.far < DISTANCE
      PROVE  \/ \E a \in answer'[t] : a.far = p.far
             \/ /\ Cardinality(answer'[t]) = query[t].closest
                /\ \A a \in answer'[t] : a.far < p.far
  <2>1. [far |-> p.far, id |-> IdOf[d]] \in InRange(read[t])
    BY <1>6, <1>9 DEF InRange
  <2>2. p.far \in fars
    BY <2>1
  <2> HIDE DEF fars
  <2>3. p.far \in kept \/ \A g \in kept : g < p.far
    BY <1>3, <1>7, <2>2, NearestFacts
  <2> HIDE DEF kept
  <2>4. \A a \in answer'[t] : a.far \in kept
    BY <1>5
  <2>5. ASSUME NEW f \in kept
        PROVE  \E a \in answer'[t] : a.far = f
    <3>1. [far |-> f, id |-> name[f]] \in answer'[t]
      BY <1>5
    <3> QED
      BY <3>1
  <2>6. ASSUME p.far \notin kept
        PROVE  Cardinality(answer'[t]) = query[t].closest
    <3>1. query[t].closest \in Nat
      BY <1>3 DEF AnswerNear
    <3>2. IsFiniteSet(kept) /\ Cardinality(kept) = query[t].closest
      BY <1>7, <1>8, <2>2, <2>6, <3>1, NearestCount DEF kept
    <3> DEFINE answerOf == [f \in kept |-> [far |-> f, id |-> name[f]]]
    <3>3. answerOf \in Bijection(kept, answer'[t])
      <4>1. \A f \in kept : answerOf[f] \in answer'[t] /\ answerOf[f].far = f
        BY <1>5
      <4>2. \A a \in answer'[t] : \E f \in kept : answerOf[f] = a
        BY <1>5
      <4>3. DOMAIN answerOf = kept /\ answerOf = [f \in kept |-> answerOf[f]]
        OBVIOUS
      <4> HIDE DEF answerOf
      <4>4. answerOf \in [kept -> answer'[t]]
        BY <4>1, <4>3
      <4>5. \A f, g \in kept : answerOf[f] = answerOf[g] => f = g
        BY <4>1
      <4> QED
        BY <4>2, <4>4, <4>5 DEF Bijection, Injection, Surjection, IsInjective
    <3> HIDE DEF answerOf
    <3> QED
      BY <3>2, <3>3, FS_Bijection DEF ExistsBijection
  <2> QED
    BY <2>3, <2>4, <2>5, <2>6
<1>10. Sound(t)'
  BY <1>2, <1>5, <1>9 DEF Sound
<1>11. \A u \in Threads \ {t} : Spared(u)
  BY <1>1 DEF TypeOK, AnswerNear, history, Spared
<1> QED
  BY <1>10, <1>11

\* The other steps of a thread neither search nor answer a search.
LEMMA OtherSound ==
  ASSUME IInv, NEW t \in Threads, Sound(t),
         \/ \E devices \in SUBSET Devices : Announce(t, devices)
         \/ \E q \in Queries : Lookup(t, q)
         \/ EndAnnounce(t) \/ LookupGets(t) \/ LookupThrows(t) \/ AnswerThrows(t) \/ Send(t)
         \/ \E k \in Keys : PurgeVisit(t, k)
         \/ Page(t) \/ List(t) \/ ShowPage(t)
  PROVE  Sound(t)' /\ \A u \in Threads \ {t} : Spared(u)
<1>1. TypeOK
  BY DEF IInv
<1>2. ASSUME \/ EndAnnounce(t) \/ LookupThrows(t) \/ AnswerThrows(t) \/ Send(t) \/ ShowPage(t)
      PROVE  Sound(t)' /\ \A u \in Threads \ {t} : Spared(u)
  <2>1. End(t)
    BY <1>2 DEF EndAnnounce, LookupThrows, AnswerThrows, Send, ShowPage
  <2>2. doing'[t] = "idle"
    BY <1>1, <2>1 DEF TypeOK, End
  <2> QED
    BY <1>1, <2>1, <2>2 DEF TypeOK, End, Sound, Spared
<1>3. ASSUME \/ \E devices \in SUBSET Devices : Announce(t, devices)
             \/ \E q \in Queries : Lookup(t, q)
             \/ Page(t)
      PROVE  Sound(t)' /\ \A u \in Threads \ {t} : Spared(u)
  <2>1. \/ doing'[t] \in {"announcing", "purging"}
        \/ doing'[t] = "lookup" /\ query'[t].do = "lookup"
    BY <1>1, <1>3 DEF TypeOK, Announce, Lookup, Page, Begin
  <2>2. Sound(t)'
    BY <2>1 DEF Sound
  <2>3. \A u \in Threads \ {t} : Spared(u)
    BY <1>1, <1>3 DEF TypeOK, Announce, Lookup, Page, Begin, Spared
  <2> QED
    BY <2>2, <2>3
<1>4. ASSUME LookupGets(t)
      PROVE  Sound(t)' /\ \A u \in Threads \ {t} : Spared(u)
  <2>1. doing'[t] = "sending" /\ query'[t].do = "lookup"
    BY <1>1, <1>4 DEF TypeOK, LookupGets, Sound
  <2> QED
    BY <1>1, <1>4, <2>1 DEF TypeOK, LookupGets, history, Sound, Spared
<1>5. ASSUME List(t) \/ \E k \in Keys : PurgeVisit(t, k)
      PROVE  Sound(t)' /\ \A u \in Threads \ {t} : Spared(u)
  <2>1. doing'[t] \in {"purging", "removing", "listing"}
    BY <1>1, <1>5 DEF TypeOK, List, PurgeVisit
  <2>2. Sound(t)'
    BY <2>1 DEF Sound
  <2>3. \A u \in Threads \ {t} : Spared(u)
    BY <1>1, <1>5 DEF TypeOK, List, PurgeVisit, history, Spared
  <2> QED
    BY <2>2, <2>3
<1> QED
  BY <1>2, <1>3, <1>4, <1>5

\* A device that is put takes the place of one that nobody need consider any more.
LEMMA PutSound ==
  ASSUME IInv, NEW t \in Threads, NEW d \in Devices, PutDevice(t, d)
  PROVE  Sound(t)' /\ \A u \in Threads \ {t} : Spared(u)
<1> USE HeyAssumption
<1>1. TypeOK /\ KeysMatch
  BY DEF IInv
<1>2. doing'[t] = "announcing"
  BY <1>1 DEF TypeOK, PutDevice
<1>3. Sound(t)'
  BY <1>2 DEF Sound
<1>4. ASSUME NEW u \in Threads \ {t}
      PROVE  Spared(u)
  <2>1. /\ clients' = [clients EXCEPT ![KeyOf[d]] = d]
        /\ since' = [x \in Threads |-> since[x] \ {clients[KeyOf[d]]}]
    BY DEF PutDevice, Leaves
  <2>2. ASSUME NEW e \in since'[u], clients[KeyOf[e]] = e
        PROVE  clients'[KeyOf[e]] = e
    <3>1. e \in Devices /\ e # clients[KeyOf[d]]
      BY <1>1, <2>1 DEF TypeOK
    <3>2. KeyOf[e] # KeyOf[d]
      BY <2>2, <3>1
    <3> QED
      BY <1>1, <2>1, <2>2, <3>1, <3>2 DEF TypeOK
  <2>3. since'[u] \subseteq since[u]
    BY <2>1
  <2>4. /\ doing'[u] = doing[u] /\ query'[u] = query[u] /\ todo'[u] = todo[u]
        /\ read'[u] = read[u] /\ answer'[u] = answer[u]
    BY <1>1 DEF TypeOK, PutDevice
  <2> QED
    BY <2>2, <2>3, <2>4 DEF Spared
<1> QED
  BY <1>3, <1>4

\* So is one that is purged.
LEMMA RemoveSound ==
  ASSUME IInv, NEW t \in Threads, Remove(t)
  PROVE  Sound(t)' /\ \A u \in Threads \ {t} : Spared(u)
<1> USE HeyAssumption
<1>1. TypeOK
  BY DEF IInv
<1>2. doing'[t] = "purging"
  BY <1>1 DEF TypeOK, Remove
<1>3. Sound(t)'
  BY <1>2 DEF Sound
<1>4. PICK d \in read[t] :
        IF clients[KeyOf[d]] = d
        THEN clients' = [clients EXCEPT ![KeyOf[d]] = None] /\ Leaves(d)
        ELSE UNCHANGED <<clients, age, since>>
  BY DEF Remove
<1>5. d \in Devices
  BY <1>1 DEF TypeOK
<1>6. ASSUME NEW u \in Threads \ {t}
      PROVE  Spared(u)
  <2>1. \/ UNCHANGED <<clients, since>>
        \/ /\ clients' = [clients EXCEPT ![KeyOf[d]] = None]
           /\ since' = [x \in Threads |-> since[x] \ {d}]
           /\ clients[KeyOf[d]] = d
    BY <1>4 DEF Leaves
  <2>2. ASSUME NEW e \in since'[u], clients[KeyOf[e]] = e
        PROVE  clients'[KeyOf[e]] = e
    <3>1. since'[u] \subseteq Devices
      BY <1>1, <2>1 DEF TypeOK
    <3> QED
      BY <1>1, <1>5, <2>1, <2>2, <3>1 DEF TypeOK
  <2>3. since'[u] \subseteq since[u]
    BY <2>1
  <2>4. /\ doing'[u] = doing[u] /\ query'[u] = query[u] /\ todo'[u] = todo[u]
        /\ read'[u] = read[u] /\ answer'[u] = answer[u]
    BY <1>1 DEF TypeOK, Remove
  <2> QED
    BY <2>2, <2>3, <2>4 DEF Spared
<1> QED
  BY <1>3, <1>6

\* Clients come and go, and time passes: every search is spared.
LEMMA AroundSpares ==
  ASSUME IInv,
         \/ \E d \in Devices : AnHourPasses(d)
         \/ \E i \in Ids : ClientComes(i) \/ ClientGoes(i)
         \/ UNCHANGED vars
  PROVE  \A u \in Threads : Spared(u)
<1>1. TypeOK
  BY DEF IInv
<1>2. ASSUME NEW i \in Ids, ClientComes(i)
      PROVE  \A u \in Threads : Spared(u)
  BY <1>2 DEF ClientComes, threadVars, Spared
<1> QED
  BY <1>1, <1>2 DEF AnHourPasses, ClientGoes, threadVars, history, vars, Spared

LEMMA SearchesSound ==
  ASSUME IInv, \A u \in Threads : Sound(u), [Next]_vars
  PROVE  \A u \in Threads : Sound(u)'
<1>1. ASSUME NEW t \in Threads, ThreadStep(t)
      PROVE  Sound(t)' /\ \A u \in Threads \ {t} : Spared(u)
  <2>1. ASSUME NEW q \in Queries, Search(t, q)
        PROVE  Sound(t)' /\ \A u \in Threads \ {t} : Spared(u)
    BY <2>1, SearchSound
  <2>2. ASSUME NEW k \in Keys, Visit(t, k)
        PROVE  Sound(t)' /\ \A u \in Threads \ {t} : Spared(u)
    BY <2>2, VisitSound
  <2>3. ASSUME NEW d \in Devices, PutDevice(t, d)
        PROVE  Sound(t)' /\ \A u \in Threads \ {t} : Spared(u)
    BY <2>3, PutSound
  <2>4. CASE AnswerAt(t)
    BY <2>4, AnswerAtSound
  <2>5. CASE AnswerNear(t)
    BY <2>5, AnswerNearSound
  <2>6. CASE Remove(t)
    BY <2>6, RemoveSound
  <2> QED
    BY <1>1, <2>1, <2>2, <2>3, <2>4, <2>5, <2>6, OtherSound DEF ThreadStep
<1>2. ASSUME NEW t \in Threads, ThreadStep(t), NEW u \in Threads
      PROVE  Sound(u)'
  BY <1>1, <1>2, SparedSound
<1>3. ASSUME ~\E t \in Threads : ThreadStep(t), NEW u \in Threads
      PROVE  Sound(u)'
  BY <1>3, AroundSpares, SparedSound DEF Next
<1> QED
  BY <1>2, <1>3

\* A search that walks the map while it changes misses nobody: all who are registered
\* at a location are answered, and of the nearest as many as were asked for.
THEOREM SearchesFind == Spec => []SearchMissesNobody
<1>1. Init => SInv
  <2>1. Init => \A u \in Threads : Sound(u)
    BY DEF Init, Sound
  <2> QED
    BY <2>1, InitHolds, SoundParts DEF SInv
<1>2. SInv /\ [Next]_vars => SInv'
  <2> SUFFICES ASSUME SInv, [Next]_vars PROVE SInv'
    OBVIOUS
  <2>1. \A u \in Threads : Sound(u)'
    BY SoundParts, SearchesSound DEF SInv
  <2>2. (\A u \in Threads : Sound(u))'
    BY <2>1
  <2>3. (Searching /\ LookupAsks /\ EveryoneAtLocation /\ NearestKept)'
    BY <2>2, SoundParts, PTL
  <2> QED
    BY <2>3, NextKeeps DEF SInv
<1>3. SInv => SearchMissesNobody
  BY DEF SInv, SearchMissesNobody
<1> QED
  BY <1>1, <1>2, <1>3, PTL DEF Spec

=============================================================================
