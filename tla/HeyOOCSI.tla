------------------------------ MODULE HeyOOCSI ------------------------------
(* The registry of heyOOCSI devices.                                          *)
(*                                                                            *)
(* HeyOOCSIClient keeps a ConcurrentHashMap of devices.  Announcements and    *)
(* queries arrive as messages, on the threads of the clients that sent them;  *)
(* the page of devices is made on threads of the web server, and removes      *)
(* stale devices before it lists the others.  Only announcements exclude each *)
(* other.  Walks over the map are weakly consistent: each key is looked at    *)
(* once, and gives what the map holds then.                                   *)
(*                                                                            *)
(* A device is an OOCSIDevice object: what it says is fixed when it is made,  *)
(* and announcing the same again makes another object.  Only its time stamp   *)
(* changes; two pages that stamp it at once write the same time.              *)
EXTENDS Integers, FiniteSets, Functions

CONSTANTS Threads,   \* threads that send messages or make pages
          Keys,      \* names of devices, the keys of the map
          Ids,       \* device ids, which are handles of clients
          Labels,    \* names of locations, equal up to case
          Devices,   \* bound: OOCSIDevice objects that exist at once
          KeyOf,     \* what each of them says: its name,
          IdOf,      \* its device_id,
          PlacesOf,  \* and its locations: label and distance from a point
          DISTANCE,  \* the radius that queries about the point ask for
          Limits,    \* the values of "closest"
          None       \* null

ASSUME HeyAssumption ==
  /\ KeyOf \in [Devices -> Keys]
  /\ IdOf \in [Devices -> Ids]
  /\ PlacesOf \in [Devices -> SUBSET [label : Labels, far : Nat]]
  /\ DISTANCE \in Nat
  /\ Limits \subseteq Int
  /\ None \notin Devices

\* The queries: a device by its name, the devices near the point, and the
\* devices at a location.
Queries ==
  [do : {"lookup"}, key : Keys]
    \union [do : {"near"}, closest : Limits]
    \union [do : {"at"}, label : Labels]
Nothing == [do |-> "nothing"]

VARIABLES
  clients,    \* the map
  age,        \* of a device in the map: fresh, stamped, or an hour after that
  connected,  \* the ids the server has a client for
  doing,      \* what each thread is about
  query,      \* the query it answers
  todo,       \* what it has still to go through: devices to put, or keys to visit
  read,       \* the devices it has got from the map
  answer,     \* the ids it is about to send, with their distance
  since,      \* history: what it has to consider, and is there since it began
  stayed      \* history: the ids whose client is there since its page began

threadVars == <<doing, query, todo, read, answer>>
history == <<since, stayed>>
vars == <<clients, age, connected, threadVars, history>>

Answer == [far : Nat, id : Ids]

TypeOK ==
  /\ clients \in [Keys -> Devices \union {None}]
  /\ age \in [Devices -> {"fresh", "stamped", "expired"}]
  /\ connected \subseteq Ids
  /\ doing \in [Threads -> {"idle", "announcing", "lookup", "visiting", "sending",
                            "purging", "removing", "listing"}]
  /\ query \in [Threads -> Queries \union {Nothing}]
  /\ todo \in [Threads -> (SUBSET Devices) \union (SUBSET Keys)]
  /\ read \in [Threads -> SUBSET Devices]
  /\ answer \in [Threads -> SUBSET Answer]
  /\ since \in [Threads -> SUBSET Devices]
  /\ stayed \in [Threads -> SUBSET Ids]

----------------------------------------------------------------------------
(* Helpers.                                                                   *)

Present == {d \in Devices : clients[KeyOf[d]] = d}

\* An object that nothing refers to stands for the next one that is made.
Free(d) ==
  /\ d \notin Present
  /\ \A t \in Threads : d \notin read[t] /\ d \notin todo[t]

\* A device leaves the map, because it is purged or replaced.  Its stamp is not
\* looked at again, and a new object has none.
Leaves(d) ==
  /\ since' = [t \in Threads |-> since[t] \ {d}]
  /\ age' = [x \in Devices |-> IF x = d THEN "fresh" ELSE age[x]]

OnPage(t) == doing[t] \in {"purging", "removing", "listing"}

Begin(t, what, q, items, devices, ids) ==
  /\ doing[t] = "idle"
  /\ doing' = [doing EXCEPT ![t] = what]
  /\ query' = [query EXCEPT ![t] = q]
  /\ todo' = [todo EXCEPT ![t] = items]
  /\ since' = [since EXCEPT ![t] = devices]
  /\ stayed' = [stayed EXCEPT ![t] = ids]
  /\ UNCHANGED <<clients, age, connected, read, answer>>

End(t) ==
  /\ doing' = [doing EXCEPT ![t] = "idle"]
  /\ query' = [query EXCEPT ![t] = Nothing]
  /\ todo' = [todo EXCEPT ![t] = {}]
  /\ read' = [read EXCEPT ![t] = {}]
  /\ answer' = [answer EXCEPT ![t] = {}]
  /\ since' = [since EXCEPT ![t] = {}]
  /\ stayed' = [stayed EXCEPT ![t] = {}]
  /\ UNCHANGED <<clients, age, connected>>

----------------------------------------------------------------------------
(* Mutations: the definition each is named after, with a plausible slip.  The *)
(* specification uses none of them; a property is kept only if one breaks it. *)

\* The map is asked for the device's value without a look whether it is there.
VisitUnchecked(t, k) ==
  /\ doing[t] \in {"visiting", "listing"}
  /\ k \in todo[t]
  /\ todo' = [todo EXCEPT ![t] = @ \ {k}]
  /\ read' = [read EXCEPT ![t] = @ \union {clients[k]}]
  /\ UNCHANGED <<clients, age, connected, doing, query, answer, history>>

\* purgeable alone decides.
PurgeVisitExpired(t, k) ==
  /\ doing[t] = "purging"
  /\ k \in todo[t]
  /\ todo' = [todo EXCEPT ![t] = @ \ {k}]
  /\ LET d == clients[k] IN
     IF d # None /\ age[d] = "expired"
     THEN /\ doing' = [doing EXCEPT ![t] = "removing"]
          /\ read' = [read EXCEPT ![t] = {d}]
          /\ UNCHANGED age
     ELSE /\ age' = [x \in Devices |-> IF x = d /\ age[x] = "fresh" THEN "stamped" ELSE age[x]]
          /\ UNCHANGED <<doing, read>>
  /\ UNCHANGED <<clients, connected, query, answer, history>>

\* clients.remove(key) instead of the iterator's removal.
RemoveByKey(t) ==
  /\ doing[t] = "removing"
  /\ \E d \in read[t] :
       /\ clients' = [clients EXCEPT ![KeyOf[d]] = None]
       /\ Leaves(clients[KeyOf[d]])
  /\ doing' = [doing EXCEPT ![t] = "purging"]
  /\ read' = [read EXCEPT ![t] = {}]
  /\ UNCHANGED <<connected, query, todo, answer, stayed>>

\* The purge ends with the first device it removes.
RemoveFirst(t) ==
  /\ doing[t] = "removing"
  /\ \E d \in read[t] :
       IF clients[KeyOf[d]] = d
       THEN clients' = [clients EXCEPT ![KeyOf[d]] = None] /\ Leaves(d)
       ELSE UNCHANGED <<clients, age, since>>
  /\ doing' = [doing EXCEPT ![t] = "purging"]
  /\ todo' = [todo EXCEPT ![t] = {}]
  /\ read' = [read EXCEPT ![t] = {}]
  /\ UNCHANGED <<connected, query, answer, stayed>>

\* Sorted the other way round.
NearestReversed(fars, n) == {f \in fars : Cardinality({g \in fars : g > f}) < n}

----------------------------------------------------------------------------
Init ==
  /\ clients = [k \in Keys |-> None]
  /\ age = [d \in Devices |-> "fresh"]
  /\ connected \in SUBSET Ids
  /\ doing = [t \in Threads |-> "idle"]
  /\ query = [t \in Threads |-> Nothing]
  /\ todo = [t \in Threads |-> {}]
  /\ read = [t \in Threads |-> {}]
  /\ answer = [t \in Threads |-> {}]
  /\ since = [t \in Threads |-> {}]
  /\ stayed = [t \in Threads |-> {}]

----------------------------------------------------------------------------
(* Announcements, under the lock on the map.                                  *)

\* A message about some devices, of different names.
Announce(t, devices) ==
  /\ devices # {}
  /\ \A d \in devices : Free(d)
  /\ IsInjective([d \in devices |-> KeyOf[d]])
  /\ \A u \in Threads : doing[u] # "announcing"
  /\ Begin(t, "announcing", Nothing, devices, {}, {})

\* The next of them is parsed and put, in place of the one of that name.
PutDevice(t, d) ==
  /\ doing[t] = "announcing"
  /\ d \in todo[t]
  /\ clients' = [clients EXCEPT ![KeyOf[d]] = d]
  /\ Leaves(clients[KeyOf[d]])
  /\ todo' = [todo EXCEPT ![t] = @ \ {d}]
  /\ UNCHANGED <<connected, doing, query, read, answer, stayed>>

\* The lock is released after the last one, or when one is malformed: the
\* exception leaves the ones before it in the map.
EndAnnounce(t) == doing[t] = "announcing" /\ End(t)

----------------------------------------------------------------------------
(* Queries.                                                                   *)

\* containsKey
Lookup(t, q) ==
  /\ q.do = "lookup"
  /\ clients[q.key] # None
  /\ Begin(t, "lookup", q, {}, {}, {})

\* get, which a purge may have come before: the null is then dereferenced, and
\* the exception reaches the client that asked.
LookupGets(t) ==
  /\ doing[t] = "lookup"
  /\ clients[query[t].key] # None
  /\ doing' = [doing EXCEPT ![t] = "sending"]
  /\ read' = [read EXCEPT ![t] = {clients[query[t].key]}]
  /\ UNCHANGED <<clients, age, connected, query, todo, answer, history>>

LookupThrows(t) ==
  /\ doing[t] = "lookup"
  /\ clients[query[t].key] = None
  /\ End(t)

Search(t, q) ==
  /\ q.do \in {"near", "at"}
  /\ Begin(t, "visiting", q, Keys, Present, {})

\* clients.values().stream().forEach
Visit(t, k) ==
  /\ doing[t] \in {"visiting", "listing"}
  /\ k \in todo[t]
  /\ todo' = [todo EXCEPT ![t] = @ \ {k}]
  /\ read' = [read EXCEPT ![t] = @ \union ({clients[k]} \ {None})]
  /\ UNCHANGED <<clients, age, connected, doing, query, answer, history>>

\* The ids within the distance.
InRange(devices) ==
  UNION {{[far |-> p.far, id |-> IdOf[d]] :
            p \in {q \in PlacesOf[d] : q.far < DISTANCE}} : d \in devices}

\* sorted and limit, of the distances.
Nearest(fars, n) == {f \in fars : Cardinality({g \in fars : g < f}) < n}

\* The map of names has the distance for its key: of the devices at the same
\* distance the one put last is kept.
AnswerNear(t) ==
  /\ doing[t] = "visiting" /\ todo[t] = {}
  /\ query[t].do = "near" /\ query[t].closest >= 0
  /\ LET fars == Nearest({e.far : e \in InRange(read[t])}, query[t].closest) IN
     \E name \in [fars -> Ids] :
       /\ {[far |-> f, id |-> name[f]] : f \in fars} \subseteq InRange(read[t])
       /\ answer' = [answer EXCEPT ![t] = {[far |-> f, id |-> name[f]] : f \in fars}]
  /\ doing' = [doing EXCEPT ![t] = "sending"]
  /\ UNCHANGED <<clients, age, connected, query, todo, read, history>>

\* A negative limit throws.
AnswerThrows(t) ==
  /\ doing[t] = "visiting" /\ todo[t] = {}
  /\ query[t].do = "near" /\ query[t].closest < 0
  /\ End(t)

AnswerAt(t) ==
  /\ doing[t] = "visiting" /\ todo[t] = {}
  /\ query[t].do = "at"
  /\ answer' = [answer EXCEPT ![t] =
       {[far |-> 0, id |-> IdOf[d]] :
          d \in {e \in read[t] : \E p \in PlacesOf[e] : p.label = query[t].label}}]
  /\ doing' = [doing EXCEPT ![t] = "sending"]
  /\ UNCHANGED <<clients, age, connected, query, todo, read, history>>

\* The answer goes to the client that asked, if it is still there.
Send(t) == doing[t] = "sending" /\ End(t)

----------------------------------------------------------------------------
(* The page: devicesByLocation.                                               *)

\* What is past its hour, and without a client, has to go.
Page(t) ==
  Begin(t, "purging", Nothing, Keys,
        {d \in Present : age[d] = "expired" /\ IdOf[d] \notin connected}, connected)

\* purgeStaleClients looks at a device: purgeable stamps it the first time.  A
\* device past its hour is asked for at the server.
PurgeVisit(t, k) ==
  /\ doing[t] = "purging"
  /\ k \in todo[t]
  /\ todo' = [todo EXCEPT ![t] = @ \ {k}]
  /\ LET d == clients[k] IN
     IF d # None /\ age[d] = "expired" /\ IdOf[d] \notin connected
     THEN /\ doing' = [doing EXCEPT ![t] = "removing"]
          /\ read' = [read EXCEPT ![t] = {d}]
          /\ UNCHANGED age
     ELSE /\ age' = [x \in Devices |-> IF x = d /\ age[x] = "fresh" THEN "stamped" ELSE age[x]]
          /\ UNCHANGED <<doing, read>>
  /\ UNCHANGED <<clients, connected, query, answer, history>>

\* removeIf removes the key only if it still has that device.
Remove(t) ==
  /\ doing[t] = "removing"
  /\ \E d \in read[t] :
       IF clients[KeyOf[d]] = d
       THEN clients' = [clients EXCEPT ![KeyOf[d]] = None] /\ Leaves(d)
       ELSE UNCHANGED <<clients, age, since>>
  /\ doing' = [doing EXCEPT ![t] = "purging"]
  /\ read' = [read EXCEPT ![t] = {}]
  /\ UNCHANGED <<connected, query, todo, answer, stayed>>

List(t) ==
  /\ doing[t] = "purging" /\ todo[t] = {}
  /\ doing' = [doing EXCEPT ![t] = "listing"]
  /\ todo' = [todo EXCEPT ![t] = Keys]
  /\ UNCHANGED <<clients, age, connected, query, read, answer, history>>

ShowPage(t) == doing[t] = "listing" /\ todo[t] = {} /\ End(t)

----------------------------------------------------------------------------
(* Around the registry.                                                       *)

AnHourPasses(d) ==
  /\ age[d] = "stamped"
  /\ age' = [age EXCEPT ![d] = "expired"]
  /\ UNCHANGED <<clients, connected, threadVars, history>>

ClientComes(i) ==
  /\ i \notin connected
  /\ connected' = connected \union {i}
  /\ since' = [t \in Threads |->
       IF OnPage(t) THEN {d \in since[t] : IdOf[d] # i} ELSE since[t]]
  /\ UNCHANGED <<clients, age, threadVars, stayed>>

ClientGoes(i) ==
  /\ i \in connected
  /\ connected' = connected \ {i}
  /\ stayed' = [t \in Threads |-> stayed[t] \ {i}]
  /\ UNCHANGED <<clients, age, threadVars, since>>

----------------------------------------------------------------------------
ThreadStep(t) ==
  \/ \E devices \in SUBSET Devices : Announce(t, devices)
  \/ \E d \in Devices : PutDevice(t, d)
  \/ EndAnnounce(t)
  \/ \E q \in Queries : Lookup(t, q) \/ Search(t, q)
  \/ LookupGets(t) \/ LookupThrows(t)
  \/ \E k \in Keys : Visit(t, k) \/ PurgeVisit(t, k)
  \/ AnswerNear(t) \/ AnswerThrows(t) \/ AnswerAt(t) \/ Send(t)
  \/ Page(t) \/ Remove(t) \/ List(t) \/ ShowPage(t)

Next ==
  \/ \E t \in Threads : ThreadStep(t)
  \/ \E d \in Devices : AnHourPasses(d)
  \/ \E i \in Ids : ClientComes(i) \/ ClientGoes(i)

Spec == Init /\ [][Next]_vars

----------------------------------------------------------------------------
(* Safety.                                                                    *)

\* Only a device past its hour is removed.  A device announced again between the
\* look and the removal, under the same name, stays.
PurgedIsExpired ==
  [][\A k \in Keys : clients[k] # None /\ clients'[k] = None
       => age[clients[k]] = "expired"]_vars

\* A device whose client is in the server from the beginning to the end of a
\* purge is not removed by it.
ConnectedStays ==
  \A t \in Threads : doing[t] = "removing" =>
    \A d \in read[t] : IdOf[d] \notin stayed[t]

\* What was past its hour, and without a client, when a page was asked for, and
\* stayed so, is not on the page: the purge is over before the page is made, even
\* if other pages purge, and clients announce, at the same time.
PageShowsNoStale ==
  \A t \in Threads : doing[t] = "listing" => read[t] \intersect since[t] = {}

Places(t) == UNION {PlacesOf[d] : d \in since[t]}

\* Of the devices registered all through a query for the nearest, one is left out
\* only if another one is as near, or if the answer is full of nearer ones.
NearestKept ==
  \A t \in Threads : doing[t] = "sending" /\ query[t].do = "near" =>
    \A p \in Places(t) : p.far < DISTANCE =>
      \/ \E a \in answer[t] : a.far = p.far
      \/ /\ Cardinality(answer[t]) = query[t].closest
         /\ \A a \in answer[t] : a.far < p.far

\* A query for a location leaves out no device registered there all through it.
EveryoneAtLocation ==
  \A t \in Threads : doing[t] = "sending" /\ query[t].do = "at" =>
    \A d \in since[t] : \A p \in PlacesOf[d] : p.label = query[t].label =>
      \E a \in answer[t] : a.id = IdOf[d]

\* A search that walks the map while it changes misses nobody it should have found.
SearchMissesNobody == NearestKept /\ EveryoneAtLocation

\* A query that is not truncated answers every device within the distance: "build
\* list of all client within given distance".
EveryoneInRange ==
  \A t \in Threads : doing[t] = "sending" /\ query[t].do = "near" =>
    \A d \in since[t] : \A p \in PlacesOf[d] :
      p.far < DISTANCE /\ Cardinality(answer[t]) < query[t].closest =>
        \E a \in answer[t] : a.id = IdOf[d]
=============================================================================
