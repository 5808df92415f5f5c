----------------------- MODULE WebSocketSession_proofs -----------------------
(* Safety of WebSocketSession for any connections, names and channels, any    *)
(* number of frames and any limit of the server.                              *)
EXTENDS WebSocketSession, TLAPS

\* A client that is known to the server has an actor that takes commands ...
Serving(c) == actor[c] \in {"ready", "pong"}
RegisteredServe == \A c \in registered : Serving(c)
\* ... and so has every subscriber, registered or refused.
SubscribersServe == \A s \in subscribed : Serving(s[1])
\* An actor beyond the handle has a name, so that postStop has a client.
Named == \A c \in Connections : Serving(c) \/ actor[c] = "naming" => name[c] # NoName
\* pong has seen a permit missing; only pong brings one back.
PongHasRoom == \A c \in Connections : actor[c] = "pong" => permits[c] < PINGS
\* ActorFlow starts an actor with its connection, not before.
ActorsConnect == \A c \in Connections : socket[c] = "absent" => actor[c] = "absent"
\* The handle is answered after the client is named, and only then.
NotYetGreeted == \A c \in Connections :
  actor[c] \in {"absent", "open", "naming"} => greeting[c] = "none"

\* Together, and with the types, they are inductive.
Rest ==
  /\ NamesUnique
  /\ RegisteredServe
  /\ SubscribersServe
  /\ Named
  /\ PongHasRoom
  /\ ActorsConnect
  /\ NotYetGreeted

IInv == TypeOK /\ Rest

----------------------------------------------------------------------------
(* The mailbox.                                                               *)

\* What is taken from a mailbox is a frame or the pill, and the rest is mail.
LEMMA MailFacts ==
  ASSUME TypeOK, NEW c \in Connections, mailbox[c] # <<>>
  PROVE  /\ Head(mailbox[c]) \in Frames \union {PoisonPill}
         /\ Tail(mailbox[c]) \in Seq(Frames \union {PoisonPill})
<1>1. mailbox[c] \in Seq(Frames \union {PoisonPill})
  BY DEF TypeOK
<1> QED
  BY <1>1

\* What is added keeps a mailbox one.
LEMMA EnqueueFacts ==
  ASSUME TypeOK, NEW c \in Connections, NEW m \in Frames \union {PoisonPill}, Enqueue(c, m)
  PROVE  mailbox' \in [Connections -> Seq(Frames \union {PoisonPill})]
<1>1. mailbox[c] \in Seq(Frames \union {PoisonPill})
  BY DEF TypeOK
<1>2. Append(mailbox[c], m) \in Seq(Frames \union {PoisonPill})
  BY <1>1
<1> QED
  BY <1>2 DEF Enqueue, TypeOK

\* Taking one off does as well.
LEMMA ConsumeFacts ==
  ASSUME TypeOK, NEW c \in Connections, Receives(c), Consume(c)
  PROVE  /\ Head(mailbox[c]) \in Frames
         /\ mailbox' \in [Connections -> Seq(Frames \union {PoisonPill})]
<1>1. Head(mailbox[c]) \in Frames /\ Tail(mailbox[c]) \in Seq(Frames \union {PoisonPill})
  BY MailFacts DEF Receives
<1> QED
  BY <1>1 DEF Consume, TypeOK

\* A command names the channel it is for.
LEMMA CommandFacts ==
  ASSUME NEW f \in Frames
  PROVE  /\ f.do \in {"subscribe", "unsubscribe", "sendjson"} => f.arg \in Channels
         /\ f.do = "handle" => f.arg \in Names
         /\ f # PoisonPill
  BY DEF Frames, PoisonPill

LEMMA PillIsNoName == NoName \notin ClientNames
  BY SessionAssumption DEF ClientNames

----------------------------------------------------------------------------
(* Induction.                                                                 *)

LEMMA Initially == Init => IInv
  BY SessionAssumption
     DEF Init, IInv, Rest, TypeOK, NamesUnique, RegisteredServe, SubscribersServe, Named,
         PongHasRoom, ActorsConnect, NotYetGreeted, Serving

\* postStop, whoever stops the actor, removes all the server has of its client.
LEMMA PostStopFacts ==
  ASSUME IInv, NEW c \in Connections, actor[c] \in {"open", "ready"}, PostStop(c)
  PROVE  /\ registered' = registered \ {c}
         /\ subscribed' = {s \in subscribed : s[1] # c}
         /\ actor' = [actor EXCEPT ![c] = "stopped"]
         /\ mailbox' \in [Connections -> Seq(Frames \union {PoisonPill})]
         /\ socket' = [socket EXCEPT ![c] = "closed"]
         /\ UNCHANGED <<frames, name, greeting, permits>>
<1> USE DEF IInv, Rest, TypeOK, PostStop
<1>1. CASE actor[c] = "ready"
  BY <1>1 DEF RemoveClient, Named, Serving
<1>2. CASE actor[c] = "open" /\ name[c] # NoName
  BY <1>2 DEF RemoveClient
<1>3. CASE actor[c] = "open" /\ name[c] = NoName
  <2>1. c \notin registered /\ \A s \in subscribed : s[1] # c
    BY <1>3 DEF RegisteredServe, SubscribersServe, Serving
  <2>2. registered = registered \ {c} /\ subscribed = {s \in subscribed : s[1] # c}
    BY <2>1
  <2>3. registered' = registered /\ subscribed' = subscribed
    BY <1>3
  <2>4. mailbox' \in [Connections -> Seq(Frames \union {PoisonPill})]
    OBVIOUS
  <2> QED
    BY <2>2, <2>3, <2>4
<1> QED
  BY <1>1, <1>2, <1>3

\* A stopped actor keeps everything else as it was.
LEMMA StoppedKeeps ==
  ASSUME IInv, NEW c \in Connections, actor[c] \in {"open", "ready"}, PostStop(c),
         published' \subseteq [by : Connections, as : ClientNames]
  PROVE  IInv'
<1> USE DEF IInv, Rest
<1>1. TypeOK'
  BY PostStopFacts DEF TypeOK
<1>2. NamesUnique'
  BY PostStopFacts DEF NamesUnique
<1>3. RegisteredServe' /\ SubscribersServe'
  BY PostStopFacts, SMTT(30) DEF RegisteredServe, SubscribersServe, Serving, TypeOK
<1>4. Named' /\ PongHasRoom' /\ ActorsConnect'
  BY PostStopFacts, ZenonT(30) DEF Named, PongHasRoom, ActorsConnect, Serving, TypeOK
<1>5. NotYetGreeted'
  BY PostStopFacts DEF NotYetGreeted, TypeOK
<1> QED
  BY <1>1, <1>2, <1>3, <1>4, <1>5

\* A message goes out under the name of a client that has one.
LEMMA PublishedFacts ==
  ASSUME IInv, NEW c \in Connections, actor[c] = "ready",
         published' \in {published, published \union {[by |-> c, as |-> name[c]]}}
  PROVE  published' \subseteq [by : Connections, as : ClientNames]
<1>1. name[c] \in ClientNames
  BY DEF IInv, Rest, TypeOK, Named, Serving
<1> QED
  BY <1>1 DEF IInv, Rest, TypeOK

LEMMA ActorKeeps ==
  ASSUME IInv, NEW c \in Connections, ActorStep(c)
  PROVE  IInv'
<1> USE SessionAssumption DEF IInv, Rest, browserVars, serverVars
<1>1. CASE TakeHandle(c)
  <2>1. /\ Head(mailbox[c]) \in Frames
        /\ mailbox' \in [Connections -> Seq(Frames \union {PoisonPill})]
    BY <1>1, ConsumeFacts DEF TakeHandle
  <2>2. NamesFor(Head(mailbox[c])) \subseteq ClientNames
    BY <2>1, CommandFacts DEF NamesFor, ClientNames
  <2>3. PICK n \in ClientNames : name' = [name EXCEPT ![c] = n]
    BY <1>1, <2>2 DEF TakeHandle
  <2>4. TypeOK'
    BY <1>1, <2>1, <2>3 DEF TakeHandle, TypeOK
  <2>5. Rest'
    BY <1>1, <2>3, PillIsNoName
       DEF TakeHandle, TypeOK, NamesUnique, RegisteredServe, SubscribersServe, Named,
           PongHasRoom, ActorsConnect, NotYetGreeted, Serving
  <2> QED
    BY <2>4, <2>5
<1>2. CASE Welcome(c)
  <2>1. TypeOK'
    BY <1>2 DEF Welcome, TypeOK
  <2>2. NamesUnique'
    BY <1>2 DEF Welcome, Admits, Taken, NamesUnique
  <2>3. (RegisteredServe /\ SubscribersServe /\ Named /\ PongHasRoom /\ ActorsConnect /\ NotYetGreeted)'
    BY <1>2
       DEF Welcome, TypeOK, RegisteredServe, SubscribersServe, Named, PongHasRoom,
           ActorsConnect, NotYetGreeted, Serving
  <2> QED
    BY <2>1, <2>2, <2>3
<1>3. CASE Reject(c)
  <2>1. TypeOK'
    BY <1>3, EnqueueFacts DEF Reject, TypeOK
  <2>2. Rest'
    BY <1>3
       DEF Reject, TypeOK, NamesUnique, RegisteredServe, SubscribersServe, Named,
           PongHasRoom, ActorsConnect, NotYetGreeted, Serving
  <2> QED
    BY <2>1, <2>2
<1>4. CASE Subscribe(c)
  <2>1. Head(mailbox[c]).arg \in Channels
        /\ mailbox' \in [Connections -> Seq(Frames \union {PoisonPill})]
    BY <1>4, ConsumeFacts, CommandFacts DEF Subscribe, Commanded
  <2>2. TypeOK'
    BY <1>4, <2>1, SMTT(30) DEF Subscribe, TypeOK
  <2>3. SubscribersServe'
    BY <1>4 DEF Subscribe, Commanded, SubscribersServe, Serving
  <2>4. (NamesUnique /\ RegisteredServe /\ Named /\ PongHasRoom /\ ActorsConnect /\ NotYetGreeted)'
    BY <1>4
       DEF Subscribe, NamesUnique, RegisteredServe, Named, PongHasRoom, ActorsConnect,
           NotYetGreeted, Serving
  <2> QED
    BY <2>2, <2>3, <2>4
<1>5. CASE Unsubscribe(c)
  <2>1. mailbox' \in [Connections -> Seq(Frames \union {PoisonPill})]
    BY <1>5, ConsumeFacts DEF Unsubscribe, Commanded
  <2>2. TypeOK'
    BY <1>5, <2>1 DEF Unsubscribe, TypeOK
  <2>3. Rest'
    BY <1>5
       DEF Unsubscribe, NamesUnique, RegisteredServe, SubscribersServe, Named,
           PongHasRoom, ActorsConnect, NotYetGreeted, Serving
  <2> QED
    BY <2>2, <2>3
<1>6. CASE SendJson(c)
  <2>1. mailbox' \in [Connections -> Seq(Frames \union {PoisonPill})]
    BY <1>6, ConsumeFacts DEF SendJson, Commanded
  <2>2. published' \subseteq [by : Connections, as : ClientNames]
    BY <1>6, PublishedFacts DEF SendJson, Commanded
  <2>3. TypeOK'
    BY <1>6, <2>1, <2>2 DEF SendJson, TypeOK
  <2>4. Rest'
    BY <1>6
       DEF SendJson, NamesUnique, RegisteredServe, SubscribersServe, Named,
           PongHasRoom, ActorsConnect, NotYetGreeted, Serving
  <2> QED
    BY <2>3, <2>4
<1>7. CASE Pong(c)
  <2>1. mailbox' \in [Connections -> Seq(Frames \union {PoisonPill})]
    BY <1>7, ConsumeFacts DEF Pong, Commanded
  <2>2. TypeOK'
    BY <1>7, <2>1 DEF Pong, TypeOK
  <2>3. Rest'
    BY <1>7
       DEF Pong, Commanded, TypeOK, NamesUnique, RegisteredServe, SubscribersServe, Named,
           PongHasRoom, ActorsConnect, NotYetGreeted, Serving
  <2> QED
    BY <2>2, <2>3
<1>8. CASE Release(c)
  <2>1. TypeOK'
    BY <1>8, SMTT(30) DEF Release, TypeOK, PongHasRoom, ActorsConnect
  <2>2. Rest'
    BY <1>8
       DEF Release, TypeOK, NamesUnique, RegisteredServe, SubscribersServe, Named,
           PongHasRoom, ActorsConnect, NotYetGreeted, Serving
  <2> QED
    BY <2>1, <2>2
<1>9. CASE Stop(c)
  BY <1>9, StoppedKeeps DEF Stop, TypeOK
<1>10. CASE SendJsonThrows(c)
  BY <1>10, StoppedKeeps, PublishedFacts DEF SendJsonThrows
<1> QED
  BY <1>1, <1>2, <1>3, <1>4, <1>5, <1>6, <1>7, <1>8, <1>9, <1>10 DEF ActorStep

\* The browser and the network open connections and add to mailboxes, no more.
LEMMA BrowserKeeps ==
  ASSUME IInv, NEW c \in Connections, BrowserStep(c)
  PROVE  IInv'
<1> USE SessionAssumption DEF IInv, Rest, browserVars, serverVars
<1> USE DEF NamesUnique, RegisteredServe, SubscribersServe, Named, PongHasRoom,
            ActorsConnect, NotYetGreeted, Serving
<1>1. CASE Connect(c)
  <2>1. TypeOK'
    BY <1>1 DEF Connect, TypeOK
  <2>2. Rest'
    <3>1. actor[c] = "absent" /\ c \notin registered /\ \A s \in subscribed : s[1] # c
      BY <1>1 DEF Connect
    <3>2. actor' = [actor EXCEPT ![c] = "open"]
      BY <1>1 DEF Connect
    <3> QED
      BY <1>1, <3>1, <3>2 DEF Connect, TypeOK
  <2> QED
    BY <2>1, <2>2
<1>2. CASE RefuseConnection(c)
  BY <1>2 DEF RefuseConnection, TypeOK
<1>3. CASE CloseSocket(c)
  <2>1. mailbox' \in [Connections -> Seq(Frames \union {PoisonPill})]
    BY <1>3, EnqueueFacts DEF CloseSocket
  <2>2. TypeOK'
    BY <1>3, <2>1 DEF CloseSocket, TypeOK
  <2>3. Rest'
    BY <1>3 DEF CloseSocket, TypeOK
  <2> QED
    BY <2>2, <2>3
<1>4. ASSUME NEW f \in Frames, Arrive(c, f) PROVE IInv'
  <2>1. mailbox' \in [Connections -> Seq(Frames \union {PoisonPill})]
    BY <1>4, EnqueueFacts DEF Arrive
  <2>2. frames' \in [Connections -> 0..MaxFrames]
    BY <1>4 DEF Arrive, TypeOK
  <2>3. TypeOK'
    BY <1>4, <2>1, <2>2 DEF Arrive, TypeOK
  <2> QED
    BY <1>4, <2>3 DEF Arrive
<1> QED
  BY <1>1, <1>2, <1>3, <1>4 DEF BrowserStep

\* The server's own threads take permits, and take clients out.
LEMMA ServerKeeps ==
  ASSUME IInv, NEW c \in Connections, Ping(c) \/ Disconnect(c)
  PROVE  IInv'
<1> USE SessionAssumption DEF IInv, Rest, browserVars, serverVars, NamesUnique, RegisteredServe,
          SubscribersServe, Named, PongHasRoom, ActorsConnect, NotYetGreeted, Serving
<1>1. CASE Ping(c)
  BY <1>1 DEF Ping, TypeOK
<1>2. CASE Disconnect(c)
  <2>1. mailbox' \in [Connections -> Seq(Frames \union {PoisonPill})]
    BY <1>2, EnqueueFacts DEF Disconnect
  <2>2. registered' = registered \ {c} /\ subscribed' = {s \in subscribed : s[1] # c}
    BY <1>2 DEF Disconnect, RemoveClient
  <2> QED
    <3>1. TypeOK'
      BY <1>2, <2>1, <2>2 DEF Disconnect, TypeOK
    <3>2. Rest'
      BY <1>2, <2>2 DEF Disconnect
    <3> QED
      BY <3>1, <3>2
<1> QED
  BY <1>1, <1>2

LEMMA StutterKeeps == IInv /\ UNCHANGED vars => IInv'
  BY DEF vars, browserVars, serverVars, IInv, Rest, TypeOK, NamesUnique, RegisteredServe,
         SubscribersServe, Named, PongHasRoom, ActorsConnect, NotYetGreeted, Serving

LEMMA Inductive == Spec => []IInv
<1>1. IInv /\ [Next]_vars => IInv'
  BY ActorKeeps, BrowserKeeps, ServerKeeps, StutterKeeps DEF Next
<1> QED
  BY <1>1, Initially, PTL DEF Spec

----------------------------------------------------------------------------
(* What follows.                                                              *)

\* Every variable keeps its type; in particular pong never releases a permit more
\* than pingQueue has, whenever ping takes one.
THEOREM TypeCorrect == Spec => []TypeOK
  BY Inductive, PTL DEF IInv, Rest

\* addClient keeps the names of the server's clients apart, whichever of two
\* actors that chose the same name comes first.
THEOREM NamesAreUnique == Spec => []NamesUnique
  BY Inductive, PTL DEF IInv, Rest

\* WebSocketClientActor.postStop leaves nothing of a client in the server.
THEOREM NothingIsLeftBehind == Spec => []NothingLeftBehind
<1>1. IInv => NothingLeftBehind
  BY DEF IInv, Rest, NothingLeftBehind, RegisteredServe, SubscribersServe, Serving
<1> QED
  BY <1>1, Inductive, PTL

\* removeClient takes out only the client it is called for, by its own actor or by
\* the server: refused clients of the same name do not evict it.
THEOREM NobodyIsEvicted == Spec => NoEviction
<1> DEFINE Evicted(c) == actor'[c] # "stopped" /\ mailbox'[c] # Append(mailbox[c], PoisonPill)
<1>1. ASSUME IInv, [Next]_vars
      PROVE  \A c \in registered \ registered' : ~Evicted(c)
  <2> SUFFICES ASSUME NEW c \in registered \ registered' PROVE ~Evicted(c)
    OBVIOUS
  <2> USE <1>1 DEF IInv, Rest, TypeOK, browserVars, serverVars
  <2>1. ASSUME NEW d \in Connections, ActorStep(d) PROVE ~Evicted(c)
    <3>1. CASE Stop(d)
      BY <3>1, PostStopFacts DEF Stop
    <3>2. CASE SendJsonThrows(d)
      BY <3>2, PostStopFacts DEF SendJsonThrows
    <3>3. CASE ~Stop(d) /\ ~SendJsonThrows(d)
      BY <2>1, <3>3
         DEF ActorStep, TakeHandle, Welcome, Reject, Subscribe, Unsubscribe, SendJson, Pong, Release
    <3> QED
      BY <3>1, <3>2, <3>3
  <2>2. ASSUME NEW d \in Connections, BrowserStep(d) PROVE ~Evicted(c)
    BY <2>2 DEF BrowserStep, Connect, RefuseConnection, CloseSocket, Arrive
  <2>3. ASSUME NEW d \in Connections, Ping(d) PROVE ~Evicted(c)
    BY <2>3 DEF Ping
  <2>4. ASSUME NEW d \in Connections, Disconnect(d) PROVE ~Evicted(c)
    BY <2>4 DEF Disconnect, RemoveClient, Enqueue
  <2>5. CASE UNCHANGED vars
    BY <2>5 DEF vars
  <2> QED
    BY <2>1, <2>2, <2>3, <2>4, <2>5 DEF Next
<1>2. IInv /\ [Next]_vars =>
        [\A c \in registered \ registered' :
           actor'[c] = "stopped" \/ mailbox'[c] = Append(mailbox[c], PoisonPill)]_vars
  BY <1>1
<1> QED
  BY <1>2, Inductive, PTL DEF Spec, NoEviction

----------------------------------------------------------------------------
(* Refinement.                                                                *)

Lent == [n \in ClientNames |-> {c \in registered : name[c] = n}]

LEMMA InitRefines == Init => Lease!LeaseInit
<1> SUFFICES ASSUME Init PROVE Lease!LeaseInit
  OBVIOUS
<1>1. Lent = [n \in ClientNames |-> {}]
  BY DEF Init, Lent
<1> QED
  BY <1>1 DEF Init, Lease!LeaseInit, Lent

\* A client in the server has one of the names that are lent.
LEMMA HasAName == ASSUME IInv, NEW c \in registered PROVE name[c] \in ClientNames
  BY DEF IInv, Rest, TypeOK, RegisteredServe, Named, Serving

\* A step that moves no client in or out of the server, and names at most one that
\* is not in it, shows nothing.
LEMMA NothingShows ==
  ASSUME IInv, registered' = registered, greeting' = greeting,
         \A c \in registered : name'[c] = name[c]
  PROVE  UNCHANGED Lease!leaseVars
<1>1. Lent' = Lent
  BY DEF Lent
<1> QED
  BY <1>1 DEF Lease!leaseVars, Lent

\* A client that leaves returns its name, and one that was not there none.
LEMMA LeavingReturns ==
  ASSUME IInv, NEW c \in Connections, registered' = registered \ {c},
         name' = name, greeting' = greeting
  PROVE  Lease!LeaseNext \/ UNCHANGED Lease!leaseVars
<1>1. CASE c \notin registered
  BY <1>1, NothingShows
<1>2. CASE c \in registered
  <2>1. PICK n \in ClientNames : n = name[c]
    BY <1>2, HasAName
  <2>2. c \in Lent[n]
    BY <1>2, <2>1 DEF Lent
  <2>3. Lent' = [Lent EXCEPT ![n] = @ \ {c}]
    BY <2>1 DEF Lent
  <2>4. Lease!Return(c, n)
    BY <2>1, <2>2, <2>3 DEF Lease!Return, Lent
  <2> QED
    BY <2>1, <2>4 DEF Lease!LeaseNext
<1> QED
  BY <1>1, <1>2

\* addClient lends a name that nobody has.
LEMMA WelcomeLends ==
  ASSUME IInv, NEW c \in Connections, Welcome(c)
  PROVE  Lease!LeaseNext
<1>1. PICK n \in ClientNames : n = name[c]
  BY DEF Welcome, IInv, Rest, TypeOK, Named
<1>2. greeting[c] = "none" /\ Lent[n] = {}
  BY <1>1 DEF Welcome, IInv, Rest, NotYetGreeted, Admits, Taken, Lent
<1>3. Lent' = [Lent EXCEPT ![n] = {c}]
  <2>1. \A m \in ClientNames :
          {d \in registered \union {c} : name[d] = m}
            = IF m = n THEN {c} ELSE {d \in registered : name[d] = m}
    BY <1>1, <1>2 DEF Lent
  <2> QED
    BY <1>1, <2>1 DEF Lent, Welcome
<1>4. Lease!Lend(c, n)
  BY <1>2, <1>3 DEF Lease!Lend, Lent, Welcome
<1> QED
  BY <1>1, <1>4 DEF Lease!LeaseNext

LEMMA StepRefines ==
  IInv /\ [Next]_vars => Lease!LeaseNext \/ UNCHANGED Lease!leaseVars
<1> SUFFICES ASSUME IInv, [Next]_vars PROVE Lease!LeaseNext \/ UNCHANGED Lease!leaseVars
  OBVIOUS
<1> USE DEF browserVars, serverVars
<1>1. ASSUME NEW c \in Connections, ActorStep(c)
      PROVE  Lease!LeaseNext \/ UNCHANGED Lease!leaseVars
  <2>1. CASE TakeHandle(c)
    <3>1. \A d \in registered : name'[d] = name[d]
      BY <2>1 DEF TakeHandle, IInv, Rest, TypeOK, RegisteredServe, Serving
    <3> QED
      BY <2>1, <3>1, NothingShows DEF TakeHandle
  <2>2. CASE Welcome(c)
    BY <2>2, WelcomeLends
  <2>3. CASE Reject(c)
    <3>1. greeting[c] = "none"
      BY <2>3 DEF Reject, IInv, Rest, NotYetGreeted
    <3>2. Lent' = Lent
      BY <2>3 DEF Reject, Lent
    <3>3. Lease!Refuse(c)
      BY <2>3, <3>1, <3>2 DEF Reject, Lease!Refuse, Lent
    <3> QED
      BY <3>3 DEF Lease!LeaseNext
  <2>4. CASE Stop(c) \/ SendJsonThrows(c)
    <3>1. /\ registered' = registered \ {c}
          /\ UNCHANGED <<name, greeting>>
      BY <2>4, PostStopFacts DEF Stop, SendJsonThrows
    <3> QED
      BY <3>1, LeavingReturns
  <2>5. CASE Subscribe(c) \/ Unsubscribe(c) \/ SendJson(c) \/ Pong(c) \/ Release(c)
    BY <2>5, NothingShows DEF Subscribe, Unsubscribe, SendJson, Pong, Release
  <2> QED
    BY <1>1, <2>1, <2>2, <2>3, <2>4, <2>5 DEF ActorStep
<1>2. ASSUME NEW c \in Connections, BrowserStep(c) PROVE UNCHANGED Lease!leaseVars
  BY <1>2, NothingShows DEF BrowserStep, Connect, RefuseConnection, CloseSocket, Arrive
<1>3. ASSUME NEW c \in Connections, Ping(c) PROVE UNCHANGED Lease!leaseVars
  BY <1>3, NothingShows DEF Ping
<1>4. ASSUME NEW c \in Connections, Disconnect(c)
      PROVE  Lease!LeaseNext \/ UNCHANGED Lease!leaseVars
  BY <1>4, LeavingReturns DEF Disconnect, RemoveClient
<1>5. CASE UNCHANGED vars
  BY <1>5, NothingShows DEF vars
<1> QED
  BY <1>1, <1>2, <1>3, <1>4, <1>5 DEF Next

\* The actors implement the lease of names: whatever another actor, the browser or
\* the server does between the check of a name and its addition, each step lends a
\* free name, refuses, takes a name back, or changes nothing the server shows.
THEOREM NamesAreLent == Spec => ImplementsNameLease
<1>1. IInv /\ [Next]_vars => [Lease!LeaseNext]_(Lease!leaseVars)
  BY StepRefines
<1> QED
  BY <1>1, InitRefines, Inductive, PTL DEF Spec, ImplementsNameLease, Lease!LeaseSpec
=============================================================================
