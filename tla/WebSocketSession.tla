-------------------------- MODULE WebSocketSession --------------------------
(* WebSocket connections to the OOCSI server.                                 *)
(*                                                                            *)
(* Each connection has a WebSocketClientActor.  The first frame is the        *)
(* client's handle: it is sanitised, its hashes are replaced by digits, and a *)
(* WebSocketClient of that name is added to the server.  Every later frame is *)
(* a command for that client, or counts as the answer to a ping.  A refused   *)
(* client kills its actor, which is a PoisonPill behind whatever frames are   *)
(* in the mailbox already.  The server itself (names, subscriptions, pings)   *)
(* is external: it is modelled from how the two classes call it.              *)
EXTENDS Naturals, FiniteSets, SequencesExt

CONSTANTS Connections,  \* WebSocket connections
          Names,        \* handles that are valid as they are
          Generated,    \* names made from a handle with hashes
          Template,     \* a handle that still has its hashes
          Channels,     \* channels to subscribe or send to
          PINGS,        \* permits of pingQueue (10 in the code)
          MaxClients,   \* the server's limit (oocsi.clients)
          MaxFrames     \* bound: frames a connection sends

NoName == "null"

ASSUME SessionAssumption ==
  /\ PINGS \in Nat \ {0}
  /\ MaxClients \in Nat
  /\ MaxFrames \in Nat
  /\ Template \notin Names \union Generated
  /\ NoName \notin Names \union Generated \union {Template}

ClientNames == Names \union Generated \union {Template}

\* What a frame can ask for.  "other" is any text that is no command.
Frames == [do : {"handle"}, arg : Names]
     \union [do : {"subscribe", "unsubscribe", "sendjson"}, arg : Channels]
     \union [do : {"other"}, arg : {NoName}]
PoisonPill == [do |-> "stop", arg |-> NoName]

VARIABLES
  socket,      \* the connection as the browser sees it
  frames,      \* how many frames it has sent
  actor,       \* where its actor is; "open" is client == null
  mailbox,     \* the actor's mailbox
  name,        \* the name of its client
  greeting,    \* what the actor said to the handle
  registered,  \* the clients the server has, by connection
  subscribed,  \* the subscriptions the server has
  permits,     \* pingQueue
  published    \* the messages sent so far: by whom, and under what name

browserVars == <<socket, frames>>
serverVars  == <<registered, subscribed, published>>
vars == <<browserVars, actor, mailbox, name, greeting, serverVars, permits>>

TypeOK ==
  /\ socket \in [Connections -> {"absent", "up", "closed"}]
  /\ frames \in [Connections -> 0..MaxFrames]
  /\ actor \in [Connections -> {"absent", "open", "naming", "ready", "pong", "stopped"}]
  /\ mailbox \in [Connections -> Seq(Frames \union {PoisonPill})]
  /\ name \in [Connections -> ClientNames \union {NoName}]
  /\ greeting \in [Connections -> {"none", "welcome", "error"}]
  /\ registered \subseteq Connections
  /\ subscribed \subseteq Connections \X Channels
  /\ permits \in [Connections -> 0..PINGS]
  /\ published \subseteq [by : Connections, as : ClientNames]

----------------------------------------------------------------------------
(* The server, as the clients use it.                                         *)

\* server.getClient(n) != null
Taken(n) == \E c \in registered : name[c] = n

\* server.addClient: refuses a name it has, and more clients than it may have.
Admits(c) == ~Taken(name[c]) /\ Cardinality(registered) < MaxClients

\* server.removeClient takes the client it is given out of the server and out of
\* every channel; another client of that name is not touched.
RemoveClient(c) ==
  /\ registered' = registered \ {c}
  /\ subscribed' = {s \in subscribed : s[1] # c}

Enqueue(c, m) == mailbox' = [mailbox EXCEPT ![c] = Append(@, m)]
Alive(c) == actor[c] \notin {"absent", "stopped"}
Receives(c) == mailbox[c] # <<>> /\ Head(mailbox[c]) # PoisonPill
Consume(c) == mailbox' = [mailbox EXCEPT ![c] = Tail(@)]

\* WebSocketClient.parseMessage
Commanded(c, do) ==
  /\ actor[c] = "ready"
  /\ Receives(c)
  /\ Head(mailbox[c]).do = do
  /\ Consume(c)

----------------------------------------------------------------------------
(* Mutations: the definition each is named after, with a plausible slip.  The *)
(* specification uses none of them; a property is kept only if one breaks it. *)

\* The loop over random digits goes on until the server does not know the name.
NamesForRetrying(f) ==
  IF f.do = "handle" THEN {f.arg} ELSE {n \in Generated : ~Taken(n)}

\* getClient was asked before, and addClient is not asked again.
WelcomeUnchecked(c) ==
  /\ actor[c] = "naming"
  /\ registered' = registered \union {c}
  /\ greeting' = [greeting EXCEPT ![c] = "welcome"]
  /\ actor' = [actor EXCEPT ![c] = "ready"]
  /\ UNCHANGED <<browserVars, mailbox, name, subscribed, published, permits>>

\* A refused client is told, but not killed.
RejectKeeps(c) ==
  /\ actor[c] = "naming"
  /\ ~Admits(c)
  /\ greeting' = [greeting EXCEPT ![c] = "error"]
  /\ actor' = [actor EXCEPT ![c] = "ready"]
  /\ UNCHANGED <<browserVars, mailbox, name, serverVars, permits>>

\* pong releases a permit whatever the queue holds.
PongUnchecked(c) ==
  /\ Commanded(c, "other") \/ Commanded(c, "handle")
  /\ actor' = [actor EXCEPT ![c] = "pong"]
  /\ UNCHANGED <<browserVars, name, greeting, serverVars, permits>>

PostStopWith(c, leaving, dropped) ==
  /\ actor' = [actor EXCEPT ![c] = "stopped"]
  /\ mailbox' = [mailbox EXCEPT ![c] = <<>>]
  /\ socket' = [socket EXCEPT ![c] = "closed"]
  /\ registered' = registered \ leaving
  /\ subscribed' = {s \in subscribed : s[1] \notin dropped}
  /\ UNCHANGED <<frames, name, greeting, permits>>

\* disconnect() only removes a client that is registered.
PostStopIfRegistered(c) ==
  LET gone == {c} \intersect registered IN PostStopWith(c, gone, gone)

\* disconnect() removes the client the server has under the name.
PostStopByName(c) ==
  LET gone == {d \in Connections : name[d] = name[c]} IN PostStopWith(c, gone, gone)

----------------------------------------------------------------------------
Init ==
  /\ socket = [c \in Connections |-> "absent"]
  /\ frames = [c \in Connections |-> 0]
  /\ actor = [c \in Connections |-> "absent"]
  /\ mailbox = [c \in Connections |-> <<>>]
  /\ name = [c \in Connections |-> NoName]
  /\ greeting = [c \in Connections |-> "none"]
  /\ registered = {}
  /\ subscribed = {}
  /\ permits = [c \in Connections |-> PINGS]
  /\ published = {}

----------------------------------------------------------------------------
(* The browser and the network.                                               *)

\* Application.ws accepts the connection: ActorFlow starts the actor.
Connect(c) ==
  /\ socket[c] = "absent"
  /\ socket' = [socket EXCEPT ![c] = "up"]
  /\ actor' = [actor EXCEPT ![c] = "open"]
  /\ UNCHANGED <<frames, mailbox, name, greeting, serverVars, permits>>

\* Application.ws answers 429: no actor.
RefuseConnection(c) ==
  /\ socket[c] = "absent"
  /\ socket' = [socket EXCEPT ![c] = "closed"]
  /\ UNCHANGED <<frames, actor, mailbox, name, greeting, serverVars, permits>>

\* A frame arrives; a browser need not wait for the greeting.
Arrive(c, f) ==
  /\ socket[c] = "up"
  /\ frames[c] < MaxFrames
  /\ frames' = [frames EXCEPT ![c] = @ + 1]
  /\ Enqueue(c, f)
  /\ UNCHANGED <<socket, actor, name, greeting, serverVars, permits>>

\* The connection closes: ActorFlow poisons the actor, behind the frames.
CloseSocket(c) ==
  /\ socket[c] = "up"
  /\ socket' = [socket EXCEPT ![c] = "closed"]
  /\ Enqueue(c, PoisonPill)
  /\ UNCHANGED <<frames, actor, name, greeting, serverVars, permits>>

----------------------------------------------------------------------------
(* The actor.                                                                 *)

\* The names the first frame may lead to.  A valid handle is taken as it is;
\* anything else becomes a handle with hashes, and of up to 20 random attempts the
\* first one the server does not have is taken, or the hashes stay.
NamesFor(f) ==
  IF f.do = "handle" THEN {f.arg}
  ELSE {n \in Generated : ~Taken(n)}
         \union (IF \E n \in Generated : Taken(n) THEN {Template} ELSE {})

\* The first frame, up to the new client.
TakeHandle(c) ==
  /\ actor[c] = "open"
  /\ Receives(c)
  /\ \E n \in NamesFor(Head(mailbox[c])) : name' = [name EXCEPT ![c] = n]
  /\ Consume(c)
  /\ actor' = [actor EXCEPT ![c] = "naming"]
  /\ UNCHANGED <<browserVars, greeting, serverVars, permits>>

\* addClient, which another actor may have reached first with the same name.
Welcome(c) ==
  /\ actor[c] = "naming"
  /\ Admits(c)
  /\ registered' = registered \union {c}
  /\ greeting' = [greeting EXCEPT ![c] = "welcome"]
  /\ actor' = [actor EXCEPT ![c] = "ready"]
  /\ UNCHANGED <<browserVars, mailbox, name, subscribed, published, permits>>

\* The client stays in the actor; kill() queues a PoisonPill.
Reject(c) ==
  /\ actor[c] = "naming"
  /\ ~Admits(c)
  /\ greeting' = [greeting EXCEPT ![c] = "error"]
  /\ Enqueue(c, PoisonPill)
  /\ actor' = [actor EXCEPT ![c] = "ready"]
  /\ UNCHANGED <<browserVars, name, serverVars, permits>>

Subscribe(c) ==
  /\ Commanded(c, "subscribe")
  /\ subscribed' = subscribed \union {<<c, Head(mailbox[c]).arg>>}
  /\ UNCHANGED <<browserVars, actor, name, greeting, registered, published, permits>>

Unsubscribe(c) ==
  /\ Commanded(c, "unsubscribe")
  /\ subscribed' = subscribed \ {<<c, Head(mailbox[c]).arg>>}
  /\ UNCHANGED <<browserVars, actor, name, greeting, registered, published, permits>>

\* A message goes out if the channel exists, in the name of the client.
SendJson(c) ==
  /\ Commanded(c, "sendjson")
  /\ published' \in {published, published \union {[by |-> c, as |-> name[c]]}}
  /\ UNCHANGED <<browserVars, actor, name, greeting, registered, subscribed, permits>>

\* Any other frame is a pong, which looks at the permits first ...
Pong(c) ==
  /\ Commanded(c, "other") \/ Commanded(c, "handle")
  /\ actor' = IF permits[c] < PINGS THEN [actor EXCEPT ![c] = "pong"] ELSE actor
  /\ UNCHANGED <<browserVars, name, greeting, serverVars, permits>>

\* ... and releases one then; the server may have taken one in between.
Release(c) ==
  /\ actor[c] = "pong"
  /\ permits' = [permits EXCEPT ![c] = @ + 1]
  /\ actor' = [actor EXCEPT ![c] = "ready"]
  /\ UNCHANGED <<browserVars, mailbox, name, greeting, serverVars>>

\* postStop disconnects the client if there is one; its own kill() finds the
\* actor gone.  ActorFlow closes the connection.
PostStop(c) ==
  /\ actor' = [actor EXCEPT ![c] = "stopped"]
  /\ mailbox' = [mailbox EXCEPT ![c] = <<>>]
  /\ socket' = [socket EXCEPT ![c] = "closed"]
  /\ IF name[c] = NoName THEN UNCHANGED <<registered, subscribed>> ELSE RemoveClient(c)
  /\ UNCHANGED <<frames, name, greeting, permits>>

Stop(c) ==
  /\ actor[c] \in {"open", "ready"}
  /\ mailbox[c] # <<>>
  /\ Head(mailbox[c]) = PoisonPill
  /\ PostStop(c)
  /\ UNCHANGED published

\* A recipient's send throws under sendjson: ActorFlow stops the actor.
SendJsonThrows(c) ==
  /\ actor[c] = "ready"
  /\ Receives(c)
  /\ Head(mailbox[c]).do = "sendjson"
  /\ PostStop(c)
  /\ published' \in {published, published \union {[by |-> c, as |-> name[c]]}}

----------------------------------------------------------------------------
(* The server's own threads.                                                  *)

\* ping sends only with a permit: PINGS unanswered ones at most.
Ping(c) ==
  /\ c \in registered
  /\ permits[c] > 0
  /\ permits' = [permits EXCEPT ![c] = @ - 1]
  /\ UNCHANGED <<browserVars, actor, mailbox, name, greeting, serverVars>>

\* The server disconnects a client, as it does when it stops.
Disconnect(c) ==
  /\ c \in registered
  /\ RemoveClient(c)
  /\ Enqueue(c, PoisonPill)
  /\ UNCHANGED <<browserVars, actor, name, greeting, published, permits>>

----------------------------------------------------------------------------
ActorStep(c) ==
  \/ TakeHandle(c) \/ Welcome(c) \/ Reject(c)
  \/ Subscribe(c) \/ Unsubscribe(c) \/ SendJson(c) \/ Pong(c) \/ Release(c)
  \/ Stop(c) \/ SendJsonThrows(c)

BrowserStep(c) ==
  \/ Connect(c) \/ RefuseConnection(c) \/ CloseSocket(c)
  \/ \E f \in Frames : Arrive(c, f)

Next == \E c \in Connections :
  ActorStep(c) \/ BrowserStep(c) \/ Ping(c) \/ Disconnect(c)

Spec == Init /\ [][Next]_vars

\* The dispatcher runs every actor that has mail.
FairSpec == Spec /\ \A c \in Connections : WF_vars(ActorStep(c))

----------------------------------------------------------------------------
(* Safety.                                                                    *)

\* Between choosing a free name and adding the client another actor may take the
\* name: addClient decides, and no two clients of the server share a name.
NamesUnique ==
  \A c, d \in registered : name[c] = name[d] => c = d

\* A client leaves the server only when its own actor stops or the server itself
\* disconnects it: cleaning up after a refused client of the same name does not
\* evict the one that has the name.
NoEviction ==
  [][\A c \in registered \ registered' :
       actor'[c] = "stopped" \/ mailbox'[c] = Append(mailbox[c], PoisonPill)]_vars

\* A connection that is gone leaves nothing in the server, whichever way it went:
\* refused with commands still queued, disconnected by the server and then
\* subscribing again, stopped by an exception.
NothingLeftBehind ==
  \A c \in Connections : actor[c] = "stopped" =>
    /\ c \notin registered
    /\ \A ch \in Channels : <<c, ch>> \notin subscribed

\* A client that was refused as existing already does nothing under the name:
\* kill() is documented as "terminate this websocket client (and connection)".
RefusedIsSilent ==
  \A c \in Connections : greeting[c] = "error" =>
    /\ \A ch \in Channels : <<c, ch>> \notin subscribed
    /\ \A m \in published : m.by # c

----------------------------------------------------------------------------
(* Liveness.                                                                  *)

\* The first frame is answered, with a welcome or an error, even if every name
\* that could be generated is taken.
FirstFrameAnswered == \A c \in Connections : frames[c] > 0 ~> greeting[c] # "none"

\* A refused connection is closed, and a closed one leaves the server, whatever its
\* mailbox still holds: its name can be used again.
ClosedIsForgotten == \A c \in Connections :
  greeting[c] = "error" \/ socket[c] = "closed"
    ~> /\ socket[c] = "closed" /\ c \notin registered
       /\ \A ch \in Channels : <<c, ch>> \notin subscribed

----------------------------------------------------------------------------
(* Refinement: the server lends names as NameLease says.                      *)

Lease == INSTANCE NameLease WITH
  Names <- ClientNames,
  lent <- [n \in ClientNames |-> {c \in registered : name[c] = n}],
  said <- greeting

\* Between choosing a free name and adding the client another actor may take the
\* name, and a client leaves in three ways.  Whatever happens in between, addClient
\* lends a name that nobody has, to a connection that was not answered before; a
\* refused connection never has one, and one that gave its name back gets no other.
ImplementsNameLease == Lease!LeaseSpec
=============================================================================
