--------------------------- MODULE OOCSIWebClient ---------------------------
(* The JavaScript client of oocsi-web.js: one page, its WebSockets over time, *)
(* the timer that reconnects, and the subscriptions it keeps alive.           *)
(*                                                                            *)
(* JavaScript runs one task at a time, so each task is an action: a call of   *)
(* the page, a socket event, a timer, a change of visibility.  A browser sets *)
(* readyState and fires the event (open; error and close) in one task.  The   *)
(* length of a delay (reconnectAttempts, random backoff, the code of a close  *)
(* event) only says when the timer fires: here an armed timer may fire at any *)
(* moment.  Sending and calling change neither sockets nor subscriptions.     *)
EXTENDS FiniteSets

CONSTANTS Sockets,   \* bound: WebSocket objects that exist at once
          Channels,  \* channels the page subscribes to or registers for
          Me,        \* the handle the page connects with: a channel as well
          Server,    \* the server the page connects to
          Default,   \* the initial wsUri, "ws://localhost/ws"
          None       \* no socket, or no handle: JavaScript's undefined

ASSUME WebClientAssumption ==
  /\ Me \notin Channels \union {"nothing", "command", "undefined"}
  /\ Server # Default
  /\ None \notin Sockets \union {Me}

\* What waitForSocket may hold back.  "bare" subscribes without a handler;
\* "resubscribe" and "close" are about no channel.
Requests ==
  [do : {"subscribe", "bare", "unsubscribe", "register"}, ch : Channels]
    \union [do : {"resubscribe", "close"}, ch : {Me}]
Resubscribe == [do |-> "resubscribe", ch |-> Me]

VARIABLES
  readyState,   \* of every socket; "unused" is no object yet, or no longer
  websocket,    \* the socket of the client
  uri,          \* the server each socket was opened to
  greeting,     \* the first frame that was sent on it, if it is open
  subscribed,   \* the channels the frames sent on it subscribe to
  wsUri,
  username,
  handlers,     \* the channels that have a handler
  reconnectTimer, \* is it armed?
  hidden,       \* document.hidden
  waiting,      \* what waitForSocket polls for; equal requests count once
  asked         \* has the page called connect?

wireVars == <<uri, greeting, subscribed>>
socketVars == <<readyState, websocket, wireVars>>
nameVars == <<wsUri, username>>
vars == <<socketVars, nameVars, handlers, reconnectTimer, hidden, waiting, asked>>

States == {"unused", "connecting", "open", "closing", "closed"}

TypeOK ==
  /\ readyState \in [Sockets -> States]
  /\ websocket \in Sockets \union {None}
  /\ uri \in [Sockets -> {Server, Default}]
  /\ greeting \in [Sockets -> {"nothing", "command", "undefined", Me}]
  /\ subscribed \in [Sockets -> SUBSET (Channels \union {Me})]
  /\ wsUri \in {Server, Default}
  /\ username \in {Me, None}
  /\ handlers \subseteq Channels \union {Me}
  /\ reconnectTimer \in BOOLEAN
  /\ hidden \in BOOLEAN
  /\ waiting \subseteq Requests
  /\ asked \in BOOLEAN

----------------------------------------------------------------------------
(* Helpers.                                                                   *)

Is(states) == websocket # None /\ readyState[websocket] \in states
Connected == Is({"open"})                            \* internalConnected
Live == Is({"connecting", "open"})
Ready == websocket # None /\ ~Is({"connecting"})     \* waitForSocket goes on

\* scheduleReconnect: whatever was armed is cleared; a hidden page arms nothing.
ScheduleReconnect == reconnectTimer' = ~hidden

\* init: a new socket takes the place of the old one, which keeps its callbacks
\* and is forgotten once it has closed.
OpenSocket(s, to) ==
  /\ readyState[s] = "unused"
  /\ readyState' = [t \in Sockets |->
       IF t = s THEN "connecting"
       ELSE IF t = websocket /\ readyState[t] = "closed" THEN "unused"
       ELSE readyState[t]]
  /\ websocket' = s
  /\ uri' = [uri EXCEPT ![s] = to]
  /\ greeting' = [greeting EXCEPT ![s] = "nothing"]
  /\ subscribed' = [subscribed EXCEPT ![s] = {}]

\* submit of subscribe and unsubscribe frames: a socket that closes drops them.
Submit(subscribe, unsubscribe) ==
  IF Connected /\ subscribe \union unsubscribe # {}
  THEN /\ subscribed' =
            [subscribed EXCEPT ![websocket] = (@ \union subscribe) \ unsubscribe]
       /\ greeting' =
            [greeting EXCEPT ![websocket] = IF @ = "nothing" THEN "command" ELSE @]
  ELSE UNCHANGED <<subscribed, greeting>>

----------------------------------------------------------------------------
(* Mutations: the definition each is named after, with a plausible slip.  The *)
(* specification uses none of them; a property is kept only if one breaks it. *)

\* A page that is shown does not reconnect.
ShowOnly ==
  /\ hidden
  /\ hidden' = FALSE
  /\ UNCHANGED <<socketVars, nameVars, handlers, reconnectTimer, waiting, asked>>

\* internalReconnect only asks whether the client is connected.
ReconnectFiresConnecting ==
  /\ reconnectTimer
  /\ reconnectTimer' = FALSE
  /\ IF Connected
     THEN UNCHANGED <<socketVars, waiting>>
     ELSE /\ \E s \in Sockets : OpenSocket(s, wsUri)
          /\ waiting' = waiting \union {Resubscribe}
  /\ UNCHANGED <<nameVars, handlers, hidden, asked>>

\* A client that has a socket adds the handler even if it has no handle.
ConnectAgainUnnamed(fn) ==
  /\ Live
  /\ asked' = TRUE
  /\ handlers' = IF fn THEN handlers \union {username} ELSE handlers
  /\ UNCHANGED <<socketVars, nameVars, reconnectTimer, hidden, waiting>>

\* A close that is no error does not reconnect.
OnCloseOnlyErrors(s, isError) ==
  /\ readyState' = [readyState EXCEPT ![s] = IF s = websocket THEN "closed" ELSE "unused"]
  /\ IF isError THEN ScheduleReconnect ELSE UNCHANGED reconnectTimer
  /\ UNCHANGED <<websocket, wireVars, nameVars, handlers, hidden, waiting, asked>>

\* Subscriptions are left to the poll of internalReconnect.
OnOpenSubscribesLater(s) ==
  /\ readyState[s] = "connecting"
  /\ readyState' = [readyState EXCEPT ![s] = "open"]
  /\ greeting' = [greeting EXCEPT ![s] = IF username = None THEN "undefined" ELSE username]
  /\ UNCHANGED <<websocket, uri, subscribed, nameVars, handlers, reconnectTimer, hidden,
                 waiting, asked>>

\* The subscriptions go before the handle.
OnOpenSubscribesFirst(s) ==
  /\ readyState[s] = "connecting"
  /\ readyState' = [readyState EXCEPT ![s] = "open"]
  /\ subscribed' = [subscribed EXCEPT ![s] = handlers]
  /\ greeting' = [greeting EXCEPT ![s] = IF handlers = {} THEN Me ELSE "command"]
  /\ UNCHANGED <<websocket, uri, nameVars, handlers, reconnectTimer, hidden, waiting, asked>>

----------------------------------------------------------------------------
Init ==
  /\ readyState = [s \in Sockets |-> "unused"]
  /\ websocket = None
  /\ uri = [s \in Sockets |-> Default]
  /\ greeting = [s \in Sockets |-> "nothing"]
  /\ subscribed = [s \in Sockets |-> {}]
  /\ wsUri = Default
  /\ username = None
  /\ handlers = {}
  /\ reconnectTimer = FALSE
  /\ hidden \in BOOLEAN
  /\ waiting = {}
  /\ asked = FALSE

----------------------------------------------------------------------------
(* What the page asks for.                                                    *)

\* connect: a client that has a socket already only adds the handler, and that
\* only if it has a handle.  The handlers of the handle are replaced otherwise.
ConnectAgain(fn) ==
  /\ Live
  /\ asked' = TRUE
  /\ handlers' = IF fn /\ username # None THEN handlers \union {username} ELSE handlers
  /\ UNCHANGED <<socketVars, nameVars, reconnectTimer, hidden, waiting>>

Connect(fn) ==
  /\ ~Live
  /\ asked' = TRUE
  /\ wsUri' = Server
  /\ username' = Me
  /\ handlers' = IF fn THEN handlers \union {Me} ELSE handlers \ {Me}
  /\ \E s \in Sockets : OpenSocket(s, wsUri')
  /\ UNCHANGED <<reconnectTimer, hidden, waiting>>

\* internalSubscribe keeps the handler whether or not it can be sent.
DoSubscribe(fn, ch) ==
  /\ handlers' = IF fn THEN handlers \union {ch} ELSE handlers
  /\ Submit({ch}, {})

\* internalRegister and internalUnsubscribe do nothing unless connected.
DoRegister(ch) ==
  IF Connected THEN DoSubscribe(TRUE, ch) ELSE UNCHANGED <<handlers, greeting, subscribed>>

DoUnsubscribe(ch) ==
  /\ handlers' = IF Connected THEN handlers \ {ch} ELSE handlers
  /\ Submit({}, {ch})

\* The function that was given to waitForSocket.
Perform(r) ==
  /\ IF r.do = "close" /\ Connected
     THEN readyState' = [readyState EXCEPT ![websocket] = "closing"]
     ELSE UNCHANGED readyState
  /\ \/ r.do \in {"subscribe", "bare"} /\ DoSubscribe(r.do = "subscribe", r.ch)
     \/ r.do = "register" /\ DoRegister(r.ch)
     \/ r.do = "unsubscribe" /\ DoUnsubscribe(r.ch)
     \/ r.do = "resubscribe" /\ Submit(handlers, {}) /\ UNCHANGED handlers
     \/ r.do = "close" /\ UNCHANGED <<handlers, greeting, subscribed>>
  /\ UNCHANGED <<websocket, uri>>

\* subscribe, unsubscribe, register and close go through waitForSocket ...
Ask(r) ==
  /\ r # Resubscribe
  /\ IF Ready
     THEN Perform(r) /\ UNCHANGED waiting
     ELSE waiting' = waiting \union {r} /\ UNCHANGED <<socketVars, handlers>>
  /\ UNCHANGED <<nameVars, reconnectTimer, hidden, asked>>

\* ... which polls: each request has a timer of its own, so that a later one may
\* be performed before an earlier one.
Poll(r) ==
  /\ r \in waiting
  /\ Ready
  /\ waiting' = waiting \ {r}
  /\ Perform(r)
  /\ UNCHANGED <<nameVars, reconnectTimer, hidden, asked>>

\* reconnect()
Reconnect ==
  /\ ScheduleReconnect
  /\ UNCHANGED <<socketVars, nameVars, handlers, hidden, waiting, asked>>

----------------------------------------------------------------------------
(* The browser: socket events, timers, visibility.                            *)

\* onOpen: the handle goes first, then the channels that have a handler; both to
\* the socket of the client, whichever socket the event is from.
OnOpen(s) ==
  /\ readyState[s] = "connecting"
  /\ readyState' = [readyState EXCEPT ![s] = "open"]
  /\ IF websocket = s
     THEN /\ greeting' = [greeting EXCEPT ![s] = IF username = None THEN "undefined" ELSE username]
          /\ subscribed' = [subscribed EXCEPT ![s] = @ \union handlers]
     ELSE Submit(handlers, {})
  /\ UNCHANGED <<websocket, uri, nameVars, handlers, reconnectTimer, hidden, waiting, asked>>

\* The closing handshake begins at the server.
PeerCloses(s) ==
  /\ readyState[s] = "open"
  /\ readyState' = [readyState EXCEPT ![s] = "closing"]
  /\ UNCHANGED <<websocket, wireVars, nameVars, handlers, reconnectTimer, hidden, waiting, asked>>

\* onClose, after onError if the connection failed: both schedule a reconnect,
\* even if the socket is no longer that of the client.
OnClose(s, isError) ==
  /\ readyState' = [readyState EXCEPT ![s] = IF s = websocket THEN "closed" ELSE "unused"]
  /\ ScheduleReconnect
  /\ UNCHANGED <<websocket, wireVars, nameVars, handlers, hidden, waiting, asked>>

Fail(s) == readyState[s] \in {"connecting", "open", "closing"} /\ OnClose(s, TRUE)
Close(s) == readyState[s] = "closing" /\ OnClose(s, FALSE)

\* The timer: internalReconnect opens a socket unless the client has one, and
\* waits for it to subscribe once more.
ReconnectFires ==
  /\ reconnectTimer
  /\ reconnectTimer' = FALSE
  /\ IF Live
     THEN UNCHANGED <<socketVars, waiting>>
     ELSE /\ \E s \in Sockets : OpenSocket(s, wsUri)
          /\ waiting' = waiting \union {Resubscribe}
  /\ UNCHANGED <<nameVars, handlers, hidden, asked>>

Hide ==
  /\ ~hidden
  /\ hidden' = TRUE
  /\ UNCHANGED <<socketVars, nameVars, handlers, reconnectTimer, waiting, asked>>

\* The visibilitychange listener.
Show ==
  /\ hidden
  /\ hidden' = FALSE
  /\ reconnectTimer' = IF Connected THEN reconnectTimer ELSE TRUE
  /\ UNCHANGED <<socketVars, nameVars, handlers, waiting, asked>>

----------------------------------------------------------------------------
Next ==
  \/ \E fn \in BOOLEAN : Connect(fn) \/ ConnectAgain(fn)
  \/ \E r \in Requests : Ask(r) \/ Poll(r)
  \/ \E s \in Sockets : OnOpen(s) \/ PeerCloses(s) \/ Fail(s) \/ Close(s)
  \/ Reconnect \/ ReconnectFires \/ Hide \/ Show

Spec == Init /\ [][Next]_vars

\* Timers fire and closing handshakes end; a server that is tried again and again
\* is up once.
FairSpec ==
  /\ Spec
  /\ WF_vars(ReconnectFires)
  /\ \A s \in Sockets : WF_vars(Close(s)) /\ SF_vars(OnOpen(s))

----------------------------------------------------------------------------
(* Safety.                                                                    *)

\* However connect, reconnect, the timer and a change of visibility meet while
\* sockets open and close, one socket at most is connecting or open, and it is the
\* client's: two would log in with the same handle.
OneLiveSocket ==
  \A s \in Sockets : readyState[s] \in {"connecting", "open"} => s = websocket

\* No reconnect is lost: a visible page whose socket is gone has a timer armed, or
\* a close event to come that arms one, even if the socket closed, or the page
\* asked to reconnect, while it was hidden.
NoLostReconnect ==
  websocket # None /\ ~hidden /\ ~Live => reconnectTimer \/ Is({"closing"})

\* An open socket has subscribed every channel that has a handler, whenever the
\* handler came: before the first socket, between two, or while one connects.
SubscriptionsKept ==
  Connected => handlers \ {Me} \subseteq subscribed[websocket]

\* Whatever is asked for while a socket connects, the first frame on it is a
\* handle: the server takes the first frame as the name of the client.
FirstFrameIsHandle ==
  \A s \in Sockets : readyState[s] = "open" => greeting[s] \in {Me, "undefined"}

\* Once the page has called connect, the client's socket goes to the server it
\* asked for.  README: "Then connect to an OOCSI server running a websockets
\* adapter".
ConnectIsObeyed ==
  asked /\ Live => uri[websocket] = Server

----------------------------------------------------------------------------
(* Liveness.                                                                  *)

\* A page that stays visible gets its connection back.
ComesBack == websocket # None /\ ~hidden ~> Connected \/ hidden
=============================================================================
