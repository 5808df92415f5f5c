------------------------ MODULE OOCSIWebClient_proofs ------------------------
(* Proofs about OOCSIWebClient: its safety invariants hold for every set of   *)
(* sockets and channels.  Their conjunction is inductive as it stands: only   *)
(* because no second socket is live does a close event of the client's socket *)
(* find nothing else to keep alive, and only because every open socket began  *)
(* with a handle may a subscription follow.                                   *)
EXTENDS OOCSIWebClient, TLAPS

IInv ==
  /\ TypeOK
  /\ OneLiveSocket
  /\ NoLostReconnect
  /\ SubscriptionsKept
  /\ FirstFrameIsHandle

\* With no live socket for the client there is none at all.
LEMMA NoneLive ==
  ASSUME IInv, ~Live
  PROVE  \A s \in Sockets : readyState[s] \notin {"connecting", "open"}
  BY WebClientAssumption DEF IInv, OneLiveSocket, Live, Is

\* init leaves one live socket, the new one, with nothing sent on it.
LEMMA OpenSocketKeeps ==
  ASSUME IInv, ~Live,
         NEW s \in Sockets, NEW to \in {Server, Default}, OpenSocket(s, to)
  PROVE  /\ readyState' \in [Sockets -> States]
         /\ websocket' = s
         /\ uri' \in [Sockets -> {Server, Default}]
         /\ greeting' \in [Sockets -> {"nothing", "command", "undefined", Me}]
         /\ subscribed' \in [Sockets -> SUBSET (Channels \union {Me})]
         /\ readyState'[s] = "connecting"
         /\ \A t \in Sockets \ {s} : readyState'[t] \notin {"connecting", "open"}
<1>1. \A t \in Sockets : readyState[t] \notin {"connecting", "open"}
  BY NoneLive
<1>2. TypeOK
  BY DEF IInv
<1>3. readyState' \in [Sockets -> States]
  BY <1>2 DEF OpenSocket, TypeOK, States
<1>4. /\ uri' \in [Sockets -> {Server, Default}]
      /\ greeting' \in [Sockets -> {"nothing", "command", "undefined", Me}]
      /\ subscribed' \in [Sockets -> SUBSET (Channels \union {Me})]
  BY <1>2 DEF OpenSocket, TypeOK
<1>5. websocket' = s /\ readyState'[s] = "connecting"
  BY DEF OpenSocket
<1>6. \A t \in Sockets \ {s} : readyState'[t] \notin {"connecting", "open"}
  BY <1>1 DEF OpenSocket
<1>. QED
  BY <1>3, <1>4, <1>5, <1>6

\* A frame of a channel changes no type and no first frame, and it subscribes the
\* channels it is for.
LEMMA SubmitKeeps ==
  ASSUME IInv,
         NEW add \in SUBSET (Channels \union {Me}), NEW drop \in SUBSET (Channels \union {Me}),
         Submit(add, drop)
  PROVE  /\ subscribed' \in [Sockets -> SUBSET (Channels \union {Me})]
         /\ greeting' \in [Sockets -> {"nothing", "command", "undefined", Me}]
         /\ \A s \in Sockets : readyState[s] = "open" => greeting'[s] \in {Me, "undefined"}
         /\ Connected => subscribed'[websocket] = (subscribed[websocket] \union add) \ drop
<1>1. TypeOK /\ FirstFrameIsHandle
  BY DEF IInv
<1>2. CASE Connected /\ add \union drop # {}
  <2>1. websocket \in Sockets /\ readyState[websocket] = "open"
    BY <1>1, <1>2 DEF Connected, Is, TypeOK
  <2>2. greeting[websocket] # "nothing"
    BY <1>1, <2>1, WebClientAssumption DEF FirstFrameIsHandle
  <2>3. greeting' = greeting
    BY <1>1, <1>2, <2>1, <2>2 DEF Submit, TypeOK
  <2>4. subscribed' = [subscribed EXCEPT ![websocket] = (@ \union add) \ drop]
    BY <1>2 DEF Submit
  <2>. QED
    BY <1>1, <2>1, <2>3, <2>4 DEF TypeOK, FirstFrameIsHandle
<1>3. CASE ~(Connected /\ add \union drop # {})
  <2>1. subscribed' = subscribed /\ greeting' = greeting
    BY <1>3 DEF Submit
  <2>2. Connected => (subscribed[websocket] \union add) \ drop = subscribed[websocket]
    BY <1>3
  <2>. QED
    BY <1>1, <2>1, <2>2 DEF TypeOK, FirstFrameIsHandle
<1>. QED
  BY <1>2, <1>3

----------------------------------------------------------------------------
(* One lemma per kind of step.                                                *)

\* A request that waitForSocket lets through, at once or from a poll.
LEMMA PerformKeeps ==
  ASSUME IInv, NEW r \in Requests, Perform(r),
         UNCHANGED <<nameVars, reconnectTimer, hidden, asked>>,
         waiting' \subseteq Requests
  PROVE  IInv'
<1>. USE WebClientAssumption
<1>1. TypeOK /\ OneLiveSocket /\ NoLostReconnect /\ SubscriptionsKept /\ FirstFrameIsHandle
  BY DEF IInv
<1>2. websocket' = websocket /\ uri' = uri
  BY DEF Perform
<1>3. /\ r.do \in {"subscribe", "bare", "unsubscribe", "register", "resubscribe", "close"}
      /\ r.ch \in Channels \union {Me}
  BY DEF Requests
<1>4. CASE readyState' = readyState
           /\ \E add, drop \in SUBSET (Channels \union {Me}) :
                /\ Submit(add, drop)
                /\ handlers' \subseteq Channels \union {Me}
                /\ Connected => handlers' \subseteq (handlers \union add) \ drop
  <2>1. PICK add \in SUBSET (Channels \union {Me}), drop \in SUBSET (Channels \union {Me}) :
          /\ Submit(add, drop)
          /\ handlers' \subseteq Channels \union {Me}
          /\ Connected => handlers' \subseteq (handlers \union add) \ drop
    BY <1>4
  <2>2. /\ subscribed' \in [Sockets -> SUBSET (Channels \union {Me})]
        /\ greeting' \in [Sockets -> {"nothing", "command", "undefined", Me}]
        /\ \A s \in Sockets : readyState[s] = "open" => greeting'[s] \in {Me, "undefined"}
        /\ Connected => subscribed'[websocket] = (subscribed[websocket] \union add) \ drop
    BY <2>1, SubmitKeeps
  <2>3. TypeOK'
    BY <1>1, <1>2, <1>4, <2>1, <2>2 DEF TypeOK, nameVars
  <2>4. OneLiveSocket' /\ FirstFrameIsHandle'
    BY <1>1, <1>2, <1>4, <2>2 DEF OneLiveSocket, FirstFrameIsHandle
  <2>5. NoLostReconnect'
    BY <1>1, <1>2, <1>4 DEF NoLostReconnect, Live, Is
  <2>6. SubscriptionsKept'
    <3>1. Connected' <=> Connected
      BY <1>2, <1>4 DEF Connected, Is
    <3>2. Connected => handlers \ {Me} \subseteq subscribed[websocket]
      BY <1>1 DEF SubscriptionsKept
    <3>. QED
      BY <1>2, <2>1, <2>2, <3>1, <3>2 DEF SubscriptionsKept
  <2>. QED
    BY <2>3, <2>4, <2>5, <2>6 DEF IInv
<1>5. CASE r.do = "close" /\ Connected
  <2>1. /\ readyState' = [readyState EXCEPT ![websocket] = "closing"]
        /\ UNCHANGED <<handlers, greeting, subscribed>>
    BY <1>5 DEF Perform
  <2>2. websocket \in Sockets
    BY <1>1, <1>5 DEF Connected, Is, TypeOK
  <2>3. readyState'[websocket] = "closing"
    BY <1>1, <2>1, <2>2 DEF TypeOK
  <2>4. TypeOK'
    BY <1>1, <1>2, <2>1, <2>2 DEF TypeOK, nameVars, States
  <2>5. OneLiveSocket' /\ FirstFrameIsHandle'
    BY <1>1, <1>2, <2>1, <2>2 DEF OneLiveSocket, FirstFrameIsHandle, TypeOK
  <2>6. NoLostReconnect' /\ SubscriptionsKept'
    BY <1>2, <2>3 DEF NoLostReconnect, SubscriptionsKept, Connected, Is
  <2>. QED
    BY <2>4, <2>5, <2>6 DEF IInv
<1>6. CASE ~(r.do = "close" /\ Connected)
  <2>1. readyState' = readyState
    BY <1>6 DEF Perform
  <2>2. \/ r.do \in {"subscribe", "bare"} /\ DoSubscribe(r.do = "subscribe", r.ch)
        \/ r.do = "register" /\ DoRegister(r.ch)
        \/ r.do = "unsubscribe" /\ DoUnsubscribe(r.ch)
        \/ r.do = "resubscribe" /\ Submit(handlers, {}) /\ UNCHANGED handlers
        \/ r.do = "close" /\ UNCHANGED <<handlers, greeting, subscribed>>
    BY DEF Perform
  <2>3. handlers \subseteq Channels \union {Me}
    BY <1>1 DEF TypeOK
  <2>4. ASSUME NEW fn \in BOOLEAN, DoSubscribe(fn, r.ch)
        PROVE  /\ Submit({r.ch}, {})
               /\ handlers' \subseteq (handlers \union {r.ch})
    BY <2>4 DEF DoSubscribe
  <2>5. UNCHANGED <<handlers, greeting, subscribed>> => Submit({}, {})
    BY DEF Submit
  <2>6. CASE \E fn \in BOOLEAN : DoSubscribe(fn, r.ch)
    BY <1>3, <1>4, <2>1, <2>3, <2>4, <2>6
  <2>7. CASE UNCHANGED <<handlers, greeting, subscribed>>
    BY <1>4, <2>1, <2>3, <2>5, <2>7
  <2>8. CASE DoUnsubscribe(r.ch)
    <3>1. Submit({}, {r.ch}) /\ handlers' \subseteq handlers
          /\ (Connected => handlers' \subseteq (handlers \union {}) \ {r.ch})
      BY <2>8 DEF DoUnsubscribe
    <3>. QED
      BY <1>3, <1>4, <2>1, <2>3, <3>1
  <2>9. CASE Submit(handlers, {}) /\ UNCHANGED handlers
    BY <1>4, <2>1, <2>3, <2>9
  <2>10. CASE DoRegister(r.ch)
    BY <2>6, <2>7, <2>10 DEF DoRegister
  <2>. QED
    BY <2>2, <2>6, <2>7, <2>8, <2>9, <2>10
<1>. QED
  BY <1>5, <1>6

\* connect of a client without a live socket, and the timer that finds none.
LEMMA OpenSocketKeepsInv ==
  ASSUME IInv, ~Live, NEW s \in Sockets, OpenSocket(s, wsUri'),
         wsUri' \in {Server, Default}, username' \in {Me, None},
         handlers' \subseteq Channels \union {Me}, reconnectTimer' \in BOOLEAN,
         waiting' \subseteq Requests, asked' \in BOOLEAN, UNCHANGED hidden
  PROVE  IInv'
<1>. USE WebClientAssumption
<1>1. TypeOK /\ FirstFrameIsHandle
  BY DEF IInv
<1>2. /\ readyState' \in [Sockets -> States]
      /\ websocket' = s
      /\ uri' \in [Sockets -> {Server, Default}]
      /\ greeting' \in [Sockets -> {"nothing", "command", "undefined", Me}]
      /\ subscribed' \in [Sockets -> SUBSET (Channels \union {Me})]
      /\ readyState'[s] = "connecting"
      /\ \A t \in Sockets \ {s} : readyState'[t] \notin {"connecting", "open"}
  BY OpenSocketKeeps
<1>3. TypeOK'
  BY <1>1, <1>2 DEF TypeOK
<1>4. OneLiveSocket' /\ FirstFrameIsHandle'
  BY <1>2 DEF OneLiveSocket, FirstFrameIsHandle
<1>5. NoLostReconnect' /\ SubscriptionsKept'
  BY <1>2 DEF NoLostReconnect, SubscriptionsKept, Connected, Live, Is
<1>. QED
  BY <1>3, <1>4, <1>5 DEF IInv

\* A socket opens: it is the client's, and gets the handle and the channels.
LEMMA OnOpenKeeps ==
  ASSUME IInv, NEW s \in Sockets, OnOpen(s)
  PROVE  IInv'
<1>. USE WebClientAssumption
<1>1. TypeOK /\ OneLiveSocket /\ FirstFrameIsHandle
  BY DEF IInv
<1>2. s = websocket
  BY <1>1 DEF OnOpen, OneLiveSocket
<1>3. /\ readyState' = [readyState EXCEPT ![s] = "open"]
      /\ greeting' = [greeting EXCEPT ![s] = IF username = None THEN "undefined" ELSE username]
      /\ subscribed' = [subscribed EXCEPT ![s] = @ \union handlers]
      /\ UNCHANGED <<websocket, uri, nameVars, handlers, reconnectTimer, hidden, waiting, asked>>
  BY <1>2 DEF OnOpen
<1>4. /\ readyState'[s] = "open"
      /\ greeting'[s] \in {Me, "undefined"}
      /\ handlers \subseteq subscribed'[s]
  BY <1>1, <1>3 DEF TypeOK
<1>5. TypeOK'
  BY <1>1, <1>3 DEF TypeOK, States, nameVars
<1>6. OneLiveSocket' /\ FirstFrameIsHandle'
  BY <1>1, <1>2, <1>3, <1>4 DEF OneLiveSocket, FirstFrameIsHandle, TypeOK
<1>7. NoLostReconnect' /\ SubscriptionsKept'
  BY <1>2, <1>3, <1>4 DEF NoLostReconnect, SubscriptionsKept, Live, Is
<1>. QED
  BY <1>5, <1>6, <1>7 DEF IInv

\* A socket closes: the client's own has a reconnect scheduled for it.
LEMMA OnCloseKeeps ==
  ASSUME IInv, NEW s \in Sockets, NEW isError \in BOOLEAN, OnClose(s, isError)
  PROVE  IInv'
<1>. USE WebClientAssumption
<1>1. TypeOK /\ OneLiveSocket /\ NoLostReconnect /\ SubscriptionsKept /\ FirstFrameIsHandle
  BY DEF IInv
<1>2. /\ readyState' = [readyState EXCEPT ![s] = IF s = websocket THEN "closed" ELSE "unused"]
      /\ reconnectTimer' = ~hidden
      /\ UNCHANGED <<websocket, wireVars, nameVars, handlers, hidden, waiting, asked>>
  BY DEF OnClose, ScheduleReconnect
<1>3. /\ readyState'[s] \in {"closed", "unused"}
      /\ \A t \in Sockets \ {s} : readyState'[t] = readyState[t]
  BY <1>1, <1>2 DEF TypeOK
<1>4. TypeOK'
  BY <1>1, <1>2 DEF TypeOK, States, nameVars, wireVars
<1>5. OneLiveSocket' /\ FirstFrameIsHandle'
  BY <1>1, <1>2, <1>3 DEF OneLiveSocket, FirstFrameIsHandle, wireVars
<1>6. NoLostReconnect'
  BY <1>2 DEF NoLostReconnect
<1>7. SubscriptionsKept'
  BY <1>1, <1>2, <1>3 DEF SubscriptionsKept, Connected, Is, wireVars, TypeOK
<1>. QED
  BY <1>4, <1>5, <1>6, <1>7 DEF IInv

\* Every step keeps the invariant.
LEMMA NextKeeps ==
  ASSUME IInv, [Next]_vars
  PROVE  IInv'
<1>. USE WebClientAssumption
<1>1. TypeOK /\ OneLiveSocket /\ NoLostReconnect /\ SubscriptionsKept /\ FirstFrameIsHandle
  BY DEF IInv
<1>2. ASSUME NEW fn \in BOOLEAN, Connect(fn)
      PROVE  IInv'
  <2>1. PICK s \in Sockets : OpenSocket(s, wsUri')
    BY <1>2 DEF Connect
  <2>2. /\ ~Live /\ wsUri' = Server /\ username' = Me /\ asked' = TRUE
        /\ handlers' \subseteq Channels \union {Me}
        /\ UNCHANGED <<reconnectTimer, hidden, waiting>>
    BY <1>1, <1>2 DEF Connect, TypeOK
  <2>. QED
    BY <1>1, <2>1, <2>2, OpenSocketKeepsInv DEF TypeOK
<1>3. ASSUME NEW fn \in BOOLEAN, ConnectAgain(fn)
      PROVE  IInv'
  <2>1. /\ asked' = TRUE
        /\ handlers' \subseteq handlers \union {Me}
        /\ UNCHANGED <<socketVars, nameVars, reconnectTimer, hidden, waiting>>
    BY <1>1, <1>3 DEF ConnectAgain, TypeOK
  <2>2. TypeOK'
    BY <1>1, <2>1 DEF TypeOK, socketVars, wireVars, nameVars
  <2>3. OneLiveSocket' /\ FirstFrameIsHandle' /\ NoLostReconnect'
    BY <1>1, <2>1
    DEF OneLiveSocket, FirstFrameIsHandle, NoLostReconnect, Live, Is, socketVars, wireVars
  <2>4. SubscriptionsKept'
    BY <1>1, <2>1 DEF SubscriptionsKept, Connected, Is, socketVars, wireVars
  <2>. QED
    BY <2>2, <2>3, <2>4 DEF IInv
<1>4. ASSUME NEW r \in Requests, Ask(r)
      PROVE  IInv'
  <2>1. CASE Ready
    BY <1>1, <1>4, <2>1, PerformKeeps DEF Ask, TypeOK
  <2>2. CASE ~Ready
    <3>1. /\ waiting' = waiting \union {r}
          /\ UNCHANGED <<socketVars, handlers, nameVars, reconnectTimer, hidden, asked>>
      BY <1>4, <2>2 DEF Ask
    <3>. QED
      BY <1>1, <3>1
      DEF IInv, TypeOK, OneLiveSocket, FirstFrameIsHandle, NoLostReconnect, SubscriptionsKept,
          Connected, Live, Is, socketVars, wireVars, nameVars
  <2>. QED
    BY <2>1, <2>2
<1>5. ASSUME NEW r \in Requests, Poll(r)
      PROVE  IInv'
  BY <1>1, <1>5, PerformKeeps DEF Poll, TypeOK
<1>6. ASSUME NEW s \in Sockets, OnOpen(s)
      PROVE  IInv'
  BY <1>6, OnOpenKeeps
<1>7. ASSUME NEW s \in Sockets, PeerCloses(s)
      PROVE  IInv'
  <2>1. /\ readyState' = [readyState EXCEPT ![s] = "closing"]
        /\ UNCHANGED <<websocket, wireVars, nameVars, handlers, reconnectTimer, hidden,
                       waiting, asked>>
    BY <1>7 DEF PeerCloses
  <2>2. TypeOK'
    BY <1>1, <2>1 DEF TypeOK, States, wireVars, nameVars
  <2>3. /\ readyState'[s] = "closing"
        /\ \A t \in Sockets \ {s} : readyState'[t] = readyState[t]
    BY <1>1, <2>1 DEF TypeOK
  <2>4. OneLiveSocket' /\ FirstFrameIsHandle'
    BY <1>1, <2>1, <2>3 DEF OneLiveSocket, FirstFrameIsHandle, wireVars
  <2>5. NoLostReconnect' /\ SubscriptionsKept'
    BY <1>1, <2>1, <2>3
    DEF NoLostReconnect, SubscriptionsKept, Connected, Live, Is, TypeOK, wireVars
  <2>. QED
    BY <2>2, <2>4, <2>5 DEF IInv
<1>8. ASSUME NEW s \in Sockets, Fail(s) \/ Close(s)
      PROVE  IInv'
  BY <1>8, OnCloseKeeps DEF Fail, Close
<1>9. CASE Reconnect
  BY <1>1, <1>9
  DEF IInv, Reconnect, ScheduleReconnect, TypeOK, OneLiveSocket, FirstFrameIsHandle,
      NoLostReconnect, SubscriptionsKept, Connected, Live, Is, socketVars, wireVars, nameVars
<1>10. CASE ReconnectFires
  <2>1. CASE Live
    BY <1>1, <1>10, <2>1
    DEF IInv, ReconnectFires, TypeOK, OneLiveSocket, FirstFrameIsHandle,
        NoLostReconnect, SubscriptionsKept, Connected, Live, Is, socketVars, wireVars, nameVars
  <2>2. CASE ~Live
    <3>1. PICK s \in Sockets : OpenSocket(s, wsUri)
      BY <1>10, <2>2 DEF ReconnectFires
    <3>2. /\ reconnectTimer' = FALSE /\ waiting' = waiting \union {Resubscribe}
          /\ UNCHANGED <<nameVars, handlers, hidden, asked>>
      BY <1>10, <2>2 DEF ReconnectFires
    <3>3. Resubscribe \in Requests
      BY DEF Resubscribe, Requests
    <3>. QED
      BY <1>1, <2>2, <3>1, <3>2, <3>3, OpenSocketKeepsInv DEF TypeOK, nameVars
  <2>. QED
    BY <2>1, <2>2
<1>11. CASE Hide \/ Show
  BY <1>1, <1>11
  DEF IInv, Hide, Show, TypeOK, OneLiveSocket, FirstFrameIsHandle,
      NoLostReconnect, SubscriptionsKept, Connected, Live, Is, socketVars, wireVars, nameVars
<1>12. CASE UNCHANGED vars
  BY <1>1, <1>12
  DEF IInv, TypeOK, OneLiveSocket, FirstFrameIsHandle, NoLostReconnect, SubscriptionsKept,
      Connected, Live, Is, vars, socketVars, wireVars, nameVars
<1>. QED
  BY <1>2, <1>3, <1>4, <1>5, <1>6, <1>7, <1>8, <1>9, <1>10, <1>11, <1>12 DEF Next

LEMMA InitHolds == Init => IInv
<1>. SUFFICES ASSUME Init
              PROVE  IInv
  OBVIOUS
<1>. QED
  BY WebClientAssumption
  DEF Init, IInv, TypeOK, States, OneLiveSocket, FirstFrameIsHandle, NoLostReconnect,
      SubscriptionsKept, Connected, Live, Is

\* The inductive invariant holds in every reachable state.
THEOREM Invariance == Spec => []IInv
<1>1. Init => IInv
  BY InitHolds
<1>2. IInv /\ [Next]_vars => IInv'
  BY NextKeeps
<1>. QED
  BY <1>1, <1>2, PTL DEF Spec

----------------------------------------------------------------------------
(* The theorems.                                                              *)

\* Every variable keeps its type.
THEOREM TypeCorrect == Spec => []TypeOK
<1>1. IInv => TypeOK
  BY DEF IInv
<1>. QED
  BY <1>1, Invariance, PTL

\* One socket at most is connecting or open, and it is the client's.
THEOREM OneSocketLives == Spec => []OneLiveSocket
<1>1. IInv => OneLiveSocket
  BY DEF IInv
<1>. QED
  BY <1>1, Invariance, PTL

\* A visible page without a socket always has a reconnect to come.
THEOREM ReconnectsAreKept == Spec => []NoLostReconnect
<1>1. IInv => NoLostReconnect
  BY DEF IInv
<1>. QED
  BY <1>1, Invariance, PTL

\* An open socket has subscribed every channel that has a handler.
THEOREM SubscriptionsAreKept == Spec => []SubscriptionsKept
<1>1. IInv => SubscriptionsKept
  BY DEF IInv
<1>. QED
  BY <1>1, Invariance, PTL

\* The first frame of every connection is a handle.
THEOREM HandleGoesFirst == Spec => []FirstFrameIsHandle
<1>1. IInv => FirstFrameIsHandle
  BY DEF IInv
<1>. QED
  BY <1>1, Invariance, PTL
=============================================================================
