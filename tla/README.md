# A TLA+ model of oocsi-web

oocsi-web is the web front of an OOCSI message server. It is a Play application
(Java, Pekko actors) that contains the server itself, lets browsers join it over
WebSockets, lets plain HTTP requests send a message or call a service, and serves
the JavaScript client that pages use. This directory models its core logic in
TLA+: TLC checks small instances, TLAPS proves the central safety properties for
every instance.

Abbreviations below: `A` is `app/controllers/Application.java`, `js` is
`app/assets/js/oocsi-web.js`, line numbers are those of the repository's sources.

## 1. The system

| Component | State | Operations | What makes it correct |
|---|---|---|---|
| Service calls over HTTP (`ServiceClientActor`, `ServiceRequestClient`, `A.serviceCall`, `A.internalServiceCall`) | a static pool of 16 clients (`POOL_SIZE`); per call an actor with its client, `replyTo` and timer; per client the answer stored last and a callback | start the actor and `ask` it (5 s); take or make a client; reset, set callback, arm timer (1.8 s), send; answer, time-out, restart, poison | a client serves one call at a time and always comes back; every call ends; a time-out never hides an answer that is there; a call gets its own answer |
| WebSocket sessions (`WebSocketClientActor`, `WebSocketClient`, `A.ws`) | per connection an actor, its client, its mailbox, ping permits; in the server names and subscriptions | handle, welcome or refusal, subscribe, unsubscribe, sendjson, pong, ping, disconnect, close | no two clients of one name; a refused client harms nobody and is closed; what is closed is forgotten by the server |
| JavaScript client, connection (`oocsi-web.js`) | `websocket`, `wsUri`, `username`, `handlers`, reconnect timer, document visibility | connect, subscribe, unsubscribe, register, close, reconnect; onOpen, onClose, onError; timers; visibilitychange | one live socket; the handle is the first frame; subscriptions survive reconnects; a visible page comes back |
| JavaScript client, calls (`oocsi-web.js`) | `calls`: an expiration and a callback per `_MESSAGE_ID`; `responders` of other pages | call, register, onMessage, the clean-up of the table | a callback is called once, in time or not at all; an answer that is waited for is not lost; the table does not grow |
| Variables and things (`oocsi-web.js`, `things/oocsi-things.js`) | per page and name a value and a throttle; links from the data of others to one's own; devices seen | set, receive, link; heartbeat, expiry | a change gets to all pages linked with it and dies out; who is linked to nobody is overruled by nobody |
| Chat widget (`oocsi-chat.js`) | channel and name, also as cookies; the window, the list and the badge | open, name, join, send, receive, leave, reload | what is left stays left; a message counts once; who joined is subscribed; others see who is here |
| Network visualisation (`oocsi-graphvis.js`) | a feed of events, who can see it; nodes, links, dots; a filter | event, its timer for subscribers, dot, filter; scroll, hide, failure, retry | a feed exactly while somebody looks; ways lead over the server; the filter hides what it should |
| heyOOCSI registry (`HeyOOCSIClient`) | a concurrent map of devices, and when each was first looked at by a page | announce, look up by name, search by distance and by location; purge and list | a purge removes only what is stale, and all of it; searches miss nobody who is there all along |
| HTTP requests for clients (`HTTPRequestClient`) | the time of the last request, requests in flight | validate, throttle, send, follow redirects, answer | at most the allowed rate; every hop is checked; every request gets one answer |
| Server-sent events (`SSEChannelClient`, `A.sse…`) | a bounded queue, a subscription | subscribe, offer, end | nothing stays subscribed after the stream ends, whichever comes first |
| HTTP send, track, channels (`A.send…`) | none of its own: reads the server's names and channels | check, then send | an answer, also if the channel goes in between |
| Rate limiting (`A`) | token buckets per address, in an evicting cache | take a token | library algorithms |
| Echo client, generators, summarising log | none, or one lock around counters | one message out per message in or tick | no interleaving to check |
| Pages, tools, code generation | none | render | - |
| OOCSI server (git submodule, not in the repository) | clients by name, channels, subscriptions | addClient, removeClient, getClient, getChannel, ping | external: taken from how the code above uses it |

How they interact. A page's client talks to its session over one WebSocket; the
session's client talks to the server by method calls on the actor's thread. The
server delivers a message by calling `send` on each subscriber, on the sender's
thread: a recipient's exception surfaces in the sender, and a request client's
answer arrives on the responder's thread. An HTTP service call starts an actor and
continues on a future. Only a callback and a mailbox connect a request client with
its actor; only a `PoisonPill` ends an actor, always behind the mail it already has.
On the pages, the chat, the things and the calls all go through the one JavaScript
client: what they ask while the socket connects waits in polls of its own, and what
they ask while it is closed is dropped or, if it is a subscription, remembered. The
network visualisation does not use that client but an `EventSource`.

What is hard. Actors run one message at a time, but the objects they hand out
(request clients, permits) are touched by other threads; a client in the pool is
still addressed by late answers; two time-outs run side by side; an exception
restarts one kind of actor (default supervision) and stops the other (ActorFlow); the
server can admit another client between a check and the addition; `kill()` is a
message and not a stop; in the browser the reconnect timer, the events of several
sockets, visibility and the polls of 200 ms meet in any order; a throttle drops what it
cannot tell apart; timers that are never cleared fire into a page that has moved on. `PROJECT.json` lists each
hazard with its line and the property that watches it.

## 2. Modules

Each module is the translation of the code named in `PROJECT.json` under `map`.

### ServiceLease, ServiceClientActor

`ServiceLease` is the promise: a call opens and closes once; a pooled client is
lent to one call at a time, a call has one at most.

`ServiceClientActor` is the code. One step of the model is one stretch of the
code that other threads can see as a whole:

| Code | Model |
|---|---|
| `A.serviceCall`, `A.serviceCallPost`: too many calls (429), no such channel (404) | `RefuseCall` |
| `A.internalServiceCall`: `actorOf`, `ask` | `StartCall`, `AskTimeout` |
| its `thenApply` / `exceptionally` | `FinishCall`; on a malformed answer `FinishMalformed`, then `FinishExceptionally` |
| actor constructor: `poll()` or a new client | `ConstructPooled`, `ConstructOverflow` |
| `ServiceRequest`: reset; lookup; callback and timer; send | `ReceiveRequest`; `ServiceGone` or `ArmCallback`; `SendRequest` |
| an exception there, and the restart | `RestartActor` |
| `ServiceResponse`, `ServiceTimeout`, `postStop` | `ReceiveResponse`, `ReceiveTimeout`, `PostStop` in `ReceivePoison` and `RestartActor` |
| `ServiceRequestClient.send`: store, then read the callback | `StoreAnswer`, `CallBack` |
| the timer; the channel comes and goes | `TimerFires`, `ServiceChanges` |

A malformed answer poisons the actor twice, once before `thenApply` throws and once in
`exceptionally`; the second poison finds the actor alive or its mailbox gone. `RefuseCall` may
happen with the channel there too, as the limit counts calls of any service.

An answer is represented by the call it answers, which is what its `MESSAGE_ID`
tells. A restarted actor has no request left that can throw, so `Runs` has two
values. `registered` starts as any subset of the pool since the result of
`addClient` is not looked at.

### NameLease, WebSocketSession

`NameLease` is what a connection may expect of its name: it is answered once, a welcome lends it a
name that nobody has, a refusal lends it none, and a name given back does not return to it.

`WebSocketSession` is the code. One actor per connection. `TakeHandle` computes the name (`NamesFor`: a valid handle,
or one made from hashes in up to 20 attempts), `Welcome` and `Reject` are
`addClient`; between the two steps other actors run. Every later frame is one of
`Subscribe`, `Unsubscribe`, `SendJson` or `Pong`; a pong reads the permits in one
step and releases in the next. `PostStop` is the actor's end after a close, a refusal,
a disconnect or an exception. The server is external: unique names, `removeClient` by
identity, a limit on clients, pings on its own threads. A second text handle after
the first frame is no command, and hence a pong, as in the code. `registered` and
`published` are indexed by connection, so that two clients with the same name
stay apart: whether the code keeps them apart is the question.

### OOCSIWebClient

One page. Each JavaScript task is an action. Sockets that were replaced keep their
callbacks (`OnOpen`, `Fail`, `Close` for any socket), the requests behind
`waitForSocket` are polled for independently (`Ask`, `Poll`), the reconnect timer is a
boolean (`ScheduleReconnect` clears and arms it; a hidden page arms none). Left out are
the lengths of delays, including the longer one after the close codes for refusals by
rate, and the payloads of `send` and `call`, which change neither sockets nor
subscriptions.

### HeyOOCSI

The registry, walked by several threads at once. A thread announces devices (`Announce`,
`PutDevice`, `EndAnnounce`: the lock is held from the first to the last, and a malformed
entry ends the loop), looks one up (`Lookup`, then `LookupGets` or `LookupThrows`, since
`containsKey` and `get` are two steps), searches (`Search`, one `Visit` per key, `AnswerNear` or
`AnswerAt`, `Send`) or makes a page (`Page`, `PurgeVisit` and `Remove` per key, `List`, `Visit`,
`ShowPage`). A device is an object: `Devices` is a set of objects with what they say fixed
by `KeyOf`, `IdOf` and `PlacesOf`, and announcing the same device again takes another
object, since `removeIf` compares objects. `since` and `stayed` are history variables that
no guard reads: what has been in the map, or which clients have been there, for the
whole of a search or a page. All searches near a point ask about one point, from
which `PlacesOf` gives the distances.

### CallPromise, OOCSICalls

`CallPromise` is what a page may expect of `OOCSI.call`: a call is open until it is answered
or over, and both are for good.

`OOCSICalls` is the code, for one page that calls and others that answer. `calls` is the table;
`left` is the time each entry has, which `Tick` takes from all of them. `Call` goes through
`waitForSocket` (`Poll`); `InternalCall` cleans the table and sends, or does nothing at all unless
connected; `OnMessage` finds the entry of an answer (`Callback`: called unless expired; a
callback that throws skips the deletion) or takes it for a message to the page's own
handle (`strays`). `Respond` runs the handlers that `Register` has put behind one another, up to
one that throws. `interval` is set only by a `Connect` that opens the socket itself: one that finds a
socket which a shown page or `reconnect` has opened (`Reconnect`) returns early, and `CleanUp` does
not run. `Lose`, `ResponderLost` and `ResponderBack` lose any of the messages under way. A
`_MESSAGE_ID` is made once, and the model does not use one twice. `heard`, `threw` and `strays` are
history.

### OOCSIThings

Pages of one team. `Accessor` is the function that `OOCSI.variable` returns: dropped while the
throttle runs, else the value is taken, and sent if it is the page's own change and a new
one. `Linked` is the listener that `connect` and `link` add: it hands the value to the page's own
accessor, which sends it on under its own name. A task (`Set`, `Receive`) computes what the page
holds and sends, and `Finish` gives the message to all others that listen and are connected. A
throttle ends when `ThrottleEnds` says so, in any order and as late as it likes. `calm` and `sent`
are history: since which page's change everything else was quiet, and what was passed on
since then.

### OOCSIChat

The widget in one page, over as much of the client as it uses: the socket, the number of
functions per channel, the calls that wait. `ConnectToChannel` adds a function per join (each is a
new closure, so that the check for duplicates never finds one); the function it gives to
`connect` is a handler of the page's own handle, and `MessageToHandle` runs it. `Leave` and `Forget` are the
halves of `Disconnect`: the first does nothing unless the socket is open. The page may be `hidden`, when nobody
clicks and a socket that closes sets no timer (`Fails`, `retry`), and shown again, when one is set
(`VisibilityChange`), before `connect` as well: it then has a socket, to the default server, and no handle.
Raw data on a channel is a text to the widget and counts. `Reload` is the page going and
coming back with what the cookies hold, which may have expired. `OthersSend` is the rest of the
channel. A message is of a kind, a channel and a name. `announced`, `stale`, `excused` and `missed` are history:
where the others believe the page to be; which channels were left while the socket was down or a
subscribe for them was waiting; which were left without a `<LEAVE>` that could be said, or with
a `<JOIN>` waiting, or were announced again by the function given to `connect`; and what the badge should
show.

### OOCSIGraphVis

The feed: `Start` and `Stop` are `startEventSource` and `stopEventSource`, called by `Intersect`, `VisibilityChange`,
`FeedFails` and `Retry`. The graph: a node is known by its path of components below `clients` or
`channels`, a link by its ends and type. `SendMessage` is one event: `Ensure` looks both nodes up and adds
what is missing (`AddPath`: `PathSteps` takes one component after the other, with an `Update` after
each that was new), then `FindPath` and `AnimateDot`; `AddSubscribers` is its timer, whose subscribers
`SubscriberSteps` takes in turn. `FindPath` searches in rounds (`Explore`) instead of node by node, as many as
there are nodes, and leaves open which neighbour of two becomes the parent; then it walks back
(`StepBack`). These are recursive functions, so that they can be reasoned about. A name with an empty component is
added without it and looked up with it, so that it is never found: the link to it has no
target, from which `Update` and the filter throw. `thrown` carries this through the rest of the task;
the handler of the feed ignores it. A filter is looked for in the whole name, slashes included; both are
taken apart at the slashes, and components are compared as wholes, so that "lab/pc" and "/pc" select what they
should, but "ab" does not select "lab". Letter case is left out. `drawnFor` and `entered` are history: the filter
of the last drawing that was not cut off, and the nodes that came on the screen with it.

### WebSocket sessions and the client are separate

`WebSocketSession` takes any frames from any browser, and `OOCSIWebClient` any behaviour of the
server. Each is checked against more than the other does, and so no composition is needed
for the properties stated here; what only the two together could show is in section 6.

### MC modules

`MCServiceClientActor`, `MCWebSocketSession`, `MCOOCSIWebClient` and `MCHeyOOCSI` add the symmetry of model
values, used in runs without liveness only. `MCHeyOOCSI` also gives three devices: two
announcements of one name, and another device at the distance of the first, with a second
place. `MCOOCSIThings` gives three pages of `public/html/things` and their links, among them a
cycle. `MCOOCSIGraphVis` gives names that share a node, one with an empty component, and a filter with slashes
that selects only that one.
`MCOOCSICalls` and `MCOOCSIChat` need nothing beyond their configurations.

Each component module has a section *Mutations*: plausible slips of the definition
each is named after. No specification uses them. `PROJECT.json` pairs each property
with the one that breaks it.

## 3. Runs

| Run | Instance | Distinct states | Shows |
|---|---|---|---|
| `service` | 2 calls, 1 responder, pool of 1 | 436 k | type invariant; `ClientsConserved`, `CallbackOwned`, `TimeoutFailureMeansNoAnswer`; `ImplementsLease`; `EveryCallEnds` |
| `service_crosstalk` | the same | - | finding: `AnswerIsOwn` is violated |
| `session` | 2 connections, 1 valid and 1 generated name, 1 channel, 2 frames each | 119 k | type invariant; `NothingLeftBehind`, `NoEviction`; `ImplementsNameLease`; `FirstFrameAnswered`, `ClosedIsForgotten` |
| `session_refused` | the same with 3 frames | - | finding: `RefusedIsSilent` is violated |
| `web_client` | 2 sockets at a time, 1 channel and the handle | 329 k | type invariant; `OneLiveSocket`, `NoLostReconnect`, `SubscriptionsKept`, `FirstFrameIsHandle`; `ComesBack` |
| `web_client_misled` | the same | - | finding: `ConnectIsObeyed` is violated |
| `hey_safety` | 2 threads, 3 devices of 2 names, 2 places, `closest` of -1, 1 and 100 | 1.0 M | type invariant; `ConnectedStays`, `PageShowsNoStale`, `SearchMissesNobody`, `PurgedIsExpired` |
| `hey_range` | the same | - | finding: `EveryoneInRange` is violated |
| `calls` | 2 calls, 2 responders of 1 handler, timeouts of 0 to 2 | 232 k | `AnsweredOnce`, `StraysAreSurplus`; `ImplementsPromise`; `EntriesGo` |
| `things` | 3 pages, 2 of which feed each other, 2 values | 698 k | `ChangeInPeaceArrives`, `ChangeInPeaceDiesOut`, `SourceRules` |
| `chat` | 2 channels, 1 name of the user and 1 of another, 2 joins, 1 message under way | 1.0 M | type invariant; `LeftIsLeft`, `CountedOnce`, `AnnouncedIsMember`; `JoinedIsSubscribed` |
| `graph_vis` | 3 clients, 1 channel, 2 filters, 2 retry timers, 1 timer of subscribers, 1 dot | 26 k | type invariant; `FeedFollowsPage`, `PathsThroughServer`, `ScreenShowsFiltered`; `FeedResumes` |

What the less obvious properties say:

- `ClientsConserved`: the pool and the clients in hand are together the pool of the start, none
  twice; a client made for one call is its own and goes with it.
- `ImplementsNameLease`: who has a name in the server and what each connection was told change together
  or not at all, whatever closes, kills and pings come between. No two clients have one name; nobody
  is welcomed without a name, welcomed twice or refused after a welcome; and a client that
  was removed is not added again.
- `StraysAreSurplus`: an answer that went past the table had been preceded by another one or came
  too late, also if connections were lost in between.
- `ImplementsPromise`: neither an answer, a second one, a clean-up nor a new connection changes the
  fate of a call that is over.
- `ChangeInPeaceArrives`: with concurrent changes the copies of a variable may differ for good,
  because the throttle drops received values too, and a page that has a value already does not pass it
  on. What does hold is weaker, and not obvious on a cycle of links: if nothing else is under
  way and the value is news to all, it gets everywhere, and then (`ChangeInPeaceDiesOut`) stops.
- `EntriesGo` supposes in its statement that `connect` has set the interval. A page that was shown, or
  reconnected, before it called `connect` has none (finding 3); its expired entries go with its next call.
- `LeftIsLeft` and `CountedOnce` except the channels in `stale`: those left while the socket was down or
  while a subscribe for them was waiting. There the code does bring a channel back, and joined again it may
  have two functions, which count a message twice; nothing in the repository says otherwise. The
  properties say that this happens in no other way.
- `AnnouncedIsMember`: the others believe the page to be in the channel it has joined, or in one that is
  `excused`: its `<LEAVE>` could not be sent because the socket was down, a `<JOIN>` for it was waiting at
  that time, or a message to the page's handle made the function given to `connect` announce it after it was left.
  A channel left with an open socket and none of these is believed left, the first one joined included.
- `JoinedIsSubscribed` supposes that from some time on the page stays, stays visible, and its socket does not
  fail: a socket that closed on a hidden page comes back only when the page is shown.
- `ScreenShowsFiltered`: a node is drawn regardless of the filter when it enters, and by the next drawing
  this is put right. It has two parts. Whatever happened, a node that did not enter with the last drawing is seen only if
  the filter of that drawing selects it. And the last drawing was for the filter typed, with all that this selects on the
  screen, unless a filter is typed and some link has no target. In that case (a subscriber
  with an empty component in its name was linked, and links are never removed) each update throws before it
  draws: the screen stays as it was drawn for an earlier filter, nodes that are new do not appear, and
  only emptying the filter draws again. A second, smaller exception: such a name pushes no node of its own, so
  that the chains may learn it without an update; a node that only this name selects, under a filter with a slash,
  may stay hidden until the next update. TLC finds each of the exceptions violated when it is dropped.

Why the bounds are enough. A pool of one with two calls has all the cases: the pool
is empty, or the second call reuses the client of the first, with its late answer.
More calls repeat these pairs, and the safety proofs cover every number. Two
connections suffice for names, because each property relates a connection to one
other. Two frames are a handle and a command, before and behind a refusal; a third would be a
second command, and the safety proofs cover any number of frames. A permit of one
reaches both ends of the count. Two sockets are the current one and one that is
still closing; a third would be a second closing one, which behaves as the first (the
proofs cover any number). `Sockets` bounds sockets at one time: a socket that was
replaced and has closed is used again. Two threads have every pair of operations in
every interleaving (a purge and an announcement, two purges, a search and a purge); the
devices have equal and different distances, a place out of range, and a name that is
announced again. Two responders give a second answer, in time or late, and two calls an entry that
expires while another waits; the ids are used up, since a page makes a new one for each call.
The three pages have a link, a chain and a cycle; `MaxUnderWay` bounds when a page may set its
datum, not what may be received. Two channels are the one left and the one joined next, a second
join of the same one is what would add a second function; one message under way suffices, as the
widget handles each on its own. In the graph, `MAX_ACTIVE_DOTS` of one reaches the limit;
two retry timers are one that fires while another is pending; `MaxLater` of one has a timer pending with everything
else going on; three clients below one node are two that share it and one that adds nothing to the tree. The
proofs cover any number of all these.

The session and call runs do not check for deadlock, because connections that sent their frames and
are closed stop, and so does a page whose calls are made and over; in the
others something can always happen (the service comes and goes, pages hide and show).

### Fairness

- Service calls: `WF` of the actor's own steps (the dispatcher runs an actor that has
  mail), of the `ask` time-out (the scheduler keeps time) and of the continuation.
  None for responders, who may never answer, none for the actor's timer and none for
  the answer's two steps: the `ask` time-out alone must end the call. The choice
  between sending and throwing is left open.
- Sessions: `WF` of the actor. None for browsers: a page may stay silent for good.
- JavaScript client: `WF` of the timer and of the end of a closing handshake, `SF` of
  `OnOpen`. A server that never accepts cannot be come back to; one that is tried
  again and again and is up once accepts, which is what `SF` says. The code never gives
  up trying: the delay is bounded, and the number of attempts is not.
- Calls: `WF` of the clock and of the interval that cleans up, which can only fire once `connect` has set it. None for the network, the
  responders or the sockets.
- Chat: `WF` of reconnecting, opening, polling and receiving. `JoinedIsSubscribed` supposes in its statement
  that the socket fails finitely often and the page stays and stays visible, so that no `SF` is needed; a
  hidden page sets no timer, and none is assumed for it.
- Network visualisation: `WF` of the retry timer. None for events, for who looks, or for the feed.
- Things: none. How a throttle ends is left open, and the three properties are about safety.

## 4. Proofs

All theorems are checked by TLAPS with no unproved step. They assume only what the
`ASSUME`s of the modules say (that constants of different kinds differ, that bounds
are numbers, that names are sequences of strings), no finiteness and no sizes. `GraphVisAssumption` also says that the two literals
`"clients"` and `"channels"` are strings, which no prover knows.

`ServiceClientActor_proofs`. `PoolConserved` is not inductive alone, since
returning a client appends `held[c]` to the pool and resets it. The invariant `IInv`
is `TypeOK`, `PoolConserved`, `CallbackOwned`, `OverflowPrivate`, and two more:
`ActorConsistent` (a call not yet started has no actor, and an overflow client in hand is the
one its present incarnation made)
and `EnvelopesPrivate` (a request or delivery to an overflow client is of the call
that owns it). `TimeoutsAreHonest` needs in addition `AnswerKept`: while an actor waits,
an answer that left `requests` for a registered client is in `completed`. From these
follow `TypeCorrect`, `ClientsAreConserved` (`PoolConserved` and `OverflowPrivate`), `CallbacksAreOwned`,
`TimeoutsAreHonest` and `Refinement`: initial states map to initial states of
`ServiceLease`, and every step maps to one of its steps or to a stutter. The proof
has a step per action.

`OOCSIWebClient_proofs`. The conjunction of the five invariants is inductive. That is a
result in itself: `SubscriptionsKept` needs `OneLiveSocket`, for the `onOpen` of a
replaced socket would otherwise subscribe on the wrong one.

`HeyOOCSI_proofs`. None of the first three properties is inductive alone. The invariant says
that an object about to be announced is known to nobody (`Announced`), so that the object
a purge has in its hands is past its hour if the map still has it (`Victims`); and that what
a page has to get rid of is under a key it has still to visit, or in its hands (`Purging`),
so that nothing is left when the listing begins.

`SearchesFind` is `SearchMissesNobody`: a search for a location leaves out nobody who is registered there
all through it, and one for the nearest only those who are farther away than all it answers, and
then it answers as many as it was asked for. What is in the map from its beginning is under a key it
has still to visit, or has been read (`Searching`); a step of another thread only takes devices out of
what it has to consider. For the number of answers, `NearestCount` gives each distance its rank,
the number of smaller ones: ranks tell distances apart and take every value below their number, so
that those of a rank below `closest` are exactly as many, if any are left out.

`WebSocketSession_proofs`. Who is in the server, or subscribed to anything, refused or not, has an
actor that takes commands (`RegisteredServe`, `SubscribersServe`); an actor beyond its handle has a name, so that
`postStop` has a client to remove (`Named`); a pong in progress has seen a permit missing
(`PongHasRoom`); nobody is answered before being named (`NotYetGreeted`). With `NamesUnique` and the types this is inductive, and `NothingLeftBehind` and `NoEviction` follow: only
an actor that stops, or a disconnect by the server, removes a client, and it removes its own.
`NamesAreLent` is the refinement: a welcome is a `Lend`, a refusal a `Refuse`, whatever ends a client a
`Return`, and everything else a stutter.

`OOCSICalls_proofs`. A `_MESSAGE_ID` is made once (`Fresh`); a call that was answered has no entry, unless its
callback threw (`Answered`); one that was not has its entry or no time left (`Accounted`). From these
follow `CallbackOnce`, `NoAnswerAstray` and, with a lemma per action, the refinement `CallsKeepThePromise`.

`OOCSIThings_proofs`. What a page sends has the name of its own datum and goes to others (`NoEcho`), so that
a page without links that shares its datum with nobody is sent nothing at all.
For a change in peace (`CalmInv`): all that is under way carries the new value; a page whose throttle runs has
the value; what a page with the value sends is with, or on its way to, all who listen (`Spread`); and only
a page that has the value has passed anything on (`Spreading`). So a throttle can only drop what the page
has already, and a page passes the change on once, when it becomes news to it. Once nothing is under
way the pages with the value are closed under the links, and so are all that links lead to. This
needs no path and no order, and holds for cycles as for trees.

`OOCSIChat_proofs`. The four invariants need each other: a second function could only come from a
channel that has one when it is joined, which `FunctionsAreOfChannel` excludes; the badge needs
`OneFunctionPerChannel`. Added are the room for a join (`RoomKept`), that a waiting `<JOIN>` is for the channel joined or
an excused one (`JoinsAreOfChannel`), from which `AnnouncedIsMember` follows when it is sent, and that a function was given to `connect` only if it was called.

`OOCSIGraphVis_proofs`. `FeedFollowsPage` is inductive together with the types of the feed's variables; the graph
cannot disturb it. The graph has an invariant of its own, `GraphInv` (`GraphKept`):

- `IsTree`: nodes are paths, what is above a node is a node, and the links but the subscriptions are
  exactly those from each node to the one above. With it `FindPathIsWay`: in each round of the search from a
  client, the parent of a node is the next one towards the client (`SearchOK`), since a tree leaves
  no choice; the search gets one step farther along the way to the channel in each round
  (`SearchArrives`), and the way has no more steps than the graph has nodes (`WayIsShort`), so that
  neither the rounds nor the steps back run out. `DotsPassTheServer` follows.
- `Learned`: every client node knows, for each node below it, a client with all components of
  that. A name with an empty component is never found and added again and again, without a new node
  and without an update; `Learned` is why such a name (`OnlyLearned`) tells a filter of one component nothing
  new (`OneComponent`). A name without one that only walks known nodes ends at its own, which was then known
  and not added at all (`WayOfName`); and after a node was pushed (`JustDrawn`) no node is left that
  could learn and is not drawn anew.
- `Kept` and `DrawnOK`, the two parts of `ScreenShowsFiltered`: the first since chains only grow (`KeptGrows`), so that
  what a filter has selected it goes on selecting; the second from the above. `ScreenFollowsFilter` follows.
- `thrown` only if a link has no target (`Broken`).
- The dots and the timers are about nodes that are there, or about a node that was not found.

The functions over components, subscribers, rounds and steps are recursive. That they exist
(`FoldExists`) and what they keep goes by `Climb`, induction over a set of numbers instead of a predicate,
from `WFMin` of the library.

Only model-checked: all liveness (`EveryCallEnds`, `FirstFrameAnswered`, `ClosedIsForgotten`, `ComesBack`, `EntriesGo`,
`JoinedIsSubscribed`, `FeedResumes`), since fairness is out of the provers' reach. The violated
properties are shown by TLC's traces.

## 5. Findings

1. `AnswerIsOwn` (`service_crosstalk`). A request has a fresh `MESSAGE_ID`, but nothing
   compares it with the answer's. A call times out, its client returns to the pool, the
   next call takes it, and the late answer to the first is returned as that of the
   second. `A:654` describes the operation as "respond to GET request to service
   (forward, return)".
2. `RefusedIsSilent` (`session_refused`). `kill()` is documented as "terminate this
   websocket client (and connection)" (`WebSocketClientActor.java:115`), but frames that
   are in the mailbox before its `PoisonPill` are carried out for the refused client:
   it subscribes, and sends under a name that belongs to another. `NothingLeftBehind` and
   `ClosedIsForgotten` show that this ends with the connection.
3. `ConnectIsObeyed` (`web_client_misled`). A page that is shown, or calls `reconnect`, before
   it calls `connect` gets a socket to the initial `ws://localhost/ws`; `connect` then finds a
   live socket and returns before it stores server and handle. The README (line 81) says
   that this call connects to the server it names.
4. `EveryoneInRange` (`hey_range`). A search for devices within a distance collects them in a
   map from distance to id: of two devices at the same distance one is lost, although the
   code means to "build list of all client within given distance"
   (`HeyOOCSIClient.java:150`). `NearestKept`, in `SearchMissesNobody`, shows that nothing else is lost.

## 6. What is not modelled, and the plan

Not modelled for good: rate limiting (library algorithms), layout, dragging and sparklines of the
network visualisation, markup and escaping of the chat, the heyOOCSI builder of the JavaScript
client (it fills in a message and calls what is modelled), echo client, generators and
log (nothing to interleave), pages and code generation (no state), the vendored QR code generator,
the OOCSI server (its sources are not part of the repository).

Not covered by a property: `public/html/things/reference.html:338` says of a variable that its subscriber runs if the value
changes, while `js:304` and `js:320` call it on every write and message; `OOCSIThings` has the values of variables, compared with
`!==` as the primitives that pages use, and no subscribers but links.

Known to the model without a property, because no text of the repository says what should
happen: a value written while the socket is down is never sent; a responder that
throws tells its caller nothing; a look-up in the registry may find null, and a negative
`closest` throws; `unsubscribe` and `register` on a closed socket are dropped silently. `PROJECT.json`
lists those that bite with the reason.

Plan, in this order:

1. The backoff: a refused handle resets it, because the socket opens before the server
   answers. This needs `OOCSIWebClient` and `WebSocketSession` composed, with delays.
2. The presence of things: a message every 8 s, forgotten after 20 s.
3. `HTTPRequest`: throttle, slots, redirects hop by hop. `SSEChannel` and `WebSend`: the two
   orders of ending and subscribing, the channel that goes between check and use.
4. Proofs for what 1 to 3 add. Every invariant, action property and refinement of the present runs is
   proved.
