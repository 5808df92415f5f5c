----------------------------- MODULE OOCSICalls ------------------------------
(* Calls of oocsi-web.js: a page that calls, pages that have registered to    *)
(* answer, and the server between them.                                       *)
(*                                                                            *)
(* A call is known by its _MESSAGE_ID, which every responder sends back.  The *)
(* server passes a message on to whoever is subscribed, a page that connects  *)
(* again under its handle included; what is under way when a connection ends  *)
(* may or may not arrive.  Answers overtake each other.  Time is counted per  *)
(* call: what is left until its expiration.  When sockets open and close is   *)
(* the subject of OOCSIWebClient; a closed one sends and receives nothing.    *)
EXTENDS Integers

CONSTANTS Ids,         \* bound: the calls of the page
          Responders,  \* pages that register for the call
          MaxTimeout,  \* bound: the longest timeout
          MaxHandlers  \* bound: how often one page registers

ASSUME CallsAssumption == MaxTimeout \in Nat /\ MaxHandlers \in Nat

VARIABLES
  socket,    \* readyState of the websocket, "none" before there is one
  interval,  \* callCleanupInterval is set
  waiting,   \* calls that wait for the socket, with their timeouts
  asked,     \* history: calls the page has asked for
  calls,     \* calls that have an entry in calls
  left,      \* time until the expiration of a call; 0 is expired
  handlers,  \* per responder: how many handlers it has registered
  up,        \* responders that are connected
  requests,  \* under way to a responder
  answers,   \* under way to the page
  heard,     \* history: the answers the callback of a call was called with
  threw,     \* history: calls whose callback has thrown
  strays     \* history: answers that went to the handlers of the page's handle

connectionVars == <<socket, interval>>
responderVars == <<handlers, up>>
history == <<heard, threw, strays>>
vars == <<connectionVars, waiting, asked, calls, left, responderVars, requests, answers, history>>

Waiting == [id : Ids, timeout : 0..MaxTimeout]
Requests == [id : Ids, to : Responders]
Answers == [id : Ids, by : Responders, nth : 1..MaxHandlers]

TypeOK ==
  /\ socket \in {"none", "connecting", "open", "closed"}
  /\ interval \in BOOLEAN
  /\ waiting \subseteq Waiting
  /\ asked \subseteq Ids
  /\ calls \subseteq asked
  /\ left \in [Ids -> 0..MaxTimeout]
  /\ handlers \in [Responders -> 0..MaxHandlers]
  /\ up \subseteq Responders
  /\ requests \subseteq Requests
  /\ answers \subseteq Answers
  /\ heard \in [Ids -> SUBSET Answers]
  /\ threw \subseteq Ids
  /\ strays \subseteq Answers

Connected == socket = "open"
Expired == {id \in calls : left[id] = 0}
Subscribed == {r \in up : handlers[r] > 0}

----------------------------------------------------------------------------
(* Mutations: the definition each is named after, with a plausible slip.  The *)
(* specification uses none of them; a property is kept only if one breaks it. *)

\* The entry is not checked for its expiration.
CallbackLate(a, throws) ==
  /\ heard' = [heard EXCEPT ![a.id] = @ \union {a}]
  /\ threw' = IF throws THEN threw \union {a.id} ELSE threw
  /\ calls' = IF throws THEN calls ELSE calls \ {a.id}
  /\ UNCHANGED strays

\* The entry is kept: the interval will clean it up.
CallbackKeeps(a, throws) ==
  /\ heard' = IF left[a.id] > 0 THEN [heard EXCEPT ![a.id] = @ \union {a}] ELSE heard
  /\ threw' = IF throws THEN threw \union {a.id} ELSE threw
  /\ UNCHANGED <<calls, strays>>

\* Calls go down with the connection.
LoseForgetsCalls ==
  /\ socket \in {"connecting", "open"}
  /\ socket' = "closed"
  /\ requests' \in SUBSET requests
  /\ answers' \in SUBSET answers
  /\ calls' = {}
  /\ UNCHANGED <<interval, waiting, asked, left, responderVars, history>>

\* Each call is to clean up after itself.
CleanUpNothing == FALSE /\ UNCHANGED vars

----------------------------------------------------------------------------
(* The page that calls.                                                       *)

\* internalCall: nothing at all unless connected.
InternalCall(id, timeout) ==
  IF Connected
  THEN /\ calls' = (calls \ Expired) \union {id}
       /\ left' = [left EXCEPT ![id] = timeout]
       /\ requests' = requests \union [id : {id}, to : Subscribed]
  ELSE UNCHANGED <<calls, left, requests>>

\* call: through waitForSocket ...
Call(id, timeout) ==
  /\ id \notin asked
  /\ asked' = asked \union {id}
  /\ IF socket \in {"none", "connecting"}
     THEN /\ waiting' = waiting \union {[id |-> id, timeout |-> timeout]}
          /\ UNCHANGED <<calls, left, requests>>
     ELSE InternalCall(id, timeout) /\ UNCHANGED waiting
  /\ UNCHANGED <<connectionVars, responderVars, answers, history>>

\* ... which polls.
Poll(w) ==
  /\ w \in waiting
  /\ socket \in {"open", "closed"}
  /\ waiting' = waiting \ {w}
  /\ InternalCall(w.id, w.timeout)
  /\ UNCHANGED <<connectionVars, asked, responderVars, answers, history>>

\* cleanupExpiredCalls, every ten seconds once connect has set the interval.
CleanUp ==
  /\ interval
  /\ calls' = calls \ Expired
  /\ UNCHANGED <<connectionVars, waiting, asked, left, responderVars, requests, answers, history>>

\* An answer to a call that has an entry.  If the callback throws, the deletion
\* that follows is skipped.
Callback(a, throws) ==
  /\ throws => left[a.id] > 0
  /\ heard' = IF left[a.id] > 0 THEN [heard EXCEPT ![a.id] = @ \union {a}] ELSE heard
  /\ threw' = IF throws THEN threw \union {a.id} ELSE threw
  /\ calls' = IF throws THEN calls ELSE calls \ {a.id}
  /\ UNCHANGED strays

\* onMessage: any other answer is a message to the page's handle.
OnMessage(a, throws) ==
  /\ Connected
  /\ a \in answers
  /\ answers' = answers \ {a}
  /\ \/ a.id \in calls /\ Callback(a, throws)
     \/ /\ a.id \notin calls /\ ~throws
        /\ strays' = strays \union {a}
        /\ UNCHANGED <<heard, threw, calls>>
  /\ UNCHANGED <<connectionVars, waiting, asked, left, responderVars, requests>>

\* connect of the page: one that finds a socket connecting or open returns
\* early and sets no interval.
Connect ==
  /\ socket \in {"none", "closed"}
  /\ socket' = "connecting"
  /\ interval' = TRUE
  /\ UNCHANGED <<waiting, asked, calls, left, responderVars, requests, answers, history>>

\* The timer, reconnect or a page that is shown: before connect too.
Reconnect ==
  /\ socket \in {"none", "closed"}
  /\ socket' = "connecting"
  /\ UNCHANGED <<interval, waiting, asked, calls, left, responderVars, requests, answers, history>>

Open ==
  /\ socket = "connecting"
  /\ socket' = "open"
  /\ UNCHANGED <<interval, waiting, asked, calls, left, responderVars, requests, answers, history>>

Lose ==
  /\ socket \in {"connecting", "open"}
  /\ socket' = "closed"
  /\ requests' \in SUBSET requests
  /\ answers' \in SUBSET answers
  /\ UNCHANGED <<interval, waiting, asked, calls, left, responderVars, history>>

----------------------------------------------------------------------------
(* The pages that answer.                                                     *)

\* internalRegister: each time a handler of its own.
Register(r) ==
  /\ r \in up
  /\ handlers[r] < MaxHandlers
  /\ handlers' = [handlers EXCEPT ![r] = @ + 1]
  /\ UNCHANGED <<connectionVars, waiting, asked, calls, left, up, requests, answers, history>>

\* onMessage and the handlers of internalRegister, one after the other: the first
\* that throws ends it, and the caller is told nothing.
Respond(q, nths) ==
  /\ q \in requests
  /\ q.to \in up
  /\ nths \in {{}} \union {1..n : n \in 1..handlers[q.to]}
  /\ requests' = requests \ {q}
  /\ answers' = answers \union [id : {q.id}, by : {q.to}, nth : nths]
  /\ UNCHANGED <<connectionVars, waiting, asked, calls, left, responderVars, history>>

\* A responder's connection ends and comes back, with its handlers.
ResponderLost(r) ==
  /\ r \in up
  /\ up' = up \ {r}
  /\ \E gone \in SUBSET {q \in requests : q.to = r} : requests' = requests \ gone
  /\ UNCHANGED <<connectionVars, waiting, asked, calls, left, handlers, answers, history>>

ResponderBack(r) ==
  /\ r \notin up
  /\ up' = up \union {r}
  /\ UNCHANGED <<connectionVars, waiting, asked, calls, left, handlers, requests, answers, history>>

----------------------------------------------------------------------------
\* A millisecond or a minute: time passes for every entry alike.
Tick ==
  /\ \E id \in calls : left[id] > 0
  /\ left' = [id \in Ids |->
       IF id \in calls /\ left[id] > 0 THEN left[id] - 1 ELSE left[id]]
  /\ UNCHANGED <<connectionVars, waiting, asked, calls, responderVars, requests, answers, history>>

Init ==
  /\ socket = "none"
  /\ interval = FALSE
  /\ waiting = {}
  /\ asked = {}
  /\ calls = {}
  /\ left = [id \in Ids |-> 0]
  /\ handlers = [r \in Responders |-> 0]
  /\ up = Responders
  /\ requests = {}
  /\ answers = {}
  /\ heard = [id \in Ids |-> {}]
  /\ threw = {}
  /\ strays = {}

Next ==
  \/ \E id \in Ids, timeout \in 0..MaxTimeout : Call(id, timeout)
  \/ \E w \in waiting : Poll(w)
  \/ \E a \in answers, throws \in BOOLEAN : OnMessage(a, throws)
  \/ \E r \in Responders : Register(r) \/ ResponderLost(r) \/ ResponderBack(r)
  \/ \E q \in requests, nths \in SUBSET (1..MaxHandlers) : Respond(q, nths)
  \/ CleanUp \/ Connect \/ Reconnect \/ Open \/ Lose \/ Tick

Spec == Init /\ [][Next]_vars

\* Time passes, and the interval fires if there is one.
FairSpec == Spec /\ WF_vars(Tick) /\ WF_vars(CleanUp)

----------------------------------------------------------------------------
(* Safety.                                                                    *)

\* Whoever answers, and however often, the callback of a call is called once,
\* unless it throws (the entry is then still there for the next answer).
AnsweredOnce ==
  \A id \in Ids \ threw : \A a, b \in heard[id] : a = b

\* Messages to the page's handle go to its own handler, and so do answers nobody
\* waits for; but never the one a call still waits for, lost connections included.
StraysAreSurplus ==
  \A a \in strays : heard[a.id] # {} \/ left[a.id] = 0

\* What the page sees of a call, as CallPromise has it.
Status(id) ==
  IF heard[id] # {} THEN "answered"
  ELSE IF id \in calls /\ left[id] > 0 THEN "open"
  ELSE IF id \in asked /\ \A w \in waiting : w.id # id THEN "over"
  ELSE "none"

Promise == INSTANCE CallPromise WITH status <- [id \in Ids |-> Status(id)]

\* A call is answered in time or not at all, and neither an answer, a second
\* answer, a cleanup nor a new connection brings one back that is over.
ImplementsPromise == Promise!Spec

----------------------------------------------------------------------------
(* Liveness.                                                                  *)

\* Entries do not pile up: answered or not, each goes, even if its callback
\* throws on every answer.  Supposed is that connect has set the interval: if the
\* page was shown, or reconnected, before it called connect, that returns early,
\* and only the next call removes the entries that expired.
EntriesGo == <>interval => \A id \in Ids : id \in calls ~> id \notin calls
=============================================================================
