------------------------- MODULE ServiceClientActor -------------------------
(* HTTP calls to an OOCSI service.                                            *)
(*                                                                            *)
(* Application.internalServiceCall starts one ServiceClientActor per call and *)
(* asks it for the answer; the actor takes a ServiceRequestClient from a pool *)
(* (or registers a new one when the pool is empty), sends the request to the  *)
(* service's channel under that client's name, and waits for the answer or    *)
(* for a timer.  The HTTP side then poisons the actor, whose postStop returns *)
(* the client.  Responders are other OOCSI clients: they answer when they     *)
(* like, on their own threads, to the name of the request client.             *)
EXTENDS Naturals, SequencesExt

CONSTANTS Calls,       \* HTTP requests
          POOL_SIZE,   \* how many request clients the pool is created with
          Responders,  \* the clients subscribed to the service's channel
          None         \* null

\* An actor is restarted at most once: only its one request can throw.
Runs == 1..2

\* The clients of the pool, and the ones an actor registers under a fresh name
\* when it finds the pool empty.
Pooled == {"pool"} \X (1..POOL_SIZE)
Overflow == Calls \X Runs
Clients == Pooled \union Overflow

ASSUME ServiceAssumption ==
  /\ POOL_SIZE \in Nat
  /\ None \notin Calls \union Clients \union {"failure"}
  /\ {"pool", "failure"} \intersect Calls = {}

VARIABLES
  service,     \* whether the service's channel exists
  registered,  \* the request clients the server knows by name
  pool,        \* the pool, a FIFO queue
  completed,   \* completedMessage of each client: whose answer it is
  callback,    \* responseCallback of each client: the actor it tells
  actor,       \* where each actor is
  run,         \* which incarnation of the actor it is
  held,        \* requestClient of each actor
  replyTo,     \* whether the actor remembers who asked
  timer,       \* timeoutTask
  mailbox,     \* the actor's mailbox
  requests,    \* requests the responders have not answered
  deliveries,  \* answers stored in the client, the callback not yet read
  ask,         \* the HTTP side of each call
  answer       \* what the HTTP side got: the call it answers, or a failure

clientVars == <<registered, pool, completed, callback>>
actorVars  == <<actor, run, held, replyTo>>
netVars    == <<service, requests, deliveries>>
httpVars   == <<ask, answer>>
vars == <<clientVars, actorVars, timer, mailbox, netVars, httpVars>>

Kinds == {"request", "response", "timeout", "poison"}
Mail == [kind : Kinds, of : Calls]
Message(kind, c) == [kind |-> kind, of |-> c]

\* A request on its way to a responder, and its answer on the way back.
Envelope == [of : Calls, to : Clients, by : Responders]

TypeOK ==
  /\ service \in BOOLEAN
  /\ registered \subseteq Clients
  /\ pool \in Seq(Pooled)
  /\ completed \in [Clients -> Calls \union {None}]
  /\ callback \in [Clients -> Calls \union {None}]
  /\ actor \in [Calls -> {"absent", "starting", "receiving", "reset", "sending", "stopped"}]
  /\ run \in [Calls -> Runs]
  /\ held \in [Calls -> Clients \union {None}]
  /\ replyTo \in [Calls -> BOOLEAN]
  /\ timer \in [Calls -> {"off", "armed", "fired", "cancelled"}]
  /\ mailbox \in [Calls -> Seq(Mail)]
  /\ requests \subseteq Envelope
  /\ deliveries \subseteq Envelope
  /\ ask \in [Calls -> {"idle", "pending", "replied", "malformed", "done"}]
  /\ answer \in [Calls -> Calls \union {None, "failure"}]

----------------------------------------------------------------------------
(* Operations of the mailbox, the pool and the promise.                       *)

\* Mail to an actor that is not there goes to dead letters.
Tell(c, m) ==
  mailbox' = IF actor[c] = "stopped" THEN mailbox
             ELSE [mailbox EXCEPT ![c] = Append(@, m)]

Receives(c, kind) ==
  /\ actor[c] = "receiving"
  /\ mailbox[c] # <<>>
  /\ Head(mailbox[c]).kind = kind

Consume(c) == mailbox' = [mailbox EXCEPT ![c] = Tail(@)]

\* A reply completes the promise of the ask once; later replies are dropped.
Reply(c, a) ==
  IF replyTo[c] /\ ask[c] = "pending"
  THEN /\ ask' = [ask EXCEPT ![c] = "replied"]
       /\ answer' = [answer EXCEPT ![c] = a]
  ELSE UNCHANGED httpVars

CancelTimer(c) ==
  timer' = [timer EXCEPT ![c] = IF @ = "armed" THEN "cancelled" ELSE @]

\* ServiceRequestClient.reset
Reset(k) ==
  /\ completed' = [completed EXCEPT ![k] = None]
  /\ callback' = [callback EXCEPT ![k] = None]

----------------------------------------------------------------------------
(* Mutations: the definition each is named after, with a plausible slip.  The *)
(* specification uses none of them; a property is kept only if one breaks it. *)

\* postStop offers every client to the pool, its own or not.
PostStopPoolsAll(c) ==
  /\ CancelTimer(c)
  /\ held' = [held EXCEPT ![c] = None]
  /\ Reset(held[c])
  /\ pool' = Append(pool, held[c])
  /\ UNCHANGED registered

\* postStop returns a pooled client without resetting it.
PostStopNoReset(c) ==
  /\ CancelTimer(c)
  /\ held' = [held EXCEPT ![c] = None]
  /\ IF held[c] \in Pooled
     THEN /\ pool' = Append(pool, held[c])
          /\ UNCHANGED <<registered, completed, callback>>
     ELSE /\ registered' = registered \ {held[c]}
          /\ UNCHANGED <<pool, completed, callback>>

\* postStop forgets the client: preRestart overridden, or an early return.
PostStopForgets(c) ==
  /\ CancelTimer(c)
  /\ held' = [held EXCEPT ![c] = None]
  /\ UNCHANGED clientVars

\* The constructor peeks at the pool instead of polling it.
ConstructPooledPeeks(c) ==
  /\ actor[c] = "starting"
  /\ pool # <<>>
  /\ held' = [held EXCEPT ![c] = Head(pool)]
  /\ actor' = [actor EXCEPT ![c] = "receiving"]
  /\ UNCHANGED <<clientVars, run, replyTo, timer, mailbox, netVars, httpVars>>

\* The answer is taken out of the client when the callback has been called.
CallBackClears(e) ==
  /\ e \in deliveries
  /\ deliveries' = deliveries \ {e}
  /\ completed' = [completed EXCEPT ![e.to] = None]
  /\ LET c == callback[e.to] IN
     IF c = None THEN UNCHANGED mailbox ELSE Tell(c, Message("response", e.of))
  /\ UNCHANGED <<registered, pool, callback, actorVars, timer, service, requests, httpVars>>

\* Only thenApply kills the actor, exceptionally does not.
FinishCallKeepsActor(c) ==
  /\ ask[c] = "replied"
  /\ ask' = [ask EXCEPT ![c] = "done"]
  /\ IF answer[c] = "failure" THEN UNCHANGED mailbox ELSE Tell(c, Message("poison", c))
  /\ UNCHANGED <<clientVars, actorVars, timer, netVars, answer>>

----------------------------------------------------------------------------
\* postStop: the timer is cancelled and the client goes back where it came from.
PostStop(c) ==
  /\ CancelTimer(c)
  /\ held' = [held EXCEPT ![c] = None]
  /\ IF held[c] \in Pooled
     THEN /\ Reset(held[c])
          /\ pool' = Append(pool, held[c])
          /\ UNCHANGED registered
     ELSE /\ registered' = registered \ {held[c]}
          /\ UNCHANGED <<pool, completed, callback>>

----------------------------------------------------------------------------
Init ==
  /\ service \in BOOLEAN
  /\ registered \in SUBSET Pooled   \* addClient may refuse, and is not checked
  /\ pool = [i \in 1..POOL_SIZE |-> <<"pool", i>>]
  /\ completed = [k \in Clients |-> None]
  /\ callback = [k \in Clients |-> None]
  /\ actor = [c \in Calls |-> "absent"]
  /\ run = [c \in Calls |-> 1]
  /\ held = [c \in Calls |-> None]
  /\ replyTo = [c \in Calls |-> FALSE]
  /\ timer = [c \in Calls |-> "off"]
  /\ mailbox = [c \in Calls |-> <<>>]
  /\ requests = {}
  /\ deliveries = {}
  /\ ask = [c \in Calls |-> "idle"]
  /\ answer = [c \in Calls |-> None]

----------------------------------------------------------------------------
(* The HTTP side: Application.serviceCall and internalServiceCall.            *)

\* No such service: 404, and no actor.  Or 429: too many calls, of any service.
RefuseCall(c) ==
  /\ ask[c] = "idle"
  /\ ask' = [ask EXCEPT ![c] = "done"]
  /\ answer' = [answer EXCEPT ![c] = "failure"]
  /\ UNCHANGED <<clientVars, actorVars, timer, mailbox, netVars>>

\* actorOf, then ask.
StartCall(c) ==
  /\ ask[c] = "idle"
  /\ service
  /\ actor' = [actor EXCEPT ![c] = "starting"]
  /\ mailbox' = [mailbox EXCEPT ![c] = <<Message("request", c)>>]
  /\ ask' = [ask EXCEPT ![c] = "pending"]
  /\ UNCHANGED <<clientVars, run, held, replyTo, timer, netVars, answer>>

\* The ask gives up after its own 5000 ms.
AskTimeout(c) ==
  /\ ask[c] = "pending"
  /\ ask' = [ask EXCEPT ![c] = "replied"]
  /\ answer' = [answer EXCEPT ![c] = "failure"]
  /\ UNCHANGED <<clientVars, actorVars, timer, mailbox, netVars>>

\* thenApply, and exceptionally if the reply was a failure: poison the actor and
\* make the HTTP result.
FinishCall(c) ==
  /\ ask[c] = "replied"
  /\ ask' = [ask EXCEPT ![c] = "done"]
  /\ Tell(c, Message("poison", c))
  /\ UNCHANGED <<clientVars, actorVars, timer, netVars, answer>>

\* thenApply poisons the actor, and then throws on a reply whose html, text, json or
\* csv is no string ...
FinishMalformed(c) ==
  /\ ask[c] = "replied"
  /\ answer[c] # "failure"
  /\ ask' = [ask EXCEPT ![c] = "malformed"]
  /\ Tell(c, Message("poison", c))
  /\ UNCHANGED <<clientVars, actorVars, timer, netVars, answer>>

\* ... whereupon exceptionally poisons it a second time and answers 404.
FinishExceptionally(c) ==
  /\ ask[c] = "malformed"
  /\ ask' = [ask EXCEPT ![c] = "done"]
  /\ answer' = [answer EXCEPT ![c] = "failure"]
  /\ Tell(c, Message("poison", c))
  /\ UNCHANGED <<clientVars, actorVars, timer, netVars>>

----------------------------------------------------------------------------
(* The actor.                                                                 *)

\* The constructor polls the pool without waiting.
ConstructPooled(c) ==
  /\ actor[c] = "starting"
  /\ pool # <<>>
  /\ held' = [held EXCEPT ![c] = Head(pool)]
  /\ pool' = Tail(pool)
  /\ actor' = [actor EXCEPT ![c] = "receiving"]
  /\ UNCHANGED <<registered, completed, callback, run, replyTo, timer, mailbox, netVars, httpVars>>

\* With an empty pool it adds a client of its own, whatever addClient says.
ConstructOverflow(c) ==
  /\ actor[c] = "starting"
  /\ pool = <<>>
  /\ LET k == <<c, run[c]>> IN
     /\ held' = [held EXCEPT ![c] = k]
     /\ \E admitted \in SUBSET {k} : registered' = registered \union admitted
  /\ actor' = [actor EXCEPT ![c] = "receiving"]
  /\ UNCHANGED <<pool, completed, callback, run, replyTo, timer, mailbox, netVars, httpVars>>

\* ServiceRequest, up to the lookup of the service's channel.
ReceiveRequest(c) ==
  /\ Receives(c, "request")
  /\ Consume(c)
  /\ replyTo' = [replyTo EXCEPT ![c] = TRUE]
  /\ Reset(held[c])
  /\ actor' = [actor EXCEPT ![c] = "reset"]
  /\ UNCHANGED <<registered, pool, run, held, timer, netVars, httpVars>>

\* The service has gone since serviceCall looked.
ServiceGone(c) ==
  /\ actor[c] = "reset"
  /\ ~service
  /\ actor' = [actor EXCEPT ![c] = "receiving"]
  /\ Reply(c, "failure")
  /\ UNCHANGED <<clientVars, run, held, replyTo, timer, mailbox, netVars>>

\* The callback is set and the timer started before the request is built.
ArmCallback(c) ==
  /\ actor[c] = "reset"
  /\ service
  /\ callback' = [callback EXCEPT ![held[c]] = c]
  /\ timer' = [timer EXCEPT ![c] = "armed"]
  /\ actor' = [actor EXCEPT ![c] = "sending"]
  /\ UNCHANGED <<registered, pool, completed, run, held, replyTo, mailbox, netVars, httpVars>>

RequestsOf(c) == {[of |-> c, to |-> held[c], by |-> r] : r \in Responders}

\* The channel passes the request on to its subscribers.
SendRequest(c) ==
  /\ actor[c] = "sending"
  /\ requests' = requests \union RequestsOf(c)
  /\ actor' = [actor EXCEPT ![c] = "receiving"]
  /\ UNCHANGED <<clientVars, run, held, replyTo, timer, mailbox, service, deliveries, httpVars>>

\* Building the request, or a subscriber's send, throws: the supervisor restarts
\* the actor, which runs postStop and constructs it again.  Some subscribers may
\* have the request already.
RestartActor(c) ==
  /\ actor[c] = "sending"
  /\ \E sent \in SUBSET RequestsOf(c) : requests' = requests \union sent
  /\ PostStop(c)
  /\ actor' = [actor EXCEPT ![c] = "starting"]
  /\ run' = [run EXCEPT ![c] = 2]
  /\ replyTo' = [replyTo EXCEPT ![c] = FALSE]
  /\ UNCHANGED <<mailbox, service, deliveries, httpVars>>

\* ServiceResponse
ReceiveResponse(c) ==
  /\ Receives(c, "response")
  /\ Consume(c)
  /\ CancelTimer(c)
  /\ Reply(c, Head(mailbox[c]).of)
  /\ UNCHANGED <<clientVars, actorVars, netVars>>

\* ServiceTimeout: the answer may be there although its ServiceResponse is not.
ReceiveTimeout(c) ==
  /\ Receives(c, "timeout")
  /\ Consume(c)
  /\ Reply(c, IF completed[held[c]] # None THEN completed[held[c]] ELSE "failure")
  /\ UNCHANGED <<clientVars, actorVars, timer, netVars>>

\* A PoisonPill stops the actor; what is left in its mailbox is dead letters.
ReceivePoison(c) ==
  /\ Receives(c, "poison")
  /\ PostStop(c)
  /\ actor' = [actor EXCEPT ![c] = "stopped"]
  /\ mailbox' = [mailbox EXCEPT ![c] = <<>>]
  /\ UNCHANGED <<run, replyTo, netVars, httpVars>>

\* The scheduler tells the actor after 1800 ms.
TimerFires(c) ==
  /\ timer[c] = "armed"
  /\ timer' = [timer EXCEPT ![c] = "fired"]
  /\ Tell(c, Message("timeout", c))
  /\ UNCHANGED <<clientVars, actorVars, netVars, httpVars>>

----------------------------------------------------------------------------
(* The responders' side: ServiceRequestClient.send runs on their threads.     *)

\* An answer reaches the client its name belongs to, if the server still has it,
\* and is stored.
StoreAnswer(e) ==
  /\ e \in requests
  /\ requests' = requests \ {e}
  /\ IF e.to \in registered
     THEN /\ completed' = [completed EXCEPT ![e.to] = e.of]
          /\ deliveries' = deliveries \union {e}
     ELSE UNCHANGED <<completed, deliveries>>
  /\ UNCHANGED <<registered, pool, callback, actorVars, timer, mailbox, service, httpVars>>

\* The callback is read after that, and called if there is one.
CallBack(e) ==
  /\ e \in deliveries
  /\ deliveries' = deliveries \ {e}
  /\ LET c == callback[e.to] IN
     IF c = None THEN UNCHANGED mailbox ELSE Tell(c, Message("response", e.of))
  /\ UNCHANGED <<clientVars, actorVars, timer, service, requests, httpVars>>

\* The service's channel comes and goes with its responders.
ServiceChanges ==
  /\ service' = ~service
  /\ UNCHANGED <<clientVars, actorVars, timer, mailbox, requests, deliveries, httpVars>>

----------------------------------------------------------------------------
\* What the dispatcher runs next for an actor.
ActorStep(c) ==
  \/ ConstructPooled(c) \/ ConstructOverflow(c)
  \/ ReceiveRequest(c) \/ ServiceGone(c) \/ ArmCallback(c) \/ SendRequest(c)
  \/ ReceiveResponse(c) \/ ReceiveTimeout(c) \/ ReceivePoison(c)

FinishStep(c) == FinishCall(c) \/ FinishMalformed(c) \/ FinishExceptionally(c)

CallStep(c) ==
  \/ RefuseCall(c) \/ StartCall(c) \/ AskTimeout(c) \/ FinishStep(c)
  \/ ActorStep(c) \/ RestartActor(c) \/ TimerFires(c)

Next ==
  \/ \E c \in Calls : CallStep(c)
  \/ \E e \in Envelope : StoreAnswer(e) \/ CallBack(e)
  \/ ServiceChanges

Spec == Init /\ [][Next]_vars

\* The dispatcher runs every actor and every continuation, and the scheduler
\* keeps time.  Responders owe nothing.
Fairness ==
  \A c \in Calls :
    /\ WF_vars(ActorStep(c) \/ RestartActor(c))
    /\ WF_vars(AskTimeout(c))
    /\ WF_vars(FinishStep(c))

FairSpec == Spec /\ Fairness

----------------------------------------------------------------------------
(* Safety.                                                                    *)

\* Whether c's actor has a client in its hands.
Holds(c) == actor[c] \in {"receiving", "reset", "sending"}

\* No pooled client is lost and none is shared: each one is in the pool exactly
\* once, or exactly one live actor holds it.  Restarts, failures and time-outs
\* all go through postStop; a client returned twice would serve two calls.
PoolConserved ==
  /\ IsInjective(pool)
  /\ \A c, d \in Calls : held[c] = held[d] /\ held[c] # None => c = d
  /\ \A k \in Pooled : k \in ToSet(pool) <=> \A c \in Calls : held[c] # k
  /\ \A c \in Calls : Holds(c) <=> held[c] # None

\* A pooled client calls back only the actor that holds it now: reset leaves no
\* callback of an earlier call behind.
CallbackOwned ==
  \A k \in Pooled : callback[k] # None => held[callback[k]] = k

\* A client made for one call carries only that call's answers, and is known to
\* the server only while its actor holds it: nothing is left behind by a call
\* that found the pool empty.
OverflowPrivate ==
  \A c \in Calls, r \in Runs :
    /\ completed[<<c, r>>] \in {c, None}
    /\ callback[<<c, r>>] \in {c, None}
    /\ <<c, r>> \in registered => held[c] = <<c, r>>

\* However calls fail, overflow the pool, time out or are answered late, every
\* client is the pool's or one call's, and none is left behind.
ClientsConserved == PoolConserved /\ OverflowPrivate

\* The call's timer reports a failure only if no responder's answer had reached
\* the client: completedMessage covers the answer whose ServiceResponse is still
\* behind the time-out in the mailbox.
TimeoutFailureMeansNoAnswer ==
  [][\A c \in Calls :
       ReceiveTimeout(c) /\ ask[c] = "pending" /\ answer'[c] = "failure"
         => RequestsOf(c) \subseteq requests \/ held[c] \notin registered]_vars

\* The answer of a call is the answer to its own request: each request carries a
\* fresh MESSAGE_ID, and Application answers "respond to GET request to service
\* (forward, return)".
AnswerIsOwn == \A c \in Calls : answer[c] \in Calls => answer[c] = c

----------------------------------------------------------------------------
(* Liveness.                                                                  *)

\* Every call gets a result and its actor stops, and so gives its client back,
\* whatever the responders do and whatever throws: the pool does not drain.
EveryCallEnds == \A c \in Calls :
  ask[c] = "pending" ~> ask[c] = "done" /\ actor[c] = "stopped"

----------------------------------------------------------------------------
(* Refinement: the pooled clients are leased as ServiceLease says.            *)

Holder(k) ==
  IF \E c \in Calls : held[c] = k THEN CHOOSE c \in Calls : held[c] = k ELSE None

Progress(c) ==
  CASE ask[c] = "idle" -> "idle"
    [] ask[c] = "done" -> "closed"
    [] OTHER -> "open"

Lease == INSTANCE ServiceLease WITH
  Nobody <- None,
  holder <- [k \in Pooled |-> Holder(k)],
  status <- [c \in Calls |-> Progress(c)]

ImplementsLease == Lease!LeaseSpec
=============================================================================
