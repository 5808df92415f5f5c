-------------------------- MODULE OOCSICalls_proofs --------------------------
(* Proofs about OOCSICalls, for any number of calls, pages that answer and    *)
(* handlers of a page, and for timeouts of any length.                        *)
(*                                                                            *)
(* The argument: a _MESSAGE_ID is made once (Fresh), so that only a call that *)
(* was never made gets an entry.  A call whose callback was called has no     *)
(* entry any more, unless the callback threw (Answered); one that was not has *)
(* its entry, or its time is over (Accounted).                                *)
EXTENDS OOCSICalls, TLAPS

\* The calls that internalCall has dealt with.
Made == {id \in asked : \A w \in waiting : w.id # id}

Fresh ==
  /\ \A w \in waiting : w.id \in asked
  /\ \A v, w \in waiting : v.id = w.id => v = w
  /\ calls \subseteq Made
  /\ \A id \in Ids : heard[id] # {} => id \in Made
  /\ \A q \in requests : q.id \in Made
  /\ \A a \in answers : a.id \in Made

Answered == \A id \in Ids : heard[id] # {} /\ id \notin threw => id \notin calls

Accounted == \A id \in Ids : id \in calls \/ heard[id] # {} \/ left[id] = 0

Strays == \A a \in strays : a.id \in Made /\ a.id \notin calls

IInv ==
  /\ TypeOK
  /\ Fresh
  /\ Answered
  /\ AnsweredOnce
  /\ Accounted
  /\ Strays

----------------------------------------------------------------------------
(* One lemma per kind of step.                                                *)

\* internalCall of a call that was not made before.
LEMMA InternalCallKeeps ==
  ASSUME IInv, NEW id \in Ids, NEW timeout \in 0..MaxTimeout,
         id \notin Made, InternalCall(id, timeout),
         asked' = asked \union {id},
         waiting' \subseteq waiting,
         \A w \in waiting' : w.id # id,
         \A w \in waiting : w \in waiting' \/ w.id = id,
         UNCHANGED <<connectionVars, responderVars, answers, history>>
  PROVE  IInv'
<1>. USE CallsAssumption
<1>1. TypeOK /\ Fresh /\ Answered /\ AnsweredOnce /\ Accounted /\ Strays
  BY DEF IInv
<1>2. Made' = Made \union {id}
  BY <1>1 DEF Made, TypeOK, Waiting, Fresh
<1>3. /\ calls' \subseteq calls \union {id}
      /\ \A i \in Ids \ {id} : left'[i] = left[i] /\ (i \in calls => i \in calls' \/ left[i] = 0)
      /\ \A q \in requests' : q \in requests \/ q.id = id
      /\ requests' \subseteq Requests
      /\ left' \in [Ids -> 0..MaxTimeout]
  BY <1>1 DEF InternalCall, TypeOK, Expired, Requests, Subscribed
<1>4. heard[id] = {} /\ id \notin calls /\ left[id] = 0
  BY <1>1 DEF Fresh, Accounted
<1>5. TypeOK'
  BY <1>1, <1>3 DEF TypeOK, responderVars, connectionVars, history
<1>6. Fresh'
  <2>1. \A w \in waiting' : w.id \in asked'
    BY <1>1 DEF Fresh
  <2>2. \A v, w \in waiting' : v.id = w.id => v = w
    BY <1>1 DEF Fresh
  <2>3. calls' \subseteq Made'
    BY <1>1, <1>2, <1>3 DEF Fresh
  <2>4. \A i \in Ids : heard'[i] # {} => i \in Made'
    BY <1>1, <1>2 DEF Fresh, history
  <2>5. \A q \in requests' : q.id \in Made'
    BY <1>1, <1>2, <1>3 DEF Fresh
  <2>6. \A a \in answers' : a.id \in Made'
    BY <1>1, <1>2 DEF Fresh
  <2>. QED
    BY <2>1, <2>2, <2>3, <2>4, <2>5, <2>6 DEF Fresh
<1>7. Answered' /\ AnsweredOnce'
  BY <1>1, <1>3, <1>4 DEF Answered, AnsweredOnce, history
<1>8. Accounted'
  <2>1. id \in calls' \/ left'[id] = 0
    BY <1>1, <1>4 DEF InternalCall, TypeOK
  <2>. QED
    BY <1>1, <1>3, <2>1 DEF Accounted, history
<1>9. Strays'
  BY <1>1, <1>2, <1>3 DEF Strays, history
<1>. QED
  BY <1>5, <1>6, <1>7, <1>8, <1>9 DEF IInv

\* call(), whether or not the socket is ready.
LEMMA CallKeeps ==
  ASSUME IInv, NEW id \in Ids, NEW timeout \in 0..MaxTimeout, Call(id, timeout)
  PROVE  IInv'
<1>. USE CallsAssumption
<1>1. TypeOK /\ Fresh /\ Answered /\ AnsweredOnce /\ Accounted /\ Strays
  BY DEF IInv
<1>2. id \notin asked /\ asked' = asked \union {id}
  BY DEF Call
<1>3. \A w \in waiting : w.id # id
  BY <1>1, <1>2 DEF Fresh
<1>4. CASE socket \in {"none", "connecting"}
  <2> DEFINE new == [id |-> id, timeout |-> timeout]
  <2>1. waiting' = waiting \union {new} /\ new.id = id /\ new \in Waiting
    BY <1>4 DEF Call, Waiting
  <2>2. UNCHANGED <<connectionVars, calls, left, requests, responderVars, answers, history>>
    BY <1>4 DEF Call
  <2>3. Made' = Made
    BY <1>2, <1>3, <2>1 DEF Made
  <2>4. TypeOK'
    BY <1>1, <1>2, <2>1, <2>2 DEF TypeOK, responderVars, connectionVars, history
  <2>5. Fresh'
    <3>1. \A w \in waiting' : w.id \in asked'
      BY <1>1, <1>2, <2>1 DEF Fresh
    <3>2. \A v, w \in waiting' : v.id = w.id => v = w
      BY <1>1, <1>3, <2>1 DEF Fresh
    <3>. QED
      BY <1>1, <2>2, <2>3, <3>1, <3>2 DEF Fresh, history
  <2>6. Answered' /\ AnsweredOnce' /\ Accounted' /\ Strays'
    BY <1>1, <2>2, <2>3 DEF Answered, AnsweredOnce, Accounted, Strays, history
  <2>. QED
    BY <2>4, <2>5, <2>6 DEF IInv
<1>5. CASE socket \notin {"none", "connecting"}
  <2>1. InternalCall(id, timeout) /\ waiting' = waiting
    BY <1>5 DEF Call
  <2>2. UNCHANGED <<connectionVars, responderVars, answers, history>>
    BY DEF Call
  <2>3. id \notin Made
    BY <1>2 DEF Made
  <2>. QED
    BY <1>2, <1>3, <2>1, <2>2, <2>3, InternalCallKeeps
<1>. QED
  BY <1>4, <1>5

\* A call that has waited for the socket.
LEMMA PollKeeps ==
  ASSUME IInv, NEW w \in waiting, Poll(w)
  PROVE  IInv'
<1>1. TypeOK /\ Fresh
  BY DEF IInv
<1>2. w.id \in Ids /\ w.timeout \in 0..MaxTimeout
  BY <1>1 DEF TypeOK, Waiting
<1>3. InternalCall(w.id, w.timeout) /\ waiting' = waiting \ {w}
      /\ UNCHANGED <<connectionVars, asked, responderVars, answers, history>>
  BY DEF Poll
<1>4. w.id \notin Made
  BY DEF Made
<1>5. asked' = asked \union {w.id}
  BY <1>1, <1>3 DEF Fresh
<1>6. /\ waiting' \subseteq waiting
      /\ \A v \in waiting' : v.id # w.id
      /\ \A v \in waiting : v \in waiting' \/ v.id = w.id
  BY <1>1, <1>3 DEF Fresh
<1>7. UNCHANGED <<connectionVars, responderVars, answers, history>>
  BY <1>3
<1>. QED
  BY <1>2, <1>3, <1>4, <1>5, <1>6, <1>7, InternalCallKeeps

\* An answer comes in.
LEMMA OnMessageKeeps ==
  ASSUME IInv, NEW a \in answers, NEW throws \in BOOLEAN, OnMessage(a, throws)
  PROVE  IInv'
<1>. USE CallsAssumption
<1>1. TypeOK /\ Fresh /\ Answered /\ AnsweredOnce /\ Accounted /\ Strays
  BY DEF IInv
<1>2. /\ answers' = answers \ {a}
      /\ UNCHANGED <<connectionVars, waiting, asked, left, responderVars, requests>>
  BY DEF OnMessage
<1>3. a.id \in Ids /\ a \in Answers /\ a.id \in Made
  BY <1>1 DEF TypeOK, Answers, Fresh
<1>4. Made' = Made
  BY <1>2 DEF Made
<1>5. CASE a.id \in calls /\ Callback(a, throws)
  <2>1. strays' = strays /\ calls' \subseteq calls
    BY <1>5 DEF Callback
  <2>2. \A id \in Ids \ {a.id} :
          heard'[id] = heard[id] /\ (id \in calls' <=> id \in calls)
          /\ (id \in threw' <=> id \in threw)
    BY <1>1, <1>5 DEF Callback, TypeOK
  <2>3. heard' \in [Ids -> SUBSET Answers] /\ threw' \subseteq Ids
    BY <1>1, <1>3, <1>5 DEF Callback, TypeOK
  <2>4. TypeOK'
    BY <1>1, <1>2, <2>1, <2>3 DEF TypeOK, responderVars, connectionVars
  <2>5. Fresh'
    BY <1>1, <1>2, <1>3, <1>4, <2>1, <2>2 DEF Fresh
  <2>6. a.id \in threw' \/ a.id \notin calls'
    BY <1>3, <1>5 DEF Callback
  <2>7. Answered'
    BY <1>1, <2>2, <2>6 DEF Answered
  <2>8. AnsweredOnce'
    <3>1. a.id \notin threw' => heard[a.id] = {} /\ heard'[a.id] \subseteq {a}
      BY <1>1, <1>3, <1>5 DEF Callback, Answered, TypeOK
    <3>. QED
      BY <1>1, <2>2, <3>1 DEF AnsweredOnce
  <2>9. Accounted'
    <3>1. heard'[a.id] # {} \/ left'[a.id] = 0
      BY <1>1, <1>2, <1>3, <1>5 DEF Callback, TypeOK
    <3>. QED
      BY <1>1, <1>2, <2>2, <3>1 DEF Accounted
  <2>10. Strays'
    BY <1>1, <1>4, <2>1 DEF Strays
  <2>. QED
    BY <2>4, <2>5, <2>7, <2>8, <2>9, <2>10 DEF IInv
<1>6. CASE a.id \notin calls /\ strays' = strays \union {a} /\ UNCHANGED <<heard, threw, calls>>
  <2>1. TypeOK'
    BY <1>1, <1>2, <1>3, <1>6 DEF TypeOK, responderVars, connectionVars
  <2>2. Fresh'
    BY <1>1, <1>2, <1>4, <1>6 DEF Fresh
  <2>3. Answered' /\ AnsweredOnce' /\ Accounted'
    BY <1>1, <1>2, <1>6 DEF Answered, AnsweredOnce, Accounted
  <2>4. Strays'
    BY <1>1, <1>3, <1>4, <1>6 DEF Strays
  <2>. QED
    BY <2>1, <2>2, <2>3, <2>4 DEF IInv
<1>. QED
  BY <1>5, <1>6 DEF OnMessage

\* A responder answers.
LEMMA RespondKeeps ==
  ASSUME IInv, NEW q \in requests, NEW nths \in SUBSET (1..MaxHandlers), Respond(q, nths)
  PROVE  IInv'
<1>. USE CallsAssumption
<1>1. TypeOK /\ Fresh /\ Answered /\ AnsweredOnce /\ Accounted /\ Strays
  BY DEF IInv
<1>2. /\ requests' = requests \ {q}
      /\ answers' = answers \union [id : {q.id}, by : {q.to}, nth : nths]
      /\ UNCHANGED <<connectionVars, waiting, asked, calls, left, responderVars, history>>
  BY DEF Respond
<1>3. q.id \in Ids /\ q.to \in Responders /\ q.id \in Made
  BY <1>1 DEF TypeOK, Requests, Fresh
<1>4. \A a \in [id : {q.id}, by : {q.to}, nth : nths] : a \in Answers /\ a.id = q.id
  BY <1>3 DEF Answers
<1>5. Made' = Made
  BY <1>2 DEF Made
<1>6. TypeOK'
  BY <1>1, <1>2, <1>4 DEF TypeOK, responderVars, connectionVars, history
<1>7. Fresh'
  BY <1>1, <1>2, <1>3, <1>4, <1>5 DEF Fresh, history
<1>8. Answered' /\ AnsweredOnce' /\ Accounted' /\ Strays'
  BY <1>1, <1>2, <1>5 DEF Answered, AnsweredOnce, Accounted, Strays, history
<1>. QED
  BY <1>6, <1>7, <1>8 DEF IInv

\* Connections come and go; what is under way may be lost with them.
LEMMA ConnectionKeeps ==
  ASSUME IInv,
         interval' \in BOOLEAN,
         socket' \in {"none", "connecting", "open", "closed"},
         handlers' \in [Responders -> 0..MaxHandlers],
         up' \subseteq Responders,
         requests' \subseteq requests,
         answers' \subseteq answers,
         UNCHANGED <<waiting, asked, calls, left, history>>
  PROVE  IInv'
<1>1. TypeOK /\ Fresh /\ Answered /\ AnsweredOnce /\ Accounted /\ Strays
  BY DEF IInv
<1>2. Made' = Made
  BY DEF Made
<1>3. TypeOK'
  BY <1>1 DEF TypeOK, history
<1>4. Fresh'
  BY <1>1, <1>2 DEF Fresh, history
<1>5. Answered' /\ AnsweredOnce' /\ Accounted' /\ Strays'
  BY <1>1, <1>2 DEF Answered, AnsweredOnce, Accounted, Strays, history
<1>. QED
  BY <1>3, <1>4, <1>5 DEF IInv

\* The interval cleans up.
LEMMA CleanUpKeeps ==
  ASSUME IInv, CleanUp
  PROVE  IInv'
<1>1. TypeOK /\ Fresh /\ Answered /\ AnsweredOnce /\ Accounted /\ Strays
  BY DEF IInv
<1>2. calls' = calls \ Expired
      /\ UNCHANGED <<connectionVars, waiting, asked, left, responderVars, requests, answers, history>>
  BY DEF CleanUp
<1>3. Made' = Made
  BY <1>2 DEF Made
<1>4. TypeOK' /\ Fresh'
  BY <1>1, <1>2, <1>3 DEF TypeOK, Fresh, responderVars, connectionVars, history
<1>5. Answered' /\ AnsweredOnce' /\ Accounted' /\ Strays'
  BY <1>1, <1>2, <1>3 DEF Answered, AnsweredOnce, Accounted, Strays, Expired, history
<1>. QED
  BY <1>4, <1>5 DEF IInv

\* Time passes.
LEMMA TickKeeps ==
  ASSUME IInv, Tick
  PROVE  IInv'
<1>. USE CallsAssumption
<1>1. TypeOK /\ Fresh /\ Answered /\ AnsweredOnce /\ Accounted /\ Strays
  BY DEF IInv
<1>2. /\ left' = [id \in Ids |-> IF id \in calls /\ left[id] > 0 THEN left[id] - 1 ELSE left[id]]
      /\ UNCHANGED <<connectionVars, waiting, asked, calls, responderVars, requests, answers, history>>
  BY DEF Tick
<1>3. left' \in [Ids -> 0..MaxTimeout] /\ \A id \in Ids : left[id] = 0 => left'[id] = 0
  BY <1>1, <1>2 DEF TypeOK
<1>4. Made' = Made
  BY <1>2 DEF Made
<1>5. TypeOK' /\ Fresh'
  BY <1>1, <1>2, <1>3, <1>4 DEF TypeOK, Fresh, responderVars, connectionVars, history
<1>6. Answered' /\ AnsweredOnce' /\ Accounted' /\ Strays'
  BY <1>1, <1>2, <1>3, <1>4 DEF Answered, AnsweredOnce, Accounted, Strays, history
<1>. QED
  BY <1>5, <1>6 DEF IInv

----------------------------------------------------------------------------
LEMMA NextKeeps == IInv /\ [Next]_vars => IInv'
<1>. USE CallsAssumption
<1>. SUFFICES ASSUME IInv, [Next]_vars
              PROVE  IInv'
  OBVIOUS
<1>0. TypeOK
  BY DEF IInv
<1>1. ASSUME NEW id \in Ids, NEW timeout \in 0..MaxTimeout, Call(id, timeout)
      PROVE  IInv'
  BY <1>1, CallKeeps
<1>2. ASSUME NEW w \in waiting, Poll(w)
      PROVE  IInv'
  BY <1>2, PollKeeps
<1>3. ASSUME NEW a \in answers, NEW throws \in BOOLEAN, OnMessage(a, throws)
      PROVE  IInv'
  BY <1>3, OnMessageKeeps
<1>4. ASSUME NEW r \in Responders, Register(r) \/ ResponderLost(r) \/ ResponderBack(r)
      PROVE  IInv'
  <2>1. CASE Register(r)
    BY <1>0, <2>1, ConnectionKeeps DEF Register, TypeOK, connectionVars
  <2>2. CASE ResponderLost(r)
    BY <1>0, <2>2, ConnectionKeeps DEF ResponderLost, TypeOK, connectionVars
  <2>3. CASE ResponderBack(r)
    BY <1>0, <2>3, ConnectionKeeps DEF ResponderBack, TypeOK, connectionVars
  <2>. QED
    BY <1>4, <2>1, <2>2, <2>3
<1>5. ASSUME NEW q \in requests, NEW nths \in SUBSET (1..MaxHandlers), Respond(q, nths)
      PROVE  IInv'
  BY <1>5, RespondKeeps
<1>6. CASE CleanUp
  BY <1>6, CleanUpKeeps
<1>7. CASE Tick
  BY <1>7, TickKeeps
<1>8. CASE Connect \/ Reconnect \/ Open \/ Lose
  BY <1>0, <1>8, ConnectionKeeps DEF Connect, Reconnect, Open, Lose, TypeOK, responderVars, connectionVars
<1>9. CASE UNCHANGED vars
  BY <1>0, <1>9, ConnectionKeeps DEF vars, TypeOK, responderVars, connectionVars
<1>. QED
  BY <1>1, <1>2, <1>3, <1>4, <1>5, <1>6, <1>7, <1>8, <1>9 DEF Next

LEMMA InitHolds == Init => IInv
<1>. SUFFICES ASSUME Init
              PROVE  IInv
  OBVIOUS
<1>1. interval \in BOOLEAN
  BY DEF Init
<1>2. TypeOK
  BY <1>1, CallsAssumption DEF Init, TypeOK
<1>3. Fresh /\ Answered /\ AnsweredOnce /\ Accounted /\ Strays
  BY DEF Init, Fresh, Made, Answered, AnsweredOnce, Accounted, Strays
<1>. QED
  BY <1>2, <1>3 DEF IInv

\* The inductive invariant holds in every reachable state.
THEOREM Invariance == Spec => []IInv
<1>1. Init => IInv
  BY InitHolds
<1>2. IInv /\ [Next]_vars => IInv'
  BY NextKeeps
<1>. QED
  BY <1>1, <1>2, PTL DEF Spec

----------------------------------------------------------------------------
(* The theorems.                                                              *)

\* Every variable keeps its type.
THEOREM TypeCorrect == Spec => []TypeOK
<1>1. IInv => TypeOK
  BY DEF IInv
<1>. QED
  BY <1>1, Invariance, PTL

\* The callback of a call is called once, unless it throws.
THEOREM CallbackOnce == Spec => []AnsweredOnce
<1>1. IInv => AnsweredOnce
  BY DEF IInv
<1>. QED
  BY <1>1, Invariance, PTL

\* The page's own handler gets no answer that a call waits for.
THEOREM NoAnswerAstray == Spec => []StraysAreSurplus
<1>1. IInv => StraysAreSurplus
  BY DEF IInv, Strays, Accounted, StraysAreSurplus, TypeOK, Answers
<1>. QED
  BY <1>1, Invariance, PTL

----------------------------------------------------------------------------
(* The implementation of CallPromise.                                         *)

Stutters == \A id \in Ids : Status(id)' = Status(id)

\* A status in terms of what the page has done.
LEMMA StatusOf ==
  ASSUME NEW id \in Ids
  PROVE  Status(id) = IF heard[id] # {} THEN "answered"
                      ELSE IF id \in calls /\ left[id] > 0 THEN "open"
                      ELSE IF id \in Made THEN "over" ELSE "none"
  BY DEF Status, Made

\* Nothing a call depends on has changed.
LEMMA SameStatus ==
  ASSUME Made' = Made, UNCHANGED <<calls, left, heard>>
  PROVE  Stutters
  BY DEF Stutters, Status, Made

LEMMA StutterRefines ==
  ASSUME Stutters
  PROVE  [id \in Ids |-> Status(id)]' = [id \in Ids |-> Status(id)]
  BY DEF Stutters

\* One call changes its status.
LEMMA OneChanges ==
  ASSUME NEW id \in Ids, NEW new, Status(id)' = new,
         \A i \in Ids \ {id} : Status(i)' = Status(i)
  PROVE  [i \in Ids |-> Status(i)]' = [[i \in Ids |-> Status(i)] EXCEPT ![id] = new]
  OBVIOUS

\* internalCall opens the call, or gives it up at once.
LEMMA InternalCallRefines ==
  ASSUME IInv, NEW id \in Ids, NEW timeout \in 0..MaxTimeout,
         id \notin Made, InternalCall(id, timeout), Made' = Made \union {id},
         UNCHANGED heard
  PROVE  Promise!Next
<1>. USE CallsAssumption
<1>1. TypeOK /\ Fresh /\ Accounted
  BY DEF IInv
<1>2. heard[id] = {} /\ id \notin calls /\ left[id] = 0
  BY <1>1 DEF Fresh, Accounted
<1>3. Status(id) = "none"
  BY <1>2 DEF Status, Made
<1>4. \A i \in Ids \ {id} : Status(i)' = Status(i)
  <2>. SUFFICES ASSUME NEW i \in Ids \ {id}
                PROVE  Status(i)' = Status(i)
    OBVIOUS
  <2>1. left'[i] = left[i] /\ (i \in calls' /\ left[i] > 0 <=> i \in calls /\ left[i] > 0)
    BY <1>1 DEF InternalCall, TypeOK, Expired
  <2>2. i \in Made' <=> i \in Made
    OBVIOUS
  <2>. QED
    BY <2>1, <2>2 DEF Status, Made
<1>5. CASE Connected /\ timeout > 0
  <2>1. id \in calls' /\ left'[id] > 0 /\ heard'[id] = {}
    BY <1>1, <1>2, <1>5 DEF InternalCall, TypeOK
  <2>2. Status(id)' = "open"
    BY <2>1 DEF Status
  <2>. QED
    BY <1>3, <1>4, <2>2, OneChanges DEF Promise!Next, Promise!Begin
<1>6. CASE ~(Connected /\ timeout > 0)
  <2>1. ~(id \in calls' /\ left'[id] > 0) /\ heard'[id] = {}
    BY <1>1, <1>2, <1>6 DEF InternalCall, TypeOK
  <2>2. id \in Made'
    OBVIOUS
  <2>3. Status(id)' = "over"
    BY <2>1, <2>2 DEF Status, Made
  <2>. QED
    BY <1>3, <1>4, <2>3, OneChanges DEF Promise!Next, Promise!Miss
<1>. QED
  BY <1>5, <1>6

LEMMA CallRefines ==
  ASSUME IInv, NEW id \in Ids, NEW timeout \in 0..MaxTimeout, Call(id, timeout)
  PROVE  Promise!Next \/ Stutters
<1>1. Fresh
  BY DEF IInv
<1>2. id \notin asked /\ asked' = asked \union {id} /\ UNCHANGED heard
  BY DEF Call, history
<1>3. \A w \in waiting : w.id # id
  BY <1>1, <1>2 DEF Fresh
<1>4. CASE socket \in {"none", "connecting"}
  <2> DEFINE new == [id |-> id, timeout |-> timeout]
  <2>1. waiting' = waiting \union {new} /\ new.id = id /\ UNCHANGED <<calls, left>>
    BY <1>4 DEF Call
  <2>. HIDE DEF new
  <2>2. Made' = Made
    BY <1>2, <1>3, <2>1 DEF Made
  <2>. QED
    BY <1>2, <2>1, <2>2, SameStatus
<1>5. CASE socket \notin {"none", "connecting"}
  <2>1. InternalCall(id, timeout) /\ waiting' = waiting
    BY <1>5 DEF Call
  <2>2. id \notin Made /\ Made' = Made \union {id}
    BY <1>2, <1>3, <2>1 DEF Made
  <2>. QED
    BY <1>2, <2>1, <2>2, InternalCallRefines
<1>. QED
  BY <1>4, <1>5

LEMMA PollRefines ==
  ASSUME IInv, NEW w \in waiting, Poll(w)
  PROVE  Promise!Next
<1>1. TypeOK /\ Fresh
  BY DEF IInv
<1>2. w.id \in Ids /\ w.timeout \in 0..MaxTimeout /\ w.id \in asked
  BY <1>1 DEF TypeOK, Waiting, Fresh
<1>3. InternalCall(w.id, w.timeout) /\ waiting' = waiting \ {w} /\ UNCHANGED <<asked, heard>>
  BY DEF Poll, history
<1>4. w.id \notin Made /\ Made' = Made \union {w.id}
  BY <1>1, <1>2, <1>3 DEF Made, Fresh
<1>. QED
  BY <1>2, <1>3, <1>4, InternalCallRefines

\* An answer counts if it is the first one, and in time.
LEMMA OnMessageRefines ==
  ASSUME IInv, NEW a \in answers, NEW throws \in BOOLEAN, OnMessage(a, throws)
  PROVE  Promise!Next \/ Stutters
<1>1. TypeOK /\ Fresh
  BY DEF IInv
<1>2. a.id \in Ids /\ a \in Answers /\ a.id \in Made
  BY <1>1 DEF TypeOK, Answers, Fresh
<1>3. UNCHANGED <<waiting, asked, left>> /\ Made' = Made
  BY DEF OnMessage, Made
<1>4. CASE UNCHANGED <<heard, calls>>
  BY <1>3, <1>4, SameStatus
<1>5. CASE a.id \in calls /\ Callback(a, throws)
  <2>1. \A i \in Ids \ {a.id} : Status(i)' = Status(i)
    <3>. SUFFICES ASSUME NEW i \in Ids \ {a.id}
                  PROVE  Status(i)' = Status(i)
      OBVIOUS
    <3>1. heard'[i] = heard[i] /\ (i \in calls' <=> i \in calls) /\ (i \in Made' <=> i \in Made)
      BY <1>1, <1>3, <1>5 DEF Callback, TypeOK
    <3>. QED
      BY <1>3, <3>1 DEF Status, Made
  <2>2. CASE left[a.id] > 0
    <3>1. a \in heard'[a.id]
      BY <1>1, <1>2, <1>5, <2>2 DEF Callback, TypeOK
    <3>2. Status(a.id)' = "answered"
      BY <3>1 DEF Status
    <3>3. CASE heard[a.id] = {}
      <4>1. Status(a.id) = "open"
        BY <1>5, <2>2, <3>3 DEF Status
      <4>. QED
        BY <1>2, <2>1, <3>2, <4>1, OneChanges DEF Promise!Next, Promise!Answer
    <3>4. CASE heard[a.id] # {}
      <4>1. Status(a.id) = "answered"
        BY <3>4 DEF Status
      <4>. QED
        BY <1>2, <2>1, <3>2, <4>1 DEF Stutters
    <3>. QED
      BY <3>3, <3>4
  <2>3. CASE ~(left[a.id] > 0)
    <3>1. heard' = heard
      BY <1>5, <2>3 DEF Callback
    <3>2. Status(a.id)' = Status(a.id)
      BY <1>2, <1>3, <2>3, <3>1, StatusOf DEF Status, Made
    <3>. QED
      BY <1>2, <2>1, <3>2 DEF Stutters
  <2>. QED
    BY <2>2, <2>3
<1>. QED
  BY <1>4, <1>5 DEF OnMessage

\* An expired call is over, whether or not its entry is still there.
LEMMA CleanUpRefines ==
  ASSUME IInv, CleanUp
  PROVE  Stutters
<1>1. TypeOK /\ Fresh
  BY DEF IInv
<1>2. calls' = calls \ Expired /\ UNCHANGED <<waiting, asked, left, heard>>
  BY DEF CleanUp, history
<1>. QED
  BY <1>1, <1>2 DEF Stutters, Status, Expired, TypeOK

LEMMA TickRefines ==
  ASSUME IInv, Tick
  PROVE  Promise!Next
<1>. USE CallsAssumption
<1>1. TypeOK /\ Fresh
  BY DEF IInv
<1>2. /\ left' = [id \in Ids |-> IF id \in calls /\ left[id] > 0 THEN left[id] - 1 ELSE left[id]]
      /\ UNCHANGED <<waiting, asked, calls, heard>>
  BY DEF Tick, history
<1> DEFINE ids == {id \in Ids : Status(id) = "open" /\ Status(id)' # "open"}
<1>3. \A id \in Ids : Status(id)' = IF id \in ids THEN "over" ELSE Status(id)
  <2>. SUFFICES ASSUME NEW id \in Ids
                PROVE  Status(id)' = IF id \in ids THEN "over" ELSE Status(id)
    OBVIOUS
  <2>1. id \in calls => id \in Made
    BY <1>1 DEF Fresh
  <2>2. id \in Made <=> id \in Made'
    BY <1>2 DEF Made
  <2>3. left[id] \in Nat /\ left'[id] \in Nat
        /\ (~(id \in calls /\ left[id] > 0) => left'[id] = left[id])
    BY <1>1, <1>2 DEF TypeOK
  <2>. QED
    BY <1>2, <2>1, <2>2, <2>3 DEF Status, Made
<1>4. ids \in SUBSET {id \in Ids : [i \in Ids |-> Status(i)][id] = "open"}
  OBVIOUS
<1>5. [i \in Ids |-> Status(i)]'
        = [id \in Ids |-> IF id \in ids THEN "over" ELSE [i \in Ids |-> Status(i)][id]]
  BY <1>3
<1>. QED
  BY <1>4, <1>5 DEF Promise!Next, Promise!Expire

LEMMA NextRefines ==
  IInv /\ [Next]_vars => Promise!Next \/ UNCHANGED [id \in Ids |-> Status(id)]
<1>. SUFFICES ASSUME IInv, [Next]_vars
              PROVE  Promise!Next \/ Stutters
  BY StutterRefines
<1>1. ASSUME NEW id \in Ids, NEW timeout \in 0..MaxTimeout, Call(id, timeout)
      PROVE  Promise!Next \/ Stutters
  BY <1>1, CallRefines
<1>2. ASSUME NEW w \in waiting, Poll(w)
      PROVE  Promise!Next
  BY <1>2, PollRefines
<1>3. ASSUME NEW a \in answers, NEW throws \in BOOLEAN, OnMessage(a, throws)
      PROVE  Promise!Next \/ Stutters
  BY <1>3, OnMessageRefines
<1>4. ASSUME NEW r \in Responders, Register(r) \/ ResponderLost(r) \/ ResponderBack(r)
      PROVE  Stutters
  BY <1>4, SameStatus DEF Register, ResponderLost, ResponderBack, Made, history
<1>5. ASSUME NEW q \in requests, NEW nths \in SUBSET (1..MaxHandlers), Respond(q, nths)
      PROVE  Stutters
  BY <1>5, SameStatus DEF Respond, Made, history
<1>6. CASE CleanUp
  BY <1>6, CleanUpRefines
<1>7. CASE Tick
  BY <1>7, TickRefines
<1>8. CASE Connect \/ Reconnect \/ Open \/ Lose
  BY <1>8, SameStatus DEF Connect, Reconnect, Open, Lose, Made, history
<1>9. CASE UNCHANGED vars
  BY <1>9, SameStatus DEF vars, Made, history
<1>. QED
  BY <1>1, <1>2, <1>3, <1>4, <1>5, <1>6, <1>7, <1>8, <1>9 DEF Next

LEMMA InitRefines == Init => Promise!Init
  BY DEF Init, Promise!Init, Status

\* Every call keeps what CallPromise says of it.
THEOREM CallsKeepThePromise == Spec => ImplementsPromise
<1>1. Init => Promise!Init
  BY InitRefines
<1>2. IInv /\ [Next]_vars => [Promise!Next]_[id \in Ids |-> Status(id)]
  BY NextRefines
<1>. QED
  BY <1>1, <1>2, Invariance, PTL DEF Spec, ImplementsPromise, Promise!Spec
=============================================================================
