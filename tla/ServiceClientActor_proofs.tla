--------------------- MODULE ServiceClientActor_proofs ---------------------
(* Proofs about ServiceClientActor, for every set of calls and responders and *)
(* every size of the pool.                                                    *)
EXTENDS ServiceClientActor, SequenceTheorems, TLAPS

----------------------------------------------------------------------------
(* Facts about the constants and about queues.                                *)

LEMMA ClientFacts ==
  /\ Clients = Pooled \union Overflow
  /\ Pooled \intersect Overflow = {}
  /\ None \notin Clients
  /\ None \notin Calls
  /\ Runs = {1, 2}
  BY ServiceAssumption DEF Clients, Pooled, Overflow, Runs

LEMMA OverflowFacts ==
  \A c \in Calls, r \in Runs :
    /\ <<c, r>> \in Overflow
    /\ <<c, r>> \in Clients
    /\ <<c, r>> \notin Pooled
    /\ <<c, r>> # None
    /\ \A d \in Calls, q \in Runs : <<d, q>> = <<c, r>> => d = c /\ q = r
  BY ServiceAssumption DEF Clients, Pooled, Overflow, Runs

LEMMA TailFacts ==
  ASSUME NEW S, NEW s \in Seq(S), s # <<>>
  PROVE  /\ Head(s) \in S
         /\ Tail(s) \in Seq(S)
         /\ IsInjective(s) => /\ IsInjective(Tail(s))
                              /\ ToSet(Tail(s)) = ToSet(s) \ {Head(s)}
                              /\ Head(s) \in ToSet(s)
<1>1. /\ Head(s) \in S
      /\ Tail(s) \in Seq(S)
      /\ Len(s) \in Nat \ {0}
      /\ DOMAIN s = 1..Len(s)
      /\ DOMAIN Tail(s) = 1..(Len(s) - 1)
      /\ \A i \in 1..(Len(s) - 1) : Tail(s)[i] = s[i + 1]
      /\ Head(s) = s[1]
  BY HeadTailProperties, LenProperties
<1>2. ASSUME IsInjective(s)
      PROVE  /\ IsInjective(Tail(s))
             /\ ToSet(Tail(s)) = ToSet(s) \ {Head(s)}
             /\ Head(s) \in ToSet(s)
  <2>1. IsInjective(Tail(s))
    BY <1>1, <1>2 DEF IsInjective
  <2>2. Head(s) \in ToSet(s)
    BY <1>1 DEF ToSet
  <2>3. ASSUME NEW x \in ToSet(Tail(s)) PROVE x \in ToSet(s) \ {Head(s)}
    BY <1>1, <1>2, <2>3 DEF ToSet, IsInjective
  <2>4. ASSUME NEW x \in ToSet(s) \ {Head(s)} PROVE x \in ToSet(Tail(s))
    <3>1. PICK i \in 1..Len(s) : s[i] = x
      BY <1>1 DEF ToSet
    <3>2. i - 1 \in 1..(Len(s) - 1) /\ Tail(s)[i - 1] = x
      BY <1>1, <2>4, <3>1
    <3> QED
      BY <1>1, <3>2 DEF ToSet
  <2> QED
    BY <2>1, <2>2, <2>3, <2>4
<1> QED
  BY <1>1, <1>2

LEMMA AppendFacts ==
  ASSUME NEW S, NEW s \in Seq(S), NEW x \in S
  PROVE  /\ Append(s, x) \in Seq(S)
         /\ ToSet(Append(s, x)) = ToSet(s) \union {x}
         /\ IsInjective(s) /\ x \notin ToSet(s) => IsInjective(Append(s, x))
<1>1. /\ Append(s, x) \in Seq(S)
      /\ Len(s) \in Nat
      /\ DOMAIN s = 1..Len(s)
      /\ DOMAIN Append(s, x) = 1..(Len(s) + 1)
      /\ \A i \in 1..Len(s) : Append(s, x)[i] = s[i]
      /\ Append(s, x)[Len(s) + 1] = x
  BY AppendProperties, LenProperties
<1>2. ToSet(Append(s, x)) = ToSet(s) \union {x}
  <2>1. ASSUME NEW y \in ToSet(Append(s, x)) PROVE y \in ToSet(s) \union {x}
    BY <1>1, <2>1 DEF ToSet
  <2>2. ASSUME NEW y \in ToSet(s) \union {x} PROVE y \in ToSet(Append(s, x))
    BY <1>1, <2>2 DEF ToSet
  <2> QED
    BY <2>1, <2>2
<1>3. IsInjective(s) /\ x \notin ToSet(s) => IsInjective(Append(s, x))
  BY <1>1 DEF IsInjective, ToSet
<1> QED
  BY <1>1, <1>2, <1>3

LEMMA MailFacts ==
  /\ \A kind \in Kinds, c \in Calls : Message(kind, c) \in Mail
  /\ \A m \in Mail : m.of \in Calls
  BY DEF Mail, Message

----------------------------------------------------------------------------
(* The inductive invariant.                                                   *)

\* What the fields of one actor agree on.
ActorConsistent ==
  \A c \in Calls :
    /\ ask[c] = "idle" => actor[c] = "absent"
    /\ held[c] \in Overflow => held[c] = <<c, run[c]>>

\* Requests and answers in flight for an overflow client are its own call's.
EnvelopesPrivate ==
  \A e \in requests \union deliveries :
    \A c \in Calls, r \in Runs : e.to = <<c, r>> => e.of = c

IInv ==
  /\ TypeOK
  /\ PoolConserved
  /\ CallbackOwned
  /\ OverflowPrivate
  /\ ActorConsistent
  /\ EnvelopesPrivate

LEMMA InitIInv == Init => IInv
<1> SUFFICES ASSUME Init PROVE IInv
  OBVIOUS
<1>1. pool \in Seq(Pooled) /\ IsInjective(pool) /\ ToSet(pool) = Pooled
  BY ServiceAssumption DEF Init, Pooled, IsInjective, ToSet
<1>2. TypeOK
  BY <1>1, ClientFacts DEF Init, TypeOK
<1>3. PoolConserved
  BY <1>1, ClientFacts DEF Init, PoolConserved, Holds
<1> QED
  BY <1>2, <1>3, ClientFacts, OverflowFacts
     DEF Init, IInv, CallbackOwned, OverflowPrivate, ActorConsistent, EnvelopesPrivate

----------------------------------------------------------------------------
(* What the operations shared by several actions do to a good state.          *)

LEMMA HolderFacts ==
  ASSUME IInv, NEW c \in Calls, Holds(c)
  PROVE  /\ held[c] \in Clients
         /\ held[c] \in Pooled \/ (held[c] = <<c, run[c]>> /\ run[c] \in Runs)
         /\ completed[held[c]] \in Calls \union {None}
         /\ held[c] \notin ToSet(pool)
<1>1. held[c] \in Clients
  BY DEF IInv, TypeOK, PoolConserved
<1>2. ToSet(pool) \subseteq Pooled
  BY LenProperties DEF IInv, TypeOK, ToSet
<1>3. held[c] \in Pooled => held[c] \notin ToSet(pool)
  BY DEF IInv, PoolConserved
<1> QED
  BY <1>1, <1>2, <1>3, ClientFacts DEF IInv, TypeOK, ActorConsistent

LEMMA TellTyped ==
  ASSUME TypeOK, NEW c \in Calls, NEW m \in Mail, Tell(c, m)
  PROVE  mailbox' \in [Calls -> Seq(Mail)]
<1>1. Append(mailbox[c], m) \in Seq(Mail)
  BY AppendFacts DEF TypeOK
<1> QED
  BY <1>1 DEF TypeOK, Tell

LEMMA ConsumeTyped ==
  ASSUME TypeOK, NEW c \in Calls, NEW kind, Receives(c, kind)
  PROVE  /\ Consume(c) => mailbox' \in [Calls -> Seq(Mail)]
         /\ Head(mailbox[c]).of \in Calls
<1>1. Head(mailbox[c]) \in Mail /\ Tail(mailbox[c]) \in Seq(Mail)
  BY TailFacts DEF TypeOK, Receives
<1> QED
  BY <1>1, MailFacts DEF TypeOK, Consume

LEMMA ReplyTyped ==
  ASSUME IInv, NEW c \in Calls, NEW a \in Calls \union {"failure"}, Reply(c, a)
  PROVE  /\ ask' \in [Calls -> {"idle", "pending", "replied", "malformed", "done"}]
         /\ answer' \in [Calls -> Calls \union {None, "failure"}]
         /\ \A d \in Calls : ask'[d] = "idle" => ask[d] = "idle"
  BY ZenonT(30) DEF IInv, TypeOK, Reply, httpVars

\* postStop, in the hands of an actor that holds a client.
LEMMA PostStopFacts ==
  ASSUME IInv, NEW c \in Calls, Holds(c), PostStop(c)
  PROVE  /\ timer' \in [Calls -> {"off", "armed", "fired", "cancelled"}]
         /\ held' = [held EXCEPT ![c] = None]
         /\ registered' \subseteq registered
         /\ completed' \in [Clients -> Calls \union {None}]
         /\ callback' \in [Clients -> Calls \union {None}]
         /\ pool' \in Seq(Pooled)
         /\ IsInjective(pool')
         /\ ToSet(pool') = ToSet(pool) \union ({held[c]} \intersect Pooled)
         /\ \A k \in Pooled : callback'[k] = IF k = held[c] THEN None ELSE callback[k]
         /\ \A k \in Overflow : callback'[k] = callback[k] /\ completed'[k] = completed[k]
         /\ \A k \in Clients : k # held[c] => completed'[k] = completed[k]
         /\ held[c] \in Overflow => held[c] \notin registered'
<1>1. timer' \in [Calls -> {"off", "armed", "fired", "cancelled"}]
  BY DEF IInv, TypeOK, PostStop, CancelTimer
<1>2. CASE held[c] \in Pooled
  <2>1. /\ registered' = registered
        /\ completed' = [completed EXCEPT ![held[c]] = None]
        /\ callback' = [callback EXCEPT ![held[c]] = None]
        /\ pool' = Append(pool, held[c])
    BY <1>2 DEF PostStop, Reset
  <2>2. pool' \in Seq(Pooled) /\ IsInjective(pool') /\ ToSet(pool') = ToSet(pool) \union {held[c]}
    BY <1>2, <2>1, AppendFacts, HolderFacts DEF IInv, TypeOK, PoolConserved
  <2>3. /\ completed' \in [Clients -> Calls \union {None}]
        /\ callback' \in [Clients -> Calls \union {None}]
        /\ \A k \in Clients : callback'[k] = IF k = held[c] THEN None ELSE callback[k]
        /\ \A k \in Clients : k # held[c] => completed'[k] = completed[k]
    BY <2>1 DEF IInv, TypeOK
  <2>4. held[c] \notin Overflow /\ {held[c]} \intersect Pooled = {held[c]}
    BY <1>2, ClientFacts
  <2>5. held' = [held EXCEPT ![c] = None]
    BY DEF PostStop
  <2> QED
    BY <1>1, <2>1, <2>2, <2>3, <2>4, <2>5, ClientFacts
<1>3. CASE held[c] \notin Pooled
  <2>1. /\ registered' = registered \ {held[c]}
        /\ UNCHANGED <<pool, completed, callback>>
        /\ held' = [held EXCEPT ![c] = None]
    BY <1>3 DEF PostStop
  <2>2. {held[c]} \intersect Pooled = {}
    BY <1>3
  <2>3. \A k \in Pooled : k # held[c]
    BY <1>3
  <2> QED
    BY <1>1, <2>1, <2>2, <2>3 DEF IInv, TypeOK, PoolConserved
<1> QED
  BY <1>2, <1>3
----------------------------------------------------------------------------
(* Every step keeps each part of the invariant.                               *)

\* Every assignment is of the right type.
LEMMA TypeStep == IInv /\ [Next]_vars => TypeOK'
<1> SUFFICES ASSUME IInv, [Next]_vars PROVE TypeOK'
  OBVIOUS
<1> USE DEF IInv, TypeOK, clientVars, actorVars, netVars, httpVars
<1>1. ASSUME NEW c \in Calls, CallStep(c) PROVE TypeOK'
  <2>1. CASE RefuseCall(c)
    BY <2>1 DEF RefuseCall
  <2>2. CASE StartCall(c)
    BY <2>2, MailFacts DEF StartCall, Kinds
  <2>3. CASE AskTimeout(c)
    BY <2>3 DEF AskTimeout
  <2>4. CASE FinishCall(c)
    BY <2>4, MailFacts, TellTyped DEF FinishCall, Kinds
  <2>5. CASE FinishMalformed(c) \/ FinishExceptionally(c)
    BY <2>5, MailFacts, TellTyped DEF FinishMalformed, FinishExceptionally, Kinds
  <2>6. CASE ConstructPooled(c)
    BY <2>6, TailFacts, ClientFacts DEF ConstructPooled
  <2>7. CASE ConstructOverflow(c)
    <3>1. <<c, run[c]>> \in Clients
      BY OverflowFacts
    <3>2. held' \in [Calls -> Clients \union {None}]
      BY <2>7, <3>1 DEF ConstructOverflow
    <3>3. registered' \subseteq Clients
      BY <2>7, <3>1 DEF ConstructOverflow
    <3> QED
      BY <2>7, <3>2, <3>3 DEF ConstructOverflow
  <2>8. CASE ReceiveRequest(c)
    BY <2>8, HolderFacts, ConsumeTyped DEF ReceiveRequest, Holds, Receives, Reset
  <2>9. CASE ServiceGone(c)
    BY <2>9, ReplyTyped DEF ServiceGone
  <2>10. CASE ArmCallback(c)
    BY <2>10, HolderFacts DEF ArmCallback, Holds
  <2>11. CASE SendRequest(c)
    BY <2>11, HolderFacts DEF SendRequest, RequestsOf, Holds, Envelope
  <2>12. CASE RestartActor(c)
    <3>1. Holds(c) /\ PostStop(c)
      BY <2>12 DEF RestartActor, Holds
    <3>2. requests' \subseteq Envelope
      BY <2>12, <3>1, HolderFacts DEF RestartActor, RequestsOf, Envelope
    <3>3. run' \in [Calls -> Runs] /\ actor' = [actor EXCEPT ![c] = "starting"]
      BY <2>12, ClientFacts DEF RestartActor
    <3>4. held' \in [Calls -> Clients \union {None}]
      BY <3>1, PostStopFacts, ZenonT(30)
    <3> QED
      BY <2>12, <3>1, <3>2, <3>3, <3>4, PostStopFacts DEF RestartActor
  <2>13. CASE ReceiveResponse(c)
    BY <2>13, ConsumeTyped, ReplyTyped DEF ReceiveResponse, CancelTimer
  <2>14. CASE ReceiveTimeout(c)
    BY <2>14, HolderFacts, ConsumeTyped, ReplyTyped DEF ReceiveTimeout, Holds, Receives
  <2>15. CASE ReceivePoison(c)
    BY <2>15, PostStopFacts, EmptySeq DEF ReceivePoison, Holds, Receives
  <2>16. CASE TimerFires(c)
    BY <2>16, MailFacts, TellTyped DEF TimerFires, Kinds
  <2> QED
    BY <1>1, <2>1, <2>2, <2>3, <2>4, <2>5, <2>6, <2>7, <2>8,
       <2>9, <2>10, <2>11, <2>12, <2>13, <2>14, <2>15, <2>16
       DEF CallStep, FinishStep, ActorStep
<1>2. ASSUME NEW e \in Envelope, StoreAnswer(e) PROVE TypeOK'
  <2>1. e.of \in Calls /\ requests' \subseteq Envelope
    BY <1>2 DEF StoreAnswer, Envelope
  <2>2. completed' \in [Clients -> Calls \union {None}]
    BY <1>2, <2>1 DEF StoreAnswer
  <2>3. deliveries' \subseteq Envelope
    BY <1>2 DEF StoreAnswer
  <2> QED
    BY <1>2, <2>1, <2>2, <2>3 DEF StoreAnswer
<1>3. ASSUME NEW e \in Envelope, CallBack(e) PROVE TypeOK'
  BY <1>3, TellTyped, MailFacts, SMTT(30) DEF CallBack, Envelope, Kinds
<1>4. CASE ServiceChanges
  BY <1>4 DEF ServiceChanges
<1>5. CASE UNCHANGED vars
  BY <1>5 DEF vars
<1> QED
  BY <1>1, <1>2, <1>3, <1>4, <1>5 DEF Next

\* Only the constructor and postStop move clients: the pool stays conserved.
LEMMA PoolStep == IInv /\ [Next]_vars => PoolConserved'
<1> SUFFICES ASSUME IInv, [Next]_vars PROVE PoolConserved'
  OBVIOUS
<1> USE DEF IInv, TypeOK, PoolConserved, clientVars, actorVars, netVars, httpVars
<1>1. ASSUME NEW c \in Calls, CallStep(c) PROVE PoolConserved'
  <2>1. CASE RefuseCall(c)
    BY <2>1 DEF RefuseCall, Holds
  <2>2. CASE StartCall(c)
    BY <2>2 DEF StartCall, Holds, ActorConsistent
  <2>3. CASE AskTimeout(c)
    BY <2>3 DEF AskTimeout, Holds
  <2>4. CASE FinishCall(c)
    BY <2>4 DEF FinishCall, Holds
  <2>5. CASE FinishMalformed(c) \/ FinishExceptionally(c)
    BY <2>5 DEF FinishMalformed, FinishExceptionally, Holds
  <2>6. CASE ConstructPooled(c)
    <3>1. /\ Head(pool) \in ToSet(pool) \intersect Pooled
          /\ IsInjective(Tail(pool))
          /\ ToSet(Tail(pool)) = ToSet(pool) \ {Head(pool)}
      BY <2>6, TailFacts DEF ConstructPooled
    <3>2. /\ held' = [held EXCEPT ![c] = Head(pool)]
          /\ pool' = Tail(pool)
          /\ actor' = [actor EXCEPT ![c] = "receiving"]
          /\ held[c] = None
      BY <2>6 DEF ConstructPooled, Holds
    <3>3. \A d \in Calls : held[d] # Head(pool)
      BY <3>1
    <3>4. \A d, f \in Calls : held'[d] = held'[f] /\ held'[d] # None => d = f
      BY <3>2, <3>3
    <3>5. \A k \in Pooled : k \in ToSet(pool') <=> \A d \in Calls : held'[d] # k
      <4>1. ASSUME NEW k \in Pooled, k = Head(pool)
            PROVE  k \in ToSet(pool') <=> \A d \in Calls : held'[d] # k
        BY <3>1, <3>2, <4>1
      <4>2. ASSUME NEW k \in Pooled, k # Head(pool)
            PROVE  k \in ToSet(pool') <=> \A d \in Calls : held'[d] # k
        BY <3>1, <3>2, <4>2, ClientFacts
      <4> QED
        BY <4>1, <4>2
    <3>6. \A d \in Calls : Holds(d)' <=> held'[d] # None
      BY <3>1, <3>2, ClientFacts DEF Holds
    <3> QED
      BY <3>1, <3>2, <3>4, <3>5, <3>6
  <2>7. CASE ConstructOverflow(c)
    <3> DEFINE k == <<c, run[c]>>
    <3>0. \A d \in Calls : run[d] \in Runs
      OBVIOUS
    <3>1. k \in Overflow /\ k # None /\ k \notin Pooled
      BY <3>0, OverflowFacts
    <3>2. /\ held' = [held EXCEPT ![c] = k]
          /\ pool' = pool
          /\ actor' = [actor EXCEPT ![c] = "receiving"]
          /\ held[c] = None
      BY <2>7 DEF ConstructOverflow, Holds
    <3>3. \A d \in Calls : d # c => held[d] # k
      <4> SUFFICES ASSUME NEW d \in Calls, held[d] = k PROVE d = c
        OBVIOUS
      <4>1. held[d] = <<d, run[d]>>
        BY <3>1, ZenonT(30) DEF ActorConsistent
      <4> QED
        BY <3>0, <4>1, OverflowFacts
    <3> HIDE DEF k
    <3>4. \A d, f \in Calls : held'[d] = held'[f] /\ held'[d] # None => d = f
      BY <3>2, <3>3
    <3>5. \A j \in Pooled : j \in ToSet(pool') <=> \A d \in Calls : held'[d] # j
      BY <3>1, <3>2, ClientFacts
    <3>6. \A d \in Calls : Holds(d)' <=> held'[d] # None
      BY <3>1, <3>2 DEF Holds
    <3> QED
      BY <3>2, <3>4, <3>5, <3>6
  <2>8. CASE ReceiveRequest(c)
    BY <2>8 DEF ReceiveRequest, Holds, Receives, Reset
  <2>9. CASE ServiceGone(c)
    BY <2>9 DEF ServiceGone, Holds
  <2>10. CASE ArmCallback(c)
    BY <2>10 DEF ArmCallback, Holds
  <2>11. CASE SendRequest(c)
    BY <2>11 DEF SendRequest, Holds
  <2>12. CASE RestartActor(c)
    <3>1. Holds(c) /\ PostStop(c) /\ actor' = [actor EXCEPT ![c] = "starting"]
      BY <2>12 DEF RestartActor, Holds
    <3>2. /\ held' = [held EXCEPT ![c] = None]
          /\ IsInjective(pool')
          /\ ToSet(pool') = ToSet(pool) \union ({held[c]} \intersect Pooled)
      BY <3>1, PostStopFacts
    <3>3. \A d, f \in Calls : held'[d] = held'[f] /\ held'[d] # None => d = f
      BY <3>2
    <3>4. \A k \in Pooled : k \in ToSet(pool') <=> \A d \in Calls : held'[d] # k
      BY <3>1, <3>2, ClientFacts
    <3>5. \A d \in Calls : Holds(d)' <=> held'[d] # None
      BY <3>1, <3>2 DEF Holds
    <3> QED
      BY <3>2, <3>3, <3>4, <3>5
  <2>13. CASE ReceiveResponse(c)
    BY <2>13 DEF ReceiveResponse, Holds
  <2>14. CASE ReceiveTimeout(c)
    BY <2>14 DEF ReceiveTimeout, Holds
  <2>15. CASE ReceivePoison(c)
    <3>1. Holds(c) /\ PostStop(c) /\ actor' = [actor EXCEPT ![c] = "stopped"]
      BY <2>15 DEF ReceivePoison, Holds, Receives
    <3>2. /\ held' = [held EXCEPT ![c] = None]
          /\ IsInjective(pool')
          /\ ToSet(pool') = ToSet(pool) \union ({held[c]} \intersect Pooled)
      BY <3>1, PostStopFacts
    <3>3. \A d, f \in Calls : held'[d] = held'[f] /\ held'[d] # None => d = f
      BY <3>2
    <3>4. \A k \in Pooled : k \in ToSet(pool') <=> \A d \in Calls : held'[d] # k
      BY <3>1, <3>2, ClientFacts
    <3>5. \A d \in Calls : Holds(d)' <=> held'[d] # None
      BY <3>1, <3>2 DEF Holds
    <3> QED
      BY <3>2, <3>3, <3>4, <3>5
  <2>16. CASE TimerFires(c)
    BY <2>16 DEF TimerFires, Holds
  <2> QED
    BY <1>1, <2>1, <2>2, <2>3, <2>4, <2>5, <2>6, <2>7, <2>8,
       <2>9, <2>10, <2>11, <2>12, <2>13, <2>14, <2>15, <2>16
       DEF CallStep, FinishStep, ActorStep
<1>2. ASSUME NEW e \in Envelope, StoreAnswer(e) PROVE PoolConserved'
  BY <1>2 DEF StoreAnswer, Holds
<1>3. ASSUME NEW e \in Envelope, CallBack(e) PROVE PoolConserved'
  BY <1>3 DEF CallBack, Holds
<1>4. CASE ServiceChanges
  BY <1>4 DEF ServiceChanges, Holds
<1>5. CASE UNCHANGED vars
  BY <1>5 DEF vars, Holds
<1> QED
  BY <1>1, <1>2, <1>3, <1>4, <1>5 DEF Next

\* A callback is set by the holder and gone before the client is pooled again.
LEMMA CallbackStep == IInv /\ [Next]_vars => CallbackOwned'
<1> SUFFICES ASSUME IInv, [Next]_vars PROVE CallbackOwned'
  OBVIOUS
<1> USE DEF IInv, TypeOK, CallbackOwned, clientVars, actorVars, netVars, httpVars
<1>1. ASSUME NEW c \in Calls, CallStep(c) PROVE CallbackOwned'
  <2>1. CASE RefuseCall(c)
    BY <2>1 DEF RefuseCall
  <2>2. CASE StartCall(c)
    BY <2>2 DEF StartCall
  <2>3. CASE AskTimeout(c)
    BY <2>3 DEF AskTimeout
  <2>4. CASE FinishCall(c)
    BY <2>4 DEF FinishCall
  <2>5. CASE FinishMalformed(c) \/ FinishExceptionally(c)
    BY <2>5 DEF FinishMalformed, FinishExceptionally
  <2>6. CASE ConstructPooled(c)
    <3>1. held[c] = None /\ held' = [held EXCEPT ![c] = Head(pool)] /\ callback' = callback
      BY <2>6 DEF ConstructPooled, PoolConserved, Holds
    <3> QED
      BY <3>1, ClientFacts
  <2>7. CASE ConstructOverflow(c)
    <3>1. held[c] = None /\ held' = [held EXCEPT ![c] = <<c, run[c]>>] /\ callback' = callback
      BY <2>7 DEF ConstructOverflow, PoolConserved, Holds
    <3> QED
      BY <3>1, ClientFacts
  <2>8. CASE ReceiveRequest(c)
    BY <2>8, HolderFacts, ClientFacts DEF ReceiveRequest, Holds, Receives, Reset
  <2>9. CASE ServiceGone(c)
    BY <2>9 DEF ServiceGone
  <2>10. CASE ArmCallback(c)
    BY <2>10, HolderFacts, ClientFacts DEF ArmCallback, Holds
  <2>11. CASE SendRequest(c)
    BY <2>11 DEF SendRequest
  <2>12. CASE RestartActor(c)
    BY <2>12, PostStopFacts, ClientFacts DEF RestartActor, Holds
  <2>13. CASE ReceiveResponse(c)
    BY <2>13 DEF ReceiveResponse
  <2>14. CASE ReceiveTimeout(c)
    BY <2>14 DEF ReceiveTimeout
  <2>15. CASE ReceivePoison(c)
    BY <2>15, PostStopFacts, ClientFacts DEF ReceivePoison, Holds, Receives
  <2>16. CASE TimerFires(c)
    BY <2>16 DEF TimerFires
  <2> QED
    BY <1>1, <2>1, <2>2, <2>3, <2>4, <2>5, <2>6, <2>7, <2>8,
       <2>9, <2>10, <2>11, <2>12, <2>13, <2>14, <2>15, <2>16
       DEF CallStep, FinishStep, ActorStep
<1>2. ASSUME NEW e \in Envelope, StoreAnswer(e) PROVE CallbackOwned'
  BY <1>2 DEF StoreAnswer
<1>3. ASSUME NEW e \in Envelope, CallBack(e) PROVE CallbackOwned'
  BY <1>3 DEF CallBack
<1>4. CASE ServiceChanges
  BY <1>4 DEF ServiceChanges
<1>5. CASE UNCHANGED vars
  BY <1>5 DEF vars
<1> QED
  BY <1>1, <1>2, <1>3, <1>4, <1>5 DEF Next

\* What an overflow client stores and who knows it is its own call's business.
LEMMA OverflowStep == IInv /\ [Next]_vars => OverflowPrivate'
<1> SUFFICES ASSUME IInv, [Next]_vars PROVE OverflowPrivate'
  OBVIOUS
<1> USE DEF IInv, TypeOK, OverflowPrivate, clientVars, actorVars, netVars, httpVars
<1>1. ASSUME NEW c \in Calls, CallStep(c) PROVE OverflowPrivate'
  <2>1. CASE RefuseCall(c)
    BY <2>1 DEF RefuseCall
  <2>2. CASE StartCall(c)
    BY <2>2 DEF StartCall
  <2>3. CASE AskTimeout(c)
    BY <2>3 DEF AskTimeout
  <2>4. CASE FinishCall(c)
    BY <2>4 DEF FinishCall
  <2>5. CASE FinishMalformed(c) \/ FinishExceptionally(c)
    BY <2>5 DEF FinishMalformed, FinishExceptionally
  <2>6. CASE ConstructPooled(c)
    <3>1. held[c] = None /\ held' = [held EXCEPT ![c] = Head(pool)]
      BY <2>6 DEF ConstructPooled, PoolConserved, Holds
    <3>2. UNCHANGED <<registered, completed, callback>>
      BY <2>6 DEF ConstructPooled
    <3>3. \A d \in Calls, r \in Runs : <<d, r>> \in registered' => held'[d] = <<d, r>>
      BY <3>1, <3>2, OverflowFacts
    <3>4. \A d \in Calls, r \in Runs : callback'[<<d, r>>] \in {d, None} /\ completed'[<<d, r>>] \in {d, None}
      BY <3>2
    <3> QED
      BY <3>3, <3>4
  <2>7. CASE ConstructOverflow(c)
    <3> DEFINE k == <<c, run[c]>>
    <3>0. \A d \in Calls : run[d] \in Runs
      OBVIOUS
    <3>1. held[c] = None /\ held' = [held EXCEPT ![c] = k] /\ registered' \subseteq registered \union {k}
      BY <2>7 DEF ConstructOverflow, PoolConserved, Holds
    <3>2. UNCHANGED <<completed, callback>>
      BY <2>7 DEF ConstructOverflow
    <3>3. \A d \in Calls, r \in Runs : <<d, r>> \in registered' => held'[d] = <<d, r>>
      <4> SUFFICES ASSUME NEW d \in Calls, NEW r \in Runs, <<d, r>> \in registered'
                   PROVE  held'[d] = <<d, r>>
        OBVIOUS
      <4>1. CASE <<d, r>> = k
        BY <3>1, <4>1
      <4>2. CASE <<d, r>> # k
        <5>1. held[d] = <<d, r>>
          BY <3>1, <4>2
        <5>2. d # c
          BY <3>1, <5>1, OverflowFacts
        <5> QED
          BY <3>1, <5>1, <5>2
      <4> QED
        BY <4>1, <4>2
    <3> QED
      BY <3>2, <3>3
  <2>8. CASE ReceiveRequest(c)
    <3>1. /\ completed' = [completed EXCEPT ![held[c]] = None]
          /\ callback' = [callback EXCEPT ![held[c]] = None]
          /\ UNCHANGED <<registered, held>>
      BY <2>8 DEF ReceiveRequest, Reset
    <3> QED
      BY <3>1, OverflowFacts
  <2>9. CASE ServiceGone(c)
    BY <2>9 DEF ServiceGone
  <2>10. CASE ArmCallback(c)
    <3>1. Holds(c) /\ callback' = [callback EXCEPT ![held[c]] = c]
      BY <2>10 DEF ArmCallback, Holds
    <3>2. UNCHANGED <<registered, completed, held>>
      BY <2>10 DEF ArmCallback
    <3>3. \A d \in Calls, r \in Runs : held[c] = <<d, r>> => d = c
      <4>1. held[c] \in Pooled \/ (held[c] = <<c, run[c]>> /\ run[c] \in Runs)
        BY <3>1, HolderFacts
      <4> QED
        BY <4>1, OverflowFacts
    <3>4. \A d \in Calls, r \in Runs : callback'[<<d, r>>] \in {d, None}
      BY <3>1, <3>3, OverflowFacts
    <3> QED
      BY <3>2, <3>4
  <2>11. CASE SendRequest(c)
    BY <2>11 DEF SendRequest
  <2>12. CASE RestartActor(c)
    <3>1. Holds(c) /\ PostStop(c)
      BY <2>12 DEF RestartActor, Holds
    <3>2. \A k \in Overflow : callback'[k] = callback[k] /\ completed'[k] = completed[k]
      BY <3>1, PostStopFacts
    <3>3. /\ held' = [held EXCEPT ![c] = None]
          /\ registered' \subseteq registered
          /\ held[c] \in Overflow => held[c] \notin registered'
      BY <3>1, PostStopFacts
    <3>4. \A d \in Calls, r \in Runs : <<d, r>> \in registered' => held'[d] = <<d, r>>
      <4> SUFFICES ASSUME NEW d \in Calls, NEW r \in Runs, <<d, r>> \in registered'
                   PROVE  held'[d] = <<d, r>>
        OBVIOUS
      <4>1. held[d] = <<d, r>> /\ <<d, r>> \in Overflow
        BY <3>3, OverflowFacts
      <4>2. ASSUME d = c PROVE FALSE
        <5>1. held[c] = <<d, r>>
          BY <4>1, <4>2
        <5> QED
          BY <3>3, <4>1, <5>1
      <4> QED
        BY <3>3, <4>1, <4>2
    <3> QED
      BY <3>2, <3>4, OverflowFacts
  <2>13. CASE ReceiveResponse(c)
    BY <2>13 DEF ReceiveResponse
  <2>14. CASE ReceiveTimeout(c)
    BY <2>14 DEF ReceiveTimeout
  <2>15. CASE ReceivePoison(c)
    <3>1. Holds(c) /\ PostStop(c)
      BY <2>15 DEF ReceivePoison, Holds, Receives
    <3>2. \A k \in Overflow : callback'[k] = callback[k] /\ completed'[k] = completed[k]
      BY <3>1, PostStopFacts
    <3>3. /\ held' = [held EXCEPT ![c] = None]
          /\ registered' \subseteq registered
          /\ held[c] \in Overflow => held[c] \notin registered'
      BY <3>1, PostStopFacts
    <3>4. \A d \in Calls, r \in Runs : <<d, r>> \in registered' => held'[d] = <<d, r>>
      <4> SUFFICES ASSUME NEW d \in Calls, NEW r \in Runs, <<d, r>> \in registered'
                   PROVE  held'[d] = <<d, r>>
        OBVIOUS
      <4>1. held[d] = <<d, r>> /\ <<d, r>> \in Overflow
        BY <3>3, OverflowFacts
      <4>2. ASSUME d = c PROVE FALSE
        <5>1. held[c] = <<d, r>>
          BY <4>1, <4>2
        <5> QED
          BY <3>3, <4>1, <5>1
      <4> QED
        BY <3>3, <4>1, <4>2
    <3> QED
      BY <3>2, <3>4, OverflowFacts
  <2>16. CASE TimerFires(c)
    BY <2>16 DEF TimerFires
  <2> QED
    BY <1>1, <2>1, <2>2, <2>3, <2>4, <2>5, <2>6, <2>7, <2>8,
       <2>9, <2>10, <2>11, <2>12, <2>13, <2>14, <2>15, <2>16
       DEF CallStep, FinishStep, ActorStep
<1>2. ASSUME NEW e \in Envelope, StoreAnswer(e) PROVE OverflowPrivate'
  <2>1. completed' \in {completed, [completed EXCEPT ![e.to] = e.of]}
    BY <1>2 DEF StoreAnswer
  <2>2. \A c \in Calls, r \in Runs : e.to = <<c, r>> => e.of = c
    BY <1>2 DEF StoreAnswer, EnvelopesPrivate
  <2>3. \A c \in Calls, r \in Runs : completed'[<<c, r>>] \in {c, None}
    <3> SUFFICES ASSUME NEW c \in Calls, NEW r \in Runs
                 PROVE  completed'[<<c, r>>] \in {c, None}
      OBVIOUS
    <3>1. CASE e.to = <<c, r>>
      BY <2>1, <2>2, <3>1, OverflowFacts
    <3>2. CASE e.to # <<c, r>>
      BY <2>1, <3>2, OverflowFacts
    <3> QED
      BY <3>1, <3>2
  <2> QED
    BY <1>2, <2>3 DEF StoreAnswer
<1>3. ASSUME NEW e \in Envelope, CallBack(e) PROVE OverflowPrivate'
  BY <1>3 DEF CallBack
<1>4. CASE ServiceChanges
  BY <1>4 DEF ServiceChanges
<1>5. CASE UNCHANGED vars
  BY <1>5 DEF vars
<1> QED
  BY <1>1, <1>2, <1>3, <1>4, <1>5 DEF Next

\* An actor keeps the client it was constructed with.
LEMMA ConsistentStep == IInv /\ [Next]_vars => ActorConsistent'
<1> SUFFICES ASSUME IInv, [Next]_vars PROVE ActorConsistent'
  OBVIOUS
<1> USE DEF IInv, TypeOK, ActorConsistent, clientVars, actorVars, netVars, httpVars
<1>1. ASSUME NEW c \in Calls, CallStep(c) PROVE ActorConsistent'
  <2>1. CASE RefuseCall(c)
    BY <2>1 DEF RefuseCall
  <2>2. CASE StartCall(c)
    BY <2>2 DEF StartCall
  <2>3. CASE AskTimeout(c)
    BY <2>3 DEF AskTimeout
  <2>4. CASE FinishCall(c)
    BY <2>4 DEF FinishCall
  <2>5. CASE FinishMalformed(c) \/ FinishExceptionally(c)
    BY <2>5 DEF FinishMalformed, FinishExceptionally
  <2>6. CASE ConstructPooled(c)
    BY <2>6, ClientFacts, TailFacts DEF ConstructPooled
  <2>7. CASE ConstructOverflow(c)
    BY <2>7, ClientFacts DEF ConstructOverflow
  <2>8. CASE ReceiveRequest(c)
    BY <2>8 DEF ReceiveRequest, Receives
  <2>9. CASE ServiceGone(c)
    BY <2>9, ReplyTyped, HolderFacts DEF ServiceGone, Holds
  <2>10. CASE ArmCallback(c)
    BY <2>10 DEF ArmCallback
  <2>11. CASE SendRequest(c)
    BY <2>11 DEF SendRequest
  <2>12. CASE RestartActor(c)
    BY <2>12, PostStopFacts, ClientFacts DEF RestartActor, Holds
  <2>13. CASE ReceiveResponse(c)
    BY <2>13, ConsumeTyped, ReplyTyped DEF ReceiveResponse
  <2>14. CASE ReceiveTimeout(c)
    BY <2>14, ConsumeTyped, ReplyTyped, HolderFacts DEF ReceiveTimeout, Receives, Holds
  <2>15. CASE ReceivePoison(c)
    BY <2>15, PostStopFacts, ClientFacts DEF ReceivePoison, Holds, Receives
  <2>16. CASE TimerFires(c)
    BY <2>16 DEF TimerFires
  <2> QED
    BY <1>1, <2>1, <2>2, <2>3, <2>4, <2>5, <2>6, <2>7, <2>8,
       <2>9, <2>10, <2>11, <2>12, <2>13, <2>14, <2>15, <2>16
       DEF CallStep, FinishStep, ActorStep
<1>2. ASSUME NEW e \in Envelope, StoreAnswer(e) PROVE ActorConsistent'
  BY <1>2 DEF StoreAnswer
<1>3. ASSUME NEW e \in Envelope, CallBack(e) PROVE ActorConsistent'
  BY <1>3 DEF CallBack
<1>4. CASE ServiceChanges
  BY <1>4 DEF ServiceChanges
<1>5. CASE UNCHANGED vars
  BY <1>5 DEF vars
<1> QED
  BY <1>1, <1>2, <1>3, <1>4, <1>5 DEF Next

\* Requests go out under the name of the client their actor holds.
LEMMA EnvelopeStep == IInv /\ [Next]_vars => EnvelopesPrivate'
<1> SUFFICES ASSUME IInv, [Next]_vars PROVE EnvelopesPrivate'
  OBVIOUS
<1> USE DEF IInv, EnvelopesPrivate, clientVars, actorVars, netVars, httpVars
<1>1. ASSUME NEW c \in Calls, CallStep(c) PROVE EnvelopesPrivate'
  <2>1. CASE RefuseCall(c)
    BY <2>1 DEF RefuseCall
  <2>2. CASE StartCall(c)
    BY <2>2 DEF StartCall
  <2>3. CASE AskTimeout(c)
    BY <2>3 DEF AskTimeout
  <2>4. CASE FinishCall(c)
    BY <2>4 DEF FinishCall
  <2>5. CASE FinishMalformed(c) \/ FinishExceptionally(c)
    BY <2>5 DEF FinishMalformed, FinishExceptionally
  <2>6. CASE ConstructPooled(c)
    BY <2>6 DEF ConstructPooled
  <2>7. CASE ConstructOverflow(c)
    BY <2>7 DEF ConstructOverflow
  <2>8. CASE ReceiveRequest(c)
    BY <2>8 DEF ReceiveRequest
  <2>9. CASE ServiceGone(c)
    BY <2>9 DEF ServiceGone
  <2>10. CASE ArmCallback(c)
    BY <2>10 DEF ArmCallback
  <2>11. CASE SendRequest(c)
    <3>1. /\ Holds(c)
          /\ requests' \subseteq requests \union RequestsOf(c)
          /\ deliveries' = deliveries
      BY <2>11 DEF SendRequest, Holds
    <3>2. ASSUME NEW e \in RequestsOf(c), NEW d \in Calls, NEW r \in Runs, e.to = <<d, r>>
          PROVE  e.of = d
      <4>1. e.of = c /\ e.to = held[c]
        BY DEF RequestsOf
      <4>2. held[c] = <<d, r>> /\ <<d, r>> \notin Pooled
        BY <3>2, <4>1, OverflowFacts
      <4>3. held[c] \in Pooled \/ (held[c] = <<c, run[c]>> /\ run[c] \in Runs)
        BY <3>1, HolderFacts
      <4> QED
        BY <4>1, <4>2, <4>3, OverflowFacts
    <3> QED
      BY <3>1, <3>2
  <2>12. CASE RestartActor(c)
    <3>1. /\ Holds(c)
          /\ requests' \subseteq requests \union RequestsOf(c)
          /\ deliveries' = deliveries
      BY <2>12 DEF RestartActor, Holds
    <3>2. ASSUME NEW e \in RequestsOf(c), NEW d \in Calls, NEW r \in Runs, e.to = <<d, r>>
          PROVE  e.of = d
      <4>1. e.of = c /\ e.to = held[c]
        BY DEF RequestsOf
      <4>2. held[c] = <<d, r>> /\ <<d, r>> \notin Pooled
        BY <3>2, <4>1, OverflowFacts
      <4>3. held[c] \in Pooled \/ (held[c] = <<c, run[c]>> /\ run[c] \in Runs)
        BY <3>1, HolderFacts
      <4> QED
        BY <4>1, <4>2, <4>3, OverflowFacts
    <3> QED
      BY <3>1, <3>2
  <2>13. CASE ReceiveResponse(c)
    BY <2>13 DEF ReceiveResponse
  <2>14. CASE ReceiveTimeout(c)
    BY <2>14 DEF ReceiveTimeout
  <2>15. CASE ReceivePoison(c)
    BY <2>15 DEF ReceivePoison
  <2>16. CASE TimerFires(c)
    BY <2>16 DEF TimerFires
  <2> QED
    BY <1>1, <2>1, <2>2, <2>3, <2>4, <2>5, <2>6, <2>7, <2>8,
       <2>9, <2>10, <2>11, <2>12, <2>13, <2>14, <2>15, <2>16
       DEF CallStep, FinishStep, ActorStep
<1>2. ASSUME NEW e \in Envelope, StoreAnswer(e) PROVE EnvelopesPrivate'
  BY <1>2 DEF StoreAnswer
<1>3. ASSUME NEW e \in Envelope, CallBack(e) PROVE EnvelopesPrivate'
  BY <1>3 DEF CallBack
<1>4. CASE ServiceChanges
  BY <1>4 DEF ServiceChanges
<1>5. CASE UNCHANGED vars
  BY <1>5 DEF vars
<1> QED
  BY <1>1, <1>2, <1>3, <1>4, <1>5 DEF Next

----------------------------------------------------------------------------
(* The theorems.                                                              *)

LEMMA Inductive == Spec => []IInv
<1>1. Init => IInv
  BY InitIInv
<1>2. IInv /\ [Next]_vars => IInv'
  BY TypeStep, PoolStep, CallbackStep, OverflowStep, ConsistentStep, EnvelopeStep DEF IInv
<1> QED
  BY <1>1, <1>2, PTL DEF Spec

\* Every variable keeps its type; in particular only pooled clients are pooled.
THEOREM TypeCorrect == Spec => []TypeOK
  BY Inductive, PTL DEF IInv

\* ServiceClientActor never loses a pooled client and never shares one, for any
\* number of calls, any pool size and any interleaving of postStop and polls.
THEOREM PoolIsConserved == Spec => []PoolConserved
  BY Inductive, PTL DEF IInv

\* ServiceRequestClient.reset leaves no callback to an actor that is gone.
THEOREM CallbacksAreOwned == Spec => []CallbackOwned
  BY Inductive, PTL DEF IInv

\* A call that overflows the pool gets no other call's answer, and leaves no
\* client behind in the server.
THEOREM OverflowIsPrivate == Spec => []OverflowPrivate
  BY Inductive, PTL DEF IInv

\* Both: every client is the pool's or one call's, however a call ends.
THEOREM ClientsAreConserved == Spec => []ClientsConserved
  BY Inductive, PTL DEF IInv, ClientsConserved

----------------------------------------------------------------------------
(* What a waiting actor may rely on.                                          *)

Waiting(c) == replyTo[c] /\ actor[c] = "receiving" /\ ask[c] = "pending"

\* While an actor waits, an answer that has left the responders is in its client.
AnswerKept ==
  \A c \in Calls :
    /\ actor[c] \in {"absent", "starting"} => ~replyTo[c]
    /\ actor[c] = "reset" => replyTo[c]
    /\ ask[c] = "pending" => answer[c] = None
    /\ ask[c] = "idle" => answer[c] = None
    /\ Waiting(c) => \/ completed[held[c]] # None
                     \/ held[c] \notin registered
                     \/ RequestsOf(c) \subseteq requests

\* No other actor resets the client of one that waits.
LEMMA AnswerStep == IInv /\ AnswerKept /\ [Next]_vars => AnswerKept'
<1> SUFFICES ASSUME IInv, AnswerKept, [Next]_vars PROVE AnswerKept'
  OBVIOUS
<1> USE DEF IInv, TypeOK, AnswerKept, Waiting, RequestsOf, clientVars, actorVars, netVars, httpVars
<1>1. ASSUME NEW c \in Calls, CallStep(c) PROVE AnswerKept'
  <2>1. CASE RefuseCall(c)
    BY <2>1 DEF RefuseCall
  <2>2. CASE StartCall(c)
    BY <2>2 DEF StartCall, ActorConsistent
  <2>3. CASE AskTimeout(c)
    BY <2>3 DEF AskTimeout
  <2>4. CASE FinishCall(c)
    BY <2>4 DEF FinishCall
  <2>5. CASE FinishMalformed(c) \/ FinishExceptionally(c)
    <3>1. CASE FinishMalformed(c)
      BY <3>1 DEF FinishMalformed
    <3>2. CASE FinishExceptionally(c)
      BY <3>2 DEF FinishExceptionally
    <3> QED
      BY <2>5, <3>1, <3>2
  <2>6. CASE ConstructPooled(c)
    BY <2>6 DEF ConstructPooled
  <2>7. CASE ConstructOverflow(c)
    <3> DEFINE k == <<c, run[c]>>
    <3>1. /\ held' = [held EXCEPT ![c] = k]
          /\ registered' \subseteq registered \union {k}
          /\ actor' = [actor EXCEPT ![c] = "receiving"]
          /\ UNCHANGED <<completed, replyTo, requests, httpVars>>
          /\ ~replyTo[c]
      BY <2>7 DEF ConstructOverflow
    <3>2. ASSUME NEW d \in Calls \ {c}, Waiting(d) PROVE held[d] # k
      <4>1. \A f \in Calls : run[f] \in Runs
        OBVIOUS
      <4>2. k \in Overflow
        BY <4>1, OverflowFacts
      <4>3. held[d] = k => held[d] = <<d, run[d]>>
        BY <4>2 DEF ActorConsistent
      <4> QED
        BY <4>1, <4>3, OverflowFacts
    <3> HIDE DEF k
    <3>3. \A d \in Calls \ {c} : Waiting(d)' <=> Waiting(d)
      BY <3>1
    <3>4. ~Waiting(c)'
      BY <3>1
    <3> QED
      BY <3>1, <3>2, <3>3, <3>4
  <2>8. CASE ReceiveRequest(c)
    BY <2>8, HolderFacts DEF ReceiveRequest, Reset, Holds, Receives, PoolConserved
  <2>9. CASE ServiceGone(c)
    BY <2>9 DEF ServiceGone, Reply
  <2>10. CASE ArmCallback(c)
    BY <2>10 DEF ArmCallback
  <2>11. CASE SendRequest(c)
    BY <2>11 DEF SendRequest
  <2>12. CASE RestartActor(c)
    <3>1. Holds(c) /\ PostStop(c)
      BY <2>12 DEF RestartActor, Holds
    <3>2. /\ \A d \in Calls \ {c} : held'[d] = held[d] /\ (Waiting(d)' <=> Waiting(d))
          /\ \A d \in Calls \ {c} : actor'[d] = actor[d] /\ replyTo'[d] = replyTo[d]
          /\ ~Waiting(c)' /\ requests \subseteq requests' /\ UNCHANGED httpVars
          /\ actor'[c] # "reset" /\ (actor'[c] = "starting" => ~replyTo'[c]) /\ actor'[c] # "absent"
      BY <2>12, <3>1, PostStopFacts DEF RestartActor
    <3>3. \A d \in Calls \ {c} : Waiting(d) => held[d] # held[c] /\ held[d] \in Clients
      BY <3>1, HolderFacts DEF PoolConserved, Holds
    <3>4. \A d \in Calls \ {c} : Waiting(d) => completed'[held[d]] = completed[held[d]]
      BY <3>1, <3>3, PostStopFacts
    <3>5. registered' \subseteq registered
      BY <3>1, PostStopFacts
    <3>6. \A d \in Calls \ {c} : RequestsOf(d)' = RequestsOf(d)
      BY <3>2
    <3> HIDE DEF Waiting, RequestsOf
    <3>7. ASSUME NEW d \in Calls, Waiting(d)'
          PROVE  \/ completed'[held'[d]] # None
                 \/ held'[d] \notin registered'
                 \/ RequestsOf(d)' \subseteq requests'
      <4>1. d \in Calls \ {c} /\ Waiting(d) /\ held'[d] = held[d]
        BY <3>2, <3>7
      <4> QED
        BY <3>2, <3>4, <3>5, <3>6, <4>1
    <3> QED
      BY <3>2, <3>7
  <2>13. CASE ReceiveResponse(c)
    <3>1. PICK a : Reply(c, a) /\ actor[c] = "receiving"
      BY <2>13 DEF ReceiveResponse, Receives
    <3>2. UNCHANGED <<registered, completed, actorVars, netVars>>
      BY <2>13 DEF ReceiveResponse
    <3>3. ~Waiting(c)'
      BY <3>1, <3>2 DEF Reply
    <3>4. \A d \in Calls : (ask'[d] = ask[d] /\ answer'[d] = answer[d]) \/ (d = c /\ ask'[d] = "replied")
      BY <3>1 DEF Reply
    <3>5. \A d \in Calls : (Waiting(d)' => Waiting(d)) /\ RequestsOf(d)' = RequestsOf(d)
      BY <3>2, <3>3, <3>4
    <3> HIDE DEF Waiting, RequestsOf, IInv, TypeOK
    <3> QED
      BY <3>2, <3>4, <3>5
  <2>14. CASE ReceiveTimeout(c)
    <3>1. PICK a : Reply(c, a) /\ actor[c] = "receiving"
      BY <2>14 DEF ReceiveTimeout, Receives
    <3>2. UNCHANGED <<registered, completed, actorVars, netVars>>
      BY <2>14 DEF ReceiveTimeout
    <3>3. ~Waiting(c)'
      BY <3>1, <3>2 DEF Reply
    <3>4. \A d \in Calls : (ask'[d] = ask[d] /\ answer'[d] = answer[d]) \/ (d = c /\ ask'[d] = "replied")
      BY <3>1 DEF Reply
    <3>5. \A d \in Calls : (Waiting(d)' => Waiting(d)) /\ RequestsOf(d)' = RequestsOf(d)
      BY <3>2, <3>3, <3>4
    <3> HIDE DEF Waiting, RequestsOf, IInv, TypeOK
    <3> QED
      BY <3>2, <3>4, <3>5
  <2>15. CASE ReceivePoison(c)
    <3>1. Holds(c) /\ PostStop(c)
      BY <2>15 DEF ReceivePoison, Holds, Receives
    <3>2. /\ \A d \in Calls \ {c} : held'[d] = held[d] /\ (Waiting(d)' <=> Waiting(d))
          /\ \A d \in Calls \ {c} : actor'[d] = actor[d] /\ replyTo'[d] = replyTo[d]
          /\ ~Waiting(c)' /\ requests \subseteq requests' /\ UNCHANGED httpVars
          /\ actor'[c] # "reset" /\ (actor'[c] = "starting" => ~replyTo'[c]) /\ actor'[c] # "absent"
      BY <2>15, <3>1, PostStopFacts DEF ReceivePoison
    <3>3. \A d \in Calls \ {c} : Waiting(d) => held[d] # held[c] /\ held[d] \in Clients
      BY <3>1, HolderFacts DEF PoolConserved, Holds
    <3>4. \A d \in Calls \ {c} : Waiting(d) => completed'[held[d]] = completed[held[d]]
      BY <3>1, <3>3, PostStopFacts
    <3>5. registered' \subseteq registered
      BY <3>1, PostStopFacts
    <3>6. \A d \in Calls \ {c} : RequestsOf(d)' = RequestsOf(d)
      BY <3>2
    <3> HIDE DEF Waiting, RequestsOf
    <3>7. ASSUME NEW d \in Calls, Waiting(d)'
          PROVE  \/ completed'[held'[d]] # None
                 \/ held'[d] \notin registered'
                 \/ RequestsOf(d)' \subseteq requests'
      <4>1. d \in Calls \ {c} /\ Waiting(d) /\ held'[d] = held[d]
        BY <3>2, <3>7
      <4> QED
        BY <3>2, <3>4, <3>5, <3>6, <4>1
    <3> QED
      BY <3>2, <3>7
  <2>16. CASE TimerFires(c)
    BY <2>16 DEF TimerFires
  <2> QED
    BY <1>1, <2>1, <2>2, <2>3, <2>4, <2>5, <2>6, <2>7, <2>8,
       <2>9, <2>10, <2>11, <2>12, <2>13, <2>14, <2>15, <2>16
       DEF CallStep, FinishStep, ActorStep
<1>2. ASSUME NEW e \in Envelope, StoreAnswer(e) PROVE AnswerKept'
  <2>1. /\ requests' = requests \ {e}
        /\ e.to \in registered => completed' = [completed EXCEPT ![e.to] = e.of]
        /\ e.to \notin registered => completed' = completed
        /\ UNCHANGED <<registered, actorVars, httpVars>>
    BY <1>2 DEF StoreAnswer
  <2>2. e.of # None
    BY ClientFacts DEF Envelope
  <2>3. ASSUME NEW c \in Calls, Waiting(c)'
        PROVE  \/ completed'[held'[c]] # None
               \/ held'[c] \notin registered'
               \/ RequestsOf(c)' \subseteq requests'
    <3>1. Waiting(c) /\ held[c] \in Clients
      BY <2>1, <2>3, HolderFacts DEF Holds
    <3>2. CASE e \in RequestsOf(c)
      BY <2>1, <2>2, <3>1, <3>2
    <3>3. CASE e \notin RequestsOf(c)
      <4>1. completed[held[c]] # None => completed'[held[c]] # None
        BY <2>1, <2>2, <3>1
      <4> QED
        BY <2>1, <3>1, <3>3, <4>1
    <3> QED
      BY <3>2, <3>3
  <2> QED
    BY <2>1, <2>3
<1>3. ASSUME NEW e \in Envelope, CallBack(e) PROVE AnswerKept'
  BY <1>3 DEF CallBack
<1>4. CASE ServiceChanges
  BY <1>4 DEF ServiceChanges
<1>5. CASE UNCHANGED vars
  BY <1>5 DEF vars
<1> QED
  BY <1>1, <1>2, <1>3, <1>4, <1>5 DEF Next

\* The call's timer gives up only when no answer has reached the client.
THEOREM TimeoutsAreHonest == Spec => TimeoutFailureMeansNoAnswer
<1>1. Init => AnswerKept
  BY ClientFacts DEF Init, AnswerKept, Waiting
<1>2. IInv /\ AnswerKept /\ [Next]_vars => AnswerKept'
  BY AnswerStep
<1>3. ASSUME IInv, AnswerKept, NEW c \in Calls,
             ReceiveTimeout(c), ask[c] = "pending", answer'[c] = "failure"
      PROVE  RequestsOf(c) \subseteq requests \/ held[c] \notin registered
  <2>1. answer[c] = None /\ answer[c] # "failure"
    BY <1>3, ServiceAssumption DEF AnswerKept
  <2>2. replyTo[c] /\ completed[held[c]] = None
    <3>1. Holds(c) /\ actor[c] = "receiving"
      BY <1>3 DEF ReceiveTimeout, Receives, Holds
    <3>2. completed[held[c]] \in Calls \union {None}
      BY <1>3, <3>1, HolderFacts
    <3> QED
      BY <1>3, <2>1, <3>2, ServiceAssumption DEF ReceiveTimeout, Reply, httpVars, IInv, TypeOK
  <2> QED
    BY <1>3, <2>2 DEF AnswerKept, Waiting, ReceiveTimeout, Receives
<1>4. IInv /\ AnswerKept =>
        [\A c \in Calls :
           ReceiveTimeout(c) /\ ask[c] = "pending" /\ answer'[c] = "failure"
             => RequestsOf(c) \subseteq requests \/ held[c] \notin registered]_vars
  BY <1>3
<1> QED
  BY <1>1, <1>2, <1>4, Inductive, PTL DEF Spec, TimeoutFailureMeansNoAnswer

----------------------------------------------------------------------------
(* Refinement of ServiceLease.                                                *)

HolderIs(k, h) ==
  /\ \A c \in Calls : held[c] = k => h = c
  /\ (\A c \in Calls : held[c] # k) => h = None

LEMMA HolderFact == PoolConserved => \A k \in Pooled : HolderIs(k, Holder(k))
  BY ClientFacts DEF PoolConserved, HolderIs, Holder

LEMMA HolderFactNext == PoolConserved' => \A k \in Pooled : HolderIs(k, Holder(k))'
  BY ClientFacts DEF PoolConserved, HolderIs, Holder

\* A step that hands no pooled client over leaves the abstract holders alone.
LEMMA HoldersUnchanged ==
  ASSUME PoolConserved, PoolConserved',
         \A k \in Pooled, c \in Calls : held'[c] = k <=> held[c] = k
  PROVE  [k \in Pooled |-> Holder(k)]' = [k \in Pooled |-> Holder(k)]
<1> SUFFICES ASSUME NEW k \in Pooled PROVE Holder(k)' = Holder(k)
  OBVIOUS
<1>1. CASE \E c \in Calls : held[c] = k
  <2>1. PICK c \in Calls : held[c] = k
    BY <1>1
  <2> QED
    BY <2>1, HolderFact, HolderFactNext DEF HolderIs
<1>2. CASE \A c \in Calls : held[c] # k
  BY <1>2, HolderFact, HolderFactNext DEF HolderIs
<1> QED
  BY <1>1, <1>2

LEMMA ProgressUnchanged ==
  ASSUME \A c \in Calls : Progress(c)' = Progress(c)
  PROVE  [c \in Calls |-> Progress(c)]' = [c \in Calls |-> Progress(c)]
  OBVIOUS

\* postStop gives a pooled client back, and is no step of the lease otherwise.
LEMMA PostStopGivesBack ==
  ASSUME IInv, PoolConserved', NEW c \in Calls, Holds(c), PostStop(c), UNCHANGED httpVars
  PROVE  Lease!LeaseNext \/ UNCHANGED Lease!leaseVars
<1>1. held' = [held EXCEPT ![c] = None]
  BY PostStopFacts
<1>2. [d \in Calls |-> Progress(d)]' = [d \in Calls |-> Progress(d)]
  BY DEF Progress, httpVars
<1>3. CASE held[c] \in Pooled
  <2>1. Holder(held[c]) = c /\ held'[c] = None
    BY <1>1, <1>3, HolderFact DEF HolderIs, IInv, TypeOK
  <2>2. \A k \in Pooled : Holder(k)' = IF k = held[c] THEN None ELSE Holder(k)
    <3> SUFFICES ASSUME NEW k \in Pooled
                 PROVE  Holder(k)' = IF k = held[c] THEN None ELSE Holder(k)
      OBVIOUS
    <3>1. CASE k = held[c]
      <4>1. \A d \in Calls : held'[d] # k
        BY <1>1, <3>1, ClientFacts DEF IInv, TypeOK, PoolConserved
      <4> QED
        BY <3>1, <4>1, HolderFactNext DEF HolderIs
    <3>2. CASE k # held[c]
      <4>1. \A d \in Calls : held'[d] = k <=> held[d] = k
        BY <1>1, <3>2, ClientFacts DEF IInv, TypeOK
      <4>2. CASE \E d \in Calls : held[d] = k
        BY <3>2, <4>1, <4>2, HolderFact, HolderFactNext DEF HolderIs, IInv
      <4>3. CASE \A d \in Calls : held[d] # k
        BY <3>2, <4>1, <4>3, HolderFact, HolderFactNext DEF HolderIs, IInv
      <4> QED
        BY <4>2, <4>3
    <3> QED
      BY <3>1, <3>2
  <2>3. Lease!GiveBack(c, held[c])
    BY <1>2, <1>3, <2>1, <2>2 DEF Lease!GiveBack
  <2> QED
    BY <1>3, <2>3 DEF Lease!LeaseNext
<1>4. CASE held[c] \notin Pooled
  <2>1. \A k \in Pooled, d \in Calls : held'[d] = k <=> held[d] = k
    BY <1>1, <1>4, ClientFacts DEF IInv, TypeOK
  <2> QED
    BY <1>2, <2>1, HoldersUnchanged DEF Lease!leaseVars, IInv
<1> QED
  BY <1>3, <1>4

LEMMA PolledIsBorrowed ==
  ASSUME IInv, PoolConserved', NEW c \in Calls, ConstructPooled(c)
  PROVE  Lease!Borrow(c, Head(pool))
<1>1. /\ Head(pool) \in ToSet(pool) \intersect Pooled
      /\ held' = [held EXCEPT ![c] = Head(pool)]
      /\ UNCHANGED httpVars
  BY TailFacts DEF ConstructPooled, IInv, TypeOK, PoolConserved
<1>2. held[c] = None /\ (\A d \in Calls : held[d] # Head(pool))
  BY <1>1 DEF ConstructPooled, IInv, PoolConserved, Holds
<1>3. Progress(c) # "idle"
  BY DEF ConstructPooled, IInv, ActorConsistent, Progress
<1>4. [d \in Calls |-> Progress(d)]' = [d \in Calls |-> Progress(d)]
  BY <1>1 DEF Progress, httpVars
<1>5. Holder(Head(pool)) = None
  BY <1>1, <1>2, HolderFact DEF HolderIs, IInv
<1>6. \A k \in Pooled : Holder(k) # c
  <2> SUFFICES ASSUME NEW k \in Pooled, Holder(k) = c PROVE FALSE
    OBVIOUS
  <2>1. PICK d \in Calls : held[d] = k
    BY HolderFact, ClientFacts DEF HolderIs, IInv
  <2> QED
    BY <1>2, <2>1, HolderFact, ClientFacts DEF HolderIs, IInv
<1>7. \A k \in Pooled : Holder(k)' = IF k = Head(pool) THEN c ELSE Holder(k)
  <2> SUFFICES ASSUME NEW k \in Pooled
               PROVE  Holder(k)' = IF k = Head(pool) THEN c ELSE Holder(k)
    OBVIOUS
  <2>1. CASE k = Head(pool)
    <3>1. held'[c] = k
      BY <1>1, <2>1 DEF IInv, TypeOK
    <3> QED
      BY <2>1, <3>1, HolderFactNext DEF HolderIs
  <2>2. CASE k # Head(pool)
    <3>1. \A d \in Calls : held'[d] = k <=> held[d] = k
      BY <1>1, <1>2, <2>2, ClientFacts DEF IInv, TypeOK
    <3>2. CASE \E d \in Calls : held[d] = k
      BY <2>2, <3>1, <3>2, HolderFact, HolderFactNext DEF HolderIs, IInv
    <3>3. CASE \A d \in Calls : held[d] # k
      BY <2>2, <3>1, <3>3, HolderFact, HolderFactNext DEF HolderIs, IInv
    <3> QED
      BY <3>2, <3>3
  <2> QED
    BY <2>1, <2>2
<1> QED
  BY <1>1, <1>3, <1>4, <1>5, <1>6, <1>7 DEF Lease!Borrow

LEMMA InitRefines == Init => Lease!LeaseInit
  BY ClientFacts DEF Init, Lease!LeaseInit, Holder, Progress

\* A step of one call that leaves held alone opens it, closes it, or is no step.
LEMMA CallStepRefines ==
  ASSUME IInv, PoolConserved', NEW c \in Calls, UNCHANGED held,
         \A d \in Calls \ {c} : ask'[d] = ask[d],
         \/ ask'[c] = ask[c]
         \/ ask[c] = "idle" /\ ask'[c] \in {"pending", "done"}
         \/ ask[c] = "pending" /\ ask'[c] = "replied"
         \/ ask[c] = "replied" /\ ask'[c] \in {"malformed", "done"}
         \/ ask[c] = "malformed" /\ ask'[c] = "done"
  PROVE  Lease!LeaseNext \/ UNCHANGED Lease!leaseVars
<1>1. [k \in Pooled |-> Holder(k)]' = [k \in Pooled |-> Holder(k)]
  BY HoldersUnchanged DEF IInv
<1>2. \A d \in Calls \ {c} : Progress(d)' = Progress(d)
  BY DEF Progress
<1>3. CASE Progress(c)' = Progress(c)
  BY <1>1, <1>2, <1>3 DEF Lease!leaseVars
<1>4. CASE Progress(c) = "idle" /\ Progress(c)' \in {"open", "closed"}
  <2>1. Lease!Open(c)
    BY <1>1, <1>2, <1>4 DEF Lease!Open
  <2> QED
    BY <2>1 DEF Lease!LeaseNext
<1>5. CASE Progress(c) = "open" /\ Progress(c)' = "closed"
  <2>1. Lease!Close(c)
    BY <1>1, <1>2, <1>5 DEF Lease!Close
  <2> QED
    BY <2>1 DEF Lease!LeaseNext
<1> QED
  BY <1>3, <1>4, <1>5 DEF Progress

LEMMA StepRefines ==
  IInv /\ PoolConserved' /\ [Next]_vars => Lease!LeaseNext \/ UNCHANGED Lease!leaseVars
<1> SUFFICES ASSUME IInv, PoolConserved', [Next]_vars
             PROVE  Lease!LeaseNext \/ UNCHANGED Lease!leaseVars
  OBVIOUS
<1> DEFINE Refines == Lease!LeaseNext \/ UNCHANGED Lease!leaseVars
<1>1. ASSUME UNCHANGED <<held, ask>> PROVE Refines
  <2>1. [k \in Pooled |-> Holder(k)]' = [k \in Pooled |-> Holder(k)]
    BY <1>1, HoldersUnchanged DEF IInv
  <2>2. [c \in Calls |-> Progress(c)]' = [c \in Calls |-> Progress(c)]
    BY <1>1 DEF Progress
  <2> QED
    BY <2>1, <2>2 DEF Lease!leaseVars
<1>2. ASSUME NEW c \in Calls, CallStep(c) PROVE Refines
  <2>1. CASE RefuseCall(c) \/ StartCall(c) \/ AskTimeout(c) \/ FinishStep(c)
    BY <2>1, CallStepRefines
       DEF RefuseCall, StartCall, AskTimeout, FinishStep, FinishCall, FinishMalformed,
           FinishExceptionally, actorVars, IInv, TypeOK
  <2>2. CASE ServiceGone(c) \/ ReceiveResponse(c) \/ ReceiveTimeout(c)
    <3>1. PICK a : Reply(c, a)
      BY <2>2 DEF ServiceGone, ReceiveResponse, ReceiveTimeout
    <3>2. UNCHANGED held
      BY <2>2 DEF ServiceGone, ReceiveResponse, ReceiveTimeout, actorVars
    <3> QED
      BY <3>1, <3>2, CallStepRefines DEF Reply, httpVars, IInv, TypeOK
  <2>3. CASE ReceiveRequest(c) \/ ArmCallback(c) \/ SendRequest(c) \/ TimerFires(c)
    BY <1>1, <2>3
       DEF ReceiveRequest, ArmCallback, SendRequest, TimerFires, actorVars, httpVars
  <2>4. CASE ConstructPooled(c)
    <3>1. Head(pool) \in Pooled
      BY <2>4, TailFacts DEF ConstructPooled, IInv, TypeOK
    <3> QED
      BY <2>4, <3>1, PolledIsBorrowed DEF Lease!LeaseNext
  <2>5. CASE ConstructOverflow(c)
    <3>1. /\ held[c] = None
          /\ held' = [held EXCEPT ![c] = <<c, run[c]>>]
          /\ run[c] \in Runs
          /\ UNCHANGED httpVars
      BY <2>5 DEF ConstructOverflow, IInv, TypeOK, PoolConserved, Holds
    <3>2. <<c, run[c]>> \notin Pooled
      BY <3>1, OverflowFacts
    <3>3. \A k \in Pooled, d \in Calls : held'[d] = k <=> held[d] = k
      <4> SUFFICES ASSUME NEW k \in Pooled, NEW d \in Calls
                   PROVE  held'[d] = k <=> held[d] = k
        OBVIOUS
      <4>1. held'[c] # k /\ held[c] # k
        BY <3>1, <3>2, ClientFacts DEF IInv, TypeOK
      <4>2. d # c => held'[d] = held[d]
        BY <3>1
      <4> QED
        BY <4>1, <4>2
    <3>4. [d \in Calls |-> Progress(d)]' = [d \in Calls |-> Progress(d)]
      BY <3>1 DEF Progress, httpVars
    <3> QED
      BY <3>3, <3>4, HoldersUnchanged DEF Lease!leaseVars, IInv
  <2>6. CASE RestartActor(c) \/ ReceivePoison(c)
    BY <2>6, PostStopGivesBack DEF RestartActor, ReceivePoison, Receives, Holds
  <2> QED
    BY <1>2, <2>1, <2>2, <2>3, <2>4, <2>5, <2>6 DEF CallStep, ActorStep
<1>3. ASSUME NEW e \in Envelope, StoreAnswer(e) \/ CallBack(e) PROVE Refines
  BY <1>1, <1>3 DEF StoreAnswer, CallBack, actorVars, httpVars
<1>4. CASE ServiceChanges \/ UNCHANGED vars
  BY <1>1, <1>4 DEF ServiceChanges, vars, actorVars, httpVars
<1> QED
  BY <1>2, <1>3, <1>4 DEF Next

\* The actors implement the lease: every step of the code is a step of the
\* specification that says one call at a time, or changes nothing it can see.
THEOREM Refinement == Spec => ImplementsLease
<1>1. IInv /\ IInv' /\ [Next]_vars => [Lease!LeaseNext]_(Lease!leaseVars)
  BY StepRefines DEF IInv
<1> QED
  BY <1>1, InitRefines, Inductive, PTL DEF Spec, ImplementsLease, Lease!LeaseSpec

=============================================================================
