------------------------- MODULE OOCSIThings_proofs -------------------------
(* Proofs about OOCSIThings, for any pages, variables and links.              *)
(*                                                                            *)
(* The argument: whatever a page sends carries the name of its own datum and  *)
(* goes to others, so that a page that shares its datum with nobody is never  *)
(* sent that name (NoEcho); a page without links is then sent nothing at all. *)
EXTENDS OOCSIThings, TLAPS

Alone(p) == \A q \in Pages \ {p} : Data[q] # Data[p]

\* Messages a page may be sent: it listens to the name, and another page has it.
Proper(p, m) == m.name \in Links[p] \union {Data[p]} /\ (Alone(p) => m.name # Data[p])

NoEcho == \A p \in Pages : \A i \in 1..Len(inbox[p]) : Proper(p, inbox[p][i])

IInv == TypeOK /\ NoEcho

Tasks == [value : [Names -> Values \union {None}], recent : SUBSET Names, out : Seq(Messages)]

\* A task that has sent nothing, or its own datum.
SendsOwn(p, s) == s.out # <<>> => Head(s.out) \in Messages /\ Head(s.out).name = Data[p]

----------------------------------------------------------------------------
(* The accessor.                                                              *)

\* An accessor that may not broadcast sends nothing, another its own name.
LEMMA AccessorFacts ==
  ASSUME NEW s \in Tasks, NEW name \in Names, NEW v \in Values, NEW b \in BOOLEAN
  PROVE  /\ Accessor(s, name, v, b) \in Tasks
         /\ ~b => Accessor(s, name, v, b).out = s.out
         /\ s.out = <<>> =>
              \/ Accessor(s, name, v, b).out = <<>>
              \/ Accessor(s, name, v, b).out = <<[name |-> name, value |-> v]>>
<1> DEFINE m == [name |-> name, value |-> v]
<1>1. m \in Messages
  BY DEF Messages
<1>2. s.out \in Seq(Messages) /\ Append(s.out, m) \in Seq(Messages)
  BY <1>1 DEF Tasks
<1>3. s.out = <<>> => Append(s.out, m) = <<m>>
  BY <1>1
<1>4. CASE name \in s.recent
  BY <1>4 DEF Accessor
<1>5. CASE name \notin s.recent
  <2>1. [s.value EXCEPT ![name] = v] \in [Names -> Values \union {None}]
    BY DEF Tasks
  <2>2. s.recent \union {name} \in SUBSET Names
    BY DEF Tasks
  <2>3. Accessor(s, name, v, b) =
          [value  |-> [s.value EXCEPT ![name] = v],
           recent |-> s.recent \union {name},
           out    |-> IF b /\ v # s.value[name] THEN Append(s.out, m) ELSE s.out]
    BY <1>5 DEF Accessor
  <2>. HIDE DEF m
  <2>4. Accessor(s, name, v, b) \in Tasks
    BY <1>2, <2>1, <2>2, <2>3 DEF Tasks
  <2>5. Accessor(s, name, v, b).out =
          IF b /\ v # s.value[name] THEN Append(s.out, m) ELSE s.out
    BY <2>3
  <2>. QED
    BY <1>3, <2>4, <2>5 DEF m
<1>. QED
  BY <1>4, <1>5

LEMMA StateType ==
  ASSUME TypeOK, NEW p \in Pages
  PROVE  State(p) \in Tasks /\ State(p).out = <<>>
  BY DEF TypeOK, State, Tasks

\* What an update of the page's own accessor sends.
LEMMA OwnSends ==
  ASSUME NEW p \in Pages, NEW s \in Tasks, s.out = <<>>, NEW v \in Values, NEW b \in BOOLEAN
  PROVE  /\ Accessor(s, Data[p], v, b) \in Tasks
         /\ SendsOwn(p, Accessor(s, Data[p], v, b))
<1> DEFINE m == [name |-> Data[p], value |-> v]
<1>1. Data[p] \in Names
  BY ThingsAssumption
<1>2. m \in Messages /\ m.name = Data[p]
  BY <1>1 DEF Messages
<1>3. /\ Accessor(s, Data[p], v, b) \in Tasks
      /\ Accessor(s, Data[p], v, b).out \in {<<>>, <<m>>}
  BY <1>1, AccessorFacts
<1>. HIDE DEF m
<1>4. Head(<<m>>) = m
  OBVIOUS
<1>. QED
  BY <1>2, <1>3, <1>4 DEF SendsOwn

\* What a page that receives a message sends.
LEMMA ReceivedSends ==
  ASSUME TypeOK, NEW p \in Pages, NEW m \in Messages
  PROVE  LET s == IF m.name = Data[p]
                  THEN Accessor(State(p), m.name, m.value, FALSE)
                  ELSE Linked(State(p), m.name, m.value, Data[p])
         IN s \in Tasks /\ SendsOwn(p, s)
<1>1. m.name \in Names /\ m.value \in Values
  BY DEF Messages
<1>2. State(p) \in Tasks /\ State(p).out = <<>>
  BY StateType
<1>3. CASE m.name = Data[p]
  BY <1>1, <1>2, <1>3, OwnSends
<1>4. CASE m.name # Data[p] /\ m.name \in State(p).recent
  BY <1>2, <1>4 DEF Linked, SendsOwn
<1>5. CASE m.name # Data[p] /\ m.name \notin State(p).recent
  <2> DEFINE first == Accessor(State(p), m.name, m.value, FALSE)
  <2>1. first \in Tasks /\ first.out = <<>>
    BY <1>1, <1>2, AccessorFacts
  <2>2. Linked(State(p), m.name, m.value, Data[p]) = Accessor(first, Data[p], m.value, TRUE)
    BY <1>5 DEF Linked
  <2>. HIDE DEF first
  <2>. QED
    BY <1>1, <1>5, <2>1, <2>2, OwnSends
<1>. QED
  BY <1>3, <1>4, <1>5

----------------------------------------------------------------------------
(* The steps.                                                                 *)

\* What is left of a sequence was there before.
LEMMA TailAt ==
  ASSUME NEW S, NEW t \in Seq(S), t # <<>>, NEW i \in 1..Len(Tail(t))
  PROVE  i + 1 \in 1..Len(t) /\ Tail(t)[i] = t[i + 1]
  OBVIOUS

\* The end of a task: what is under way to p was so before.
LEMMA FinishKeeps ==
  ASSUME TypeOK, NEW p \in Pages, NEW s \in Tasks, SendsOwn(p, s),
         NEW before \in [Pages -> Seq(Messages)], Finish(p, s, before),
         \A q \in Pages : \A i \in 1..Len(before[q]) : Proper(q, before[q][i])
  PROVE  /\ inbox' \in [Pages -> Seq(Messages)]
         /\ value' \in [Pages -> [Names -> Values \union {None}]]
         /\ recent' \in [Pages -> SUBSET Names]
         /\ NoEcho'
<1>1. value' \in [Pages -> [Names -> Values \union {None}]] /\ recent' \in [Pages -> SUBSET Names]
  BY DEF TypeOK, Finish, Tasks
<1> DEFINE m == Head(s.out)
<1>2. \A q \in Pages :
        \/ inbox'[q] = before[q]
        \/ /\ q # p /\ m \in Messages /\ m.name = Data[p] /\ Hears(q, m)
           /\ inbox'[q] = Append(before[q], m)
  BY DEF Finish, SendsOwn
<1>3. DOMAIN inbox' = Pages /\ inbox' = [q \in Pages |-> inbox'[q]]
  BY DEF Finish
<1>. HIDE DEF m
<1>4. ASSUME NEW q \in Pages
      PROVE  inbox'[q] \in Seq(Messages)
  <2>1. before[q] \in Seq(Messages)
    OBVIOUS
  <2>2. m \in Messages => Append(before[q], m) \in Seq(Messages)
    BY <2>1
  <2>. QED
    BY <1>2, <2>1, <2>2
<1>5. inbox' \in [Pages -> Seq(Messages)]
  BY <1>3, <1>4
<1>6. NoEcho'
  <2>. SUFFICES ASSUME NEW q \in Pages, NEW i \in 1..Len(inbox'[q])
                PROVE  Proper(q, inbox'[q][i])
    BY DEF NoEcho, Proper, Alone
  <2>1. CASE inbox'[q] = before[q]
    BY <2>1
  <2>2. CASE /\ q # p /\ m \in Messages /\ m.name = Data[p] /\ Hears(q, m)
             /\ inbox'[q] = Append(before[q], m)
    <3>1. Proper(q, m)
      BY <2>2 DEF Proper, Alone, Hears
    <3>2. before[q] \in Seq(Messages)
      OBVIOUS
    <3>3. inbox'[q][i] = IF i \in 1..Len(before[q]) THEN before[q][i] ELSE m
      BY <2>2, <3>2
    <3>. QED
      BY <2>2, <3>1, <3>3
  <2>. QED
    BY <1>2, <2>1, <2>2
<1>. QED
  BY <1>1, <1>5, <1>6

LEMMA SetKeeps ==
  ASSUME IInv, NEW p \in Pages, NEW v \in Values, Set(p, v)
  PROVE  IInv'
<1> DEFINE s == Accessor(State(p), Data[p], v, TRUE)
<1>1. TypeOK /\ NoEcho
  BY DEF IInv
<1>2. s \in Tasks /\ SendsOwn(p, s)
  BY <1>1, StateType, OwnSends
<1>3. Finish(p, s, inbox) /\ UNCHANGED connected /\ calm' \in {p, None}
      /\ sent' \in [Pages -> {0, 1}]
  BY DEF Set
<1>4. inbox \in [Pages -> Seq(Messages)]
  BY <1>1 DEF TypeOK
<1>. HIDE DEF s
<1>5. /\ inbox' \in [Pages -> Seq(Messages)]
      /\ value' \in [Pages -> [Names -> Values \union {None}]]
      /\ recent' \in [Pages -> SUBSET Names]
      /\ NoEcho'
  BY <1>1, <1>2, <1>3, <1>4, FinishKeeps DEF NoEcho
<1>. QED
  BY <1>1, <1>3, <1>5 DEF IInv, TypeOK

LEMMA ReceiveKeeps ==
  ASSUME IInv, NEW p \in Pages, Receive(p)
  PROVE  IInv'
<1> DEFINE m == Head(inbox[p])
           s == IF m.name = Data[p]
                THEN Accessor(State(p), m.name, m.value, FALSE)
                ELSE Linked(State(p), m.name, m.value, Data[p])
           before == [inbox EXCEPT ![p] = Tail(@)]
<1>1. TypeOK /\ NoEcho
  BY DEF IInv
<1>2. inbox[p] \in Seq(Messages) /\ inbox[p] # <<>>
  BY <1>1 DEF TypeOK, Receive
<1>3. m \in Messages
  BY <1>2
<1>4. s \in Tasks /\ SendsOwn(p, s)
  BY <1>1, <1>3, ReceivedSends
<1>5. Finish(p, s, before) /\ UNCHANGED <<connected, calm>>
      /\ sent' = IF calm # None /\ s.out # <<>> /\ sent[p] < 2
                 THEN [sent EXCEPT ![p] = @ + 1] ELSE sent
  BY DEF Receive
<1>6. before \in [Pages -> Seq(Messages)]
  BY <1>1, <1>2 DEF TypeOK
<1>7. ASSUME NEW q \in Pages, NEW i \in 1..Len(before[q])
      PROVE  Proper(q, before[q][i])
  <2>1. CASE q # p
    <3>1. before[q] = inbox[q]
      BY <1>1, <2>1 DEF TypeOK
    <3>. QED
      BY <1>1, <1>7, <3>1 DEF NoEcho
  <2>2. CASE q = p
    <3>1. before[q] = Tail(inbox[p])
      BY <1>1, <2>2 DEF TypeOK
    <3>2. i + 1 \in 1..Len(inbox[p]) /\ before[q][i] = inbox[p][i + 1]
      BY <1>2, <3>1, TailAt
    <3>. QED
      BY <1>1, <2>2, <3>2 DEF NoEcho
  <2>. QED
    BY <2>1, <2>2
<1>. HIDE DEF s, before, m
<1>8. /\ inbox' \in [Pages -> Seq(Messages)]
      /\ value' \in [Pages -> [Names -> Values \union {None}]]
      /\ recent' \in [Pages -> SUBSET Names]
      /\ NoEcho'
  BY <1>1, <1>4, <1>5, <1>6, <1>7, FinishKeeps
<1>9. sent' \in [Pages -> 0..2]
  <2>1. CASE sent' = sent
    BY <1>1, <2>1 DEF TypeOK
  <2>2. CASE sent' = [sent EXCEPT ![p] = @ + 1] /\ sent[p] < 2
    <3>1. sent \in [Pages -> 0..2]
      BY <1>1 DEF TypeOK
    <3>2. sent[p] + 1 \in 0..2
      BY <2>2, <3>1
    <3>. QED
      BY <2>2, <3>1, <3>2
  <2>. QED
    BY <1>5, <2>1, <2>2
<1>. QED
  BY <1>1, <1>5, <1>8, <1>9 DEF IInv, TypeOK

LEMMA NextKeeps == IInv /\ [Next]_vars => IInv'
<1>. SUFFICES ASSUME IInv, [Next]_vars
              PROVE  IInv'
  OBVIOUS
<1>1. ASSUME NEW p \in Pages, NEW v \in Values, Set(p, v)
      PROVE  IInv'
  BY <1>1, SetKeeps
<1>2. ASSUME NEW p \in Pages, Receive(p)
      PROVE  IInv'
  BY <1>2, ReceiveKeeps
<1>3. ASSUME NEW p \in Pages, NEW x \in Names, ThrottleEnds(p, x)
      PROVE  IInv'
  BY <1>3 DEF IInv, TypeOK, NoEcho, Proper, Alone, ThrottleEnds
<1>4. ASSUME NEW p \in Pages, Connect(p)
      PROVE  IInv'
  BY <1>4 DEF IInv, TypeOK, NoEcho, Proper, Alone, Connect
<1>5. ASSUME NEW p \in Pages, Disconnect(p)
      PROVE  IInv'
  <2>1. inbox' \in [Pages -> Seq(Messages)]
        /\ \A q \in Pages : inbox'[q] = inbox[q] \/ inbox'[q] = <<>>
    BY <1>5 DEF IInv, TypeOK, Disconnect
  <2>2. NoEcho'
    BY <2>1 DEF IInv, NoEcho, Proper, Alone
  <2>. QED
    BY <1>5, <2>1, <2>2 DEF IInv, TypeOK, Disconnect
<1>6. CASE UNCHANGED vars
  BY <1>6 DEF IInv, TypeOK, NoEcho, Proper, Alone, vars
<1>. QED
  BY <1>1, <1>2, <1>3, <1>4, <1>5, <1>6 DEF Next

LEMMA InitHolds == Init => IInv
  BY DEF Init, IInv, TypeOK, NoEcho

\* The inductive invariant holds in every reachable state.
THEOREM Invariance == Spec => []IInv
<1>1. Init => IInv
  BY InitHolds
<1>2. IInv /\ [Next]_vars => IInv'
  BY NextKeeps
<1>. QED
  BY <1>1, <1>2, PTL DEF Spec

----------------------------------------------------------------------------
(* A change made in peace.  All that is under way carries the new value, and a *)
(* throttle that runs was started by it, so that whoever drops a message has  *)
(* the value already.  Whatever name was sent, or is that of a page that has   *)
(* the value, all who listen to it have the value or a message of that name.   *)

Waiting(p) == Range(inbox[p])
Change == value[calm][Data[calm]]
Got(p) == value[p][Data[p]] = Change
Listens(q, x) == x \in Links[q] \union {Data[q]}

Spread(x) ==
  \A q \in Pages : Listens(q, x) => Got(q) \/ \E m \in Waiting(q) : m.name = x

Spreading ==
  /\ connected = Pages
  /\ \A p \in Pages : \A m \in Waiting(p) : m.value = Change /\ Spread(m.name)
  /\ \A p \in Pages : recent[p] # {} => Got(p)
  /\ \A p \in Reached[calm] : Got(p) => Spread(Data[p])
  /\ \A p \in Pages : sent[p] > 0 => Got(p)

CalmInv ==
  /\ ChangeInPeaceDiesOut
  /\ calm # None => Spreading

\* What is in a sequence.
LEMMA InAppend ==
  ASSUME NEW S, NEW t \in Seq(S), NEW m \in S
  PROVE  Range(Append(t, m)) = Range(t) \union {m}
<1>1. /\ DOMAIN Append(t, m) = 1..(Len(t) + 1)
      /\ DOMAIN t = 1..Len(t) /\ Len(t) \in Nat
      /\ Append(t, m)[Len(t) + 1] = m
      /\ \A i \in 1..Len(t) : Append(t, m)[i] = t[i]
  OBVIOUS
<1>2. 1..(Len(t) + 1) = 1..Len(t) \union {Len(t) + 1}
  BY <1>1
<1>3. \A x \in Range(Append(t, m)) : x \in Range(t) \union {m}
  BY <1>1, <1>2 DEF Range
<1>4. m \in Range(Append(t, m))
  BY <1>1 DEF Range
<1>5. ASSUME NEW x \in Range(t)
      PROVE  x \in Range(Append(t, m))
  <2>1. PICK i \in 1..Len(t) : x = t[i]
    BY <1>1 DEF Range
  <2>2. i \in DOMAIN Append(t, m) /\ Append(t, m)[i] = x
    BY <1>1, <1>2, <2>1
  <2>. QED
    BY <2>2 DEF Range
<1>. QED
  BY <1>3, <1>4, <1>5

LEMMA InTail ==
  ASSUME NEW S, NEW t \in Seq(S), t # <<>>
  PROVE  Range(t) = {Head(t)} \union Range(Tail(t))
<1>1. /\ Head(t) = t[1] /\ Len(t) \in Nat /\ Len(t) > 0
      /\ DOMAIN t = 1..Len(t) /\ DOMAIN Tail(t) = 1..(Len(t) - 1)
      /\ \A i \in 1..(Len(t) - 1) : Tail(t)[i] = t[i + 1]
  OBVIOUS
<1>2. \A i \in 1..Len(t) : i = 1 \/ (i - 1 \in 1..(Len(t) - 1) /\ i = (i - 1) + 1)
  BY <1>1
<1>3. \A i \in 1..(Len(t) - 1) : i + 1 \in 1..Len(t)
  BY <1>1
<1>4. ASSUME NEW m \in Range(t), m # Head(t)
      PROVE  m \in Range(Tail(t))
  <2>1. PICK i \in 1..Len(t) : m = t[i]
    BY <1>1 DEF Range
  <2>2. i - 1 \in 1..(Len(t) - 1) /\ i = (i - 1) + 1
    BY <1>1, <1>2, <1>4, <2>1
  <2>3. i - 1 \in DOMAIN Tail(t) /\ Tail(t)[i - 1] = m
    BY <1>1, <2>1, <2>2
  <2>. QED
    BY <2>3 DEF Range
<1>5. ASSUME NEW m \in Range(Tail(t))
      PROVE  m \in Range(t)
  <2>1. PICK i \in 1..(Len(t) - 1) : m = Tail(t)[i]
    BY <1>1 DEF Range
  <2>2. i + 1 \in DOMAIN t /\ t[i + 1] = m
    BY <1>1, <1>3, <2>1
  <2>. QED
    BY <2>2 DEF Range
<1>6. Head(t) \in Range(t)
  BY <1>1 DEF Range
<1>. QED
  BY <1>4, <1>5, <1>6

LEMMA InEmpty == Range(<<>>) = {}
  BY DEF Range

\* If a throttle that runs means that the page has the value of a message already,
\* the page has it after the message, and has sent its own datum only if it is news.
LEMMA TakesChange ==
  ASSUME TypeOK, NEW p \in Pages, NEW m \in Messages,
         recent[p] # {} => value[p][Data[p]] = m.value
  PROVE  LET s == IF m.name = Data[p]
                  THEN Accessor(State(p), m.name, m.value, FALSE)
                  ELSE Linked(State(p), m.name, m.value, Data[p])
         IN /\ s.value[Data[p]] = m.value
            /\ s.out = IF m.name # Data[p] /\ value[p][Data[p]] # m.value
                       THEN <<[name |-> Data[p], value |-> m.value]>> ELSE <<>>
<1> DEFINE own == [name |-> Data[p], value |-> m.value]
<1>1. m.name \in Names /\ m.value \in Values /\ Data[p] \in Names
  BY ThingsAssumption DEF Messages
<1>2. /\ State(p) \in Tasks /\ State(p).out = <<>>
      /\ State(p).value = value[p] /\ State(p).recent = recent[p]
  BY StateType DEF State
<1>3. value[p] \in [Names -> Values \union {None}]
  BY DEF TypeOK
<1>4. CASE m.name = Data[p] /\ m.name \notin recent[p]
  <2>1. /\ Accessor(State(p), m.name, m.value, FALSE).value = [value[p] EXCEPT ![m.name] = m.value]
        /\ Accessor(State(p), m.name, m.value, FALSE).out = <<>>
    BY <1>2, <1>4 DEF Accessor
  <2>. QED
    BY <1>1, <1>3, <1>4, <2>1
<1>5. CASE m.name = Data[p] /\ m.name \in recent[p]
  BY <1>2, <1>5 DEF Accessor
<1>6. CASE m.name # Data[p] /\ m.name \in recent[p]
  BY <1>2, <1>6 DEF Linked
<1>7. CASE m.name # Data[p] /\ m.name \notin recent[p]
  <2> DEFINE first == Accessor(State(p), m.name, m.value, FALSE)
             second == Accessor(first, Data[p], m.value, TRUE)
  <2>1. first \in Tasks
    BY <1>1, <1>2, AccessorFacts
  <2>2. /\ first.value = [value[p] EXCEPT ![m.name] = m.value]
        /\ first.recent = recent[p] \union {m.name}
        /\ first.out = <<>>
    BY <1>2, <1>7 DEF Accessor
  <2>3. first.value[Data[p]] = value[p][Data[p]]
    BY <1>1, <1>3, <1>7, <2>2
  <2>4. Linked(State(p), m.name, m.value, Data[p]) = second
    BY <1>2, <1>7 DEF Linked
  <2>. HIDE DEF first, own
  <2>5. CASE Data[p] \in recent[p]
    <3>1. second = first
      BY <2>2, <2>5 DEF Accessor
    <3>. QED
      BY <1>7, <2>2, <2>3, <2>4, <2>5, <3>1
  <2>6. CASE Data[p] \notin recent[p]
    <3>1. /\ second.value = [first.value EXCEPT ![Data[p]] = m.value]
          /\ second.out = IF m.value # value[p][Data[p]] THEN Append(<<>>, own) ELSE <<>>
      BY <1>7, <2>2, <2>3, <2>6 DEF Accessor, own
    <3>2. second.value[Data[p]] = m.value
      BY <1>1, <2>1, <3>1 DEF Tasks
    <3>3. Append(<<>>, own) = <<own>>
      OBVIOUS
    <3>. QED
      BY <1>7, <2>4, <3>1, <3>2, <3>3 DEF own
  <2>. QED
    BY <2>5, <2>6
<1>. QED
  BY <1>4, <1>5, <1>6, <1>7

\* The pages a change reaches include its own, and whom they feed.
LEMMA ReachedFacts ==
  ASSUME NEW w \in Pages
  PROVE  /\ w \in Reached[w]
         /\ \A p \in Reached[w], q \in Pages : Feeds(p, q) => q \in Reached[w]
<1>1. Reached[w] = {p \in Pages : \A S \in SUBSET Pages :
         w \in S /\ (\A q \in S : \A r \in Pages : Feeds(q, r) => r \in S) => p \in S}
  BY DEF Reached
<1>2. w \in Reached[w]
  BY <1>1
<1>3. ASSUME NEW p \in Reached[w], NEW q \in Pages, Feeds(p, q)
      PROVE  q \in Reached[w]
  BY <1>1, <1>3
<1>. QED
  BY <1>2, <1>3

\* Once nothing is under way, the change is everywhere.
LEMMA SpreadingArrives ==
  ASSUME TypeOK, CalmInv
  PROVE  ChangeInPeaceArrives
<1>. SUFFICES ASSUME calm # None, Settled
              PROVE  \A p \in Reached[calm] : Got(p)
  BY DEF ChangeInPeaceArrives, Got, Change
<1> DEFINE S == {p \in Reached[calm] : Got(p)}
<1>1. calm \in Pages /\ Spreading
  BY DEF TypeOK, CalmInv
<1>2. Reached[calm] \subseteq Pages
  BY <1>1 DEF Reached
<1>3. calm \in S
  BY <1>1, ReachedFacts DEF Got, Change
<1>4. ASSUME NEW q \in S, NEW r \in Pages, Feeds(q, r)
      PROVE  r \in S
  <2>1. r \in Reached[calm]
    BY <1>1, <1>4, ReachedFacts
  <2>2. Spread(Data[q]) /\ Listens(r, Data[q])
    BY <1>1, <1>4 DEF Spreading, Feeds, Listens
  <2>3. Waiting(r) = {}
    BY InEmpty DEF Settled, Waiting
  <2>. QED
    BY <2>1, <2>2, <2>3 DEF Spread
<1>5. S \in SUBSET Pages
  BY <1>2
<1>6. \A p \in Reached[calm] : \A T \in SUBSET Pages :
        calm \in T /\ (\A q \in T : \A r \in Pages : Feeds(q, r) => r \in T) => p \in T
  BY <1>1 DEF Reached
<1>. HIDE DEF S
<1>7. \A p \in Reached[calm] : p \in S
  BY <1>3, <1>4, <1>5, <1>6
<1>. QED
  BY <1>7 DEF S

\* A page that sets its datum in peace, to a value that is news to all it reaches.
LEMMA SetSpreads ==
  ASSUME IInv, NEW p \in Pages, NEW v \in Values, Set(p, v)
  PROVE  CalmInv'
<1> DEFINE s == Accessor(State(p), Data[p], v, TRUE)
           own == [name |-> Data[p], value |-> v]
           news == Peace /\ NewToAll(p, v)
<1>1. TypeOK
  BY DEF IInv
<1>2. /\ Finish(p, s, inbox) /\ UNCHANGED connected
      /\ calm' = IF news THEN p ELSE None
      /\ sent' = [q \in Pages |-> IF news /\ q = p THEN 1 ELSE 0]
      /\ Data[p] \notin recent[p]
  BY DEF Set
<1>3. ChangeInPeaceDiesOut'
  BY <1>2 DEF ChangeInPeaceDiesOut
<1>. SUFFICES ASSUME calm' # None
              PROVE  Spreading'
  BY <1>3 DEF CalmInv
<1>4. calm' = p /\ Peace /\ NewToAll(p, v) /\ Data[p] \in Names
  BY <1>2, ThingsAssumption
<1>5. /\ connected = Pages /\ \A q \in Pages : inbox[q] = <<>> /\ recent[q] = {}
  BY <1>4 DEF Peace, Settled
<1>6. value[p][Data[p]] # v /\ \A q \in Reached[p] : value[q][Data[q]] # v
  BY <1>4, ReachedFacts DEF NewToAll
<1>7. /\ s.value = [value[p] EXCEPT ![Data[p]] = v] /\ s.recent = {Data[p]}
      /\ s.out = <<own>>
  <2>1. /\ State(p) \in Tasks /\ State(p).out = <<>>
        /\ State(p).value = value[p] /\ State(p).recent = recent[p]
    BY <1>1, StateType DEF State
  <2>2. /\ s.value = [value[p] EXCEPT ![Data[p]] = v]
        /\ s.recent = recent[p] \union {Data[p]}
        /\ s.out = Append(<<>>, own)
    BY <1>2, <1>6, <2>1 DEF Accessor
  <2>3. Append(<<>>, own) = <<own>>
    OBVIOUS
  <2>. QED
    BY <1>5, <2>2, <2>3
<1>8. own \in Messages /\ own.name = Data[p] /\ own.value = v /\ Head(<<own>>) = own
  BY <1>4 DEF Messages
<1>. HIDE DEF s, own
<1>9. /\ value' = [value EXCEPT ![p] = s.value] /\ recent' = [recent EXCEPT ![p] = s.recent]
      /\ inbox' = [q \in Pages |-> IF q # p /\ Listens(q, Data[p]) THEN <<own>> ELSE <<>>]
  <2>1. Append(<<>>, own) = <<own>> /\ <<own>> # <<>>
    OBVIOUS
  <2>2. s.out # <<>> /\ Head(s.out) = own
    BY <1>7, <1>8, <2>1
  <2>3. \A q \in Pages : Hears(q, own) <=> Listens(q, Data[p])
    BY <1>8 DEF Hears, Listens
  <2>4. \A q \in Pages : inbox[q] = <<>> /\ (p \in connected /\ q \in connected \ {p} <=> q # p)
    BY <1>5
  <2>5. inbox' = [q \in Pages |-> IF q # p /\ Hears(q, own) THEN Append(<<>>, own) ELSE <<>>]
    BY <1>2, <2>2, <2>4 DEF Finish
  <2>. QED
    BY <1>2, <2>1, <2>3, <2>5 DEF Finish
<1>10. /\ value'[p][Data[p]] = v
       /\ \A q \in Pages \ {p} : value'[q] = value[q] /\ recent'[q] = {}
  BY <1>1, <1>4, <1>5, <1>7, <1>9 DEF TypeOK
<1>11. /\ Change' = v /\ Got(p)'
       /\ \A q \in Reached[p] \ {p} : ~Got(q)'
  <2>1. Reached[p] \subseteq Pages
    BY DEF Reached
  <2>. QED
    BY <1>4, <1>6, <1>10, <2>1 DEF Got, Change
<1>12. \A q \in Pages : Waiting(q)' = IF q # p /\ Listens(q, Data[p]) THEN {own} ELSE {}
  <2>1. Range(<<own>>) = {own} /\ Range(<<>>) = {}
    BY DEF Range
  <2>. QED
    BY <1>9, <2>1 DEF Waiting
<1>13. Spread(Data[p])'
  BY <1>8, <1>11, <1>12 DEF Spread
<1>14. \A q \in Pages : \A m \in Waiting(q)' : m.value = Change' /\ Spread(m.name)'
  BY <1>8, <1>11, <1>12, <1>13
<1>15. \A q \in Pages : recent'[q] # {} => Got(q)'
  BY <1>10, <1>11
<1>16. \A q \in Reached[calm'] : Got(q)' => Spread(Data[q])'
  BY <1>4, <1>11, <1>13
<1>17. \A q \in Pages : sent'[q] > 0 => Got(q)'
  BY <1>2, <1>11
<1>. QED
  BY <1>2, <1>5, <1>14, <1>15, <1>16, <1>17 DEF Spreading

\* A page that receives a message of the change has it then, and passes it on at most
\* once.
LEMMA ReceiveSpreads ==
  ASSUME IInv, CalmInv, NEW p \in Pages, Receive(p), calm # None
  PROVE  Spreading' /\ ChangeInPeaceDiesOut'
<1> DEFINE m == Head(inbox[p])
           s == IF m.name = Data[p]
                THEN Accessor(State(p), m.name, m.value, FALSE)
                ELSE Linked(State(p), m.name, m.value, Data[p])
           before == [inbox EXCEPT ![p] = Tail(@)]
           own == [name |-> Data[p], value |-> Change]
           passes == m.name # Data[p] /\ ~Got(p)
<1>1. TypeOK /\ Spreading /\ calm \in Pages
  BY DEF IInv, CalmInv, TypeOK
<1>2. inbox[p] \in Seq(Messages) /\ inbox[p] # <<>>
  BY <1>1 DEF TypeOK, Receive
<1>3. m \in Messages /\ Waiting(p) = {m} \union Range(Tail(inbox[p]))
  BY <1>2, InTail DEF Waiting
<1>4. m.value = Change /\ Spread(m.name)
  BY <1>1, <1>3 DEF Spreading
<1>5. recent[p] # {} => value[p][Data[p]] = m.value
  BY <1>1, <1>4 DEF Spreading, Got
<1>6. /\ s \in Tasks
      /\ s.value[Data[p]] = Change
      /\ s.out = IF passes THEN <<own>> ELSE <<>>
  BY <1>1, <1>3, <1>4, <1>5, ReceivedSends, TakesChange DEF Got
<1>7. /\ Finish(p, s, before) /\ UNCHANGED <<connected, calm>>
      /\ sent' = IF calm # None /\ s.out # <<>> /\ sent[p] < 2
                 THEN [sent EXCEPT ![p] = @ + 1] ELSE sent
  BY DEF Receive
<1>8. Change \in Values /\ Data[p] \in Names
  BY <1>3, <1>4, ThingsAssumption DEF Messages
<1>9. own \in Messages /\ own.name = Data[p] /\ own.value = Change /\ Head(<<own>>) = own
  BY <1>8 DEF Messages
<1>. HIDE DEF s, own, m, passes
<1>10. /\ value'[p][Data[p]] = Change
       /\ \A q \in Pages \ {p} : value'[q] = value[q] /\ recent'[q] = recent[q]
  BY <1>1, <1>6, <1>7 DEF TypeOK, Finish
<1>11. /\ Change' = Change /\ Got(p)'
       /\ \A q \in Pages \ {p} : Got(q)' <=> Got(q)
  BY <1>1, <1>7, <1>10 DEF Change, Got
<1>12. \A q \in Pages \ {p} :
         Waiting(q)' = IF passes /\ Listens(q, Data[p])
                       THEN Waiting(q) \union {own} ELSE Waiting(q)
  <2>. SUFFICES ASSUME NEW q \in Pages \ {p}
                PROVE  Waiting(q)' = IF passes /\ Listens(q, Data[p])
                                     THEN Waiting(q) \union {own} ELSE Waiting(q)
    OBVIOUS
  <2>1. before[q] = inbox[q] /\ inbox[q] \in Seq(Messages)
    BY <1>1 DEF TypeOK
  <2>2. s.out # <<>> <=> passes
    BY <1>6
  <2>3. passes => Head(s.out) = own
    BY <1>6, <1>9
  <2>4. p \in connected /\ q \in connected \ {p}
    BY <1>1 DEF Spreading
  <2>. HIDE DEF before
  <2>5. inbox'[q] = IF passes /\ Listens(q, Data[p]) THEN Append(inbox[q], own) ELSE inbox[q]
    BY <1>7, <1>9, <2>1, <2>2, <2>3, <2>4 DEF Finish, Hears, Listens
  <2>6. Range(Append(inbox[q], own)) = Range(inbox[q]) \union {own}
    BY <1>9, <2>1, InAppend
  <2>. QED
    BY <2>5, <2>6 DEF Waiting
<1>13. Waiting(p)' = Range(Tail(inbox[p]))
  <2>1. inbox'[p] = before[p] /\ before[p] = Tail(inbox[p])
    BY <1>1, <1>7 DEF Finish, TypeOK
  <2>. QED
    BY <2>1 DEF Waiting
<1>. HIDE DEF before
<1>14. ASSUME NEW x, Spread(x)
       PROVE  Spread(x)'
  <2>. SUFFICES ASSUME NEW q \in Pages, Listens(q, x)
                PROVE  Got(q)' \/ \E k \in Waiting(q)' : k.name = x
    BY DEF Spread
  <2>1. CASE q = p
    BY <1>11, <2>1
  <2>2. CASE q # p
    <3>1. Got(q) \/ \E k \in Waiting(q) : k.name = x
      BY <1>14 DEF Spread
    <3>2. Waiting(q) \subseteq Waiting(q)'
      BY <1>12, <2>2
    <3>. QED
      BY <1>11, <2>2, <3>1, <3>2
  <2>. QED
    BY <2>1, <2>2
<1>15. passes => Spread(Data[p])'
  BY <1>9, <1>11, <1>12 DEF Spread
<1>16. ASSUME NEW q \in Pages, NEW k \in Waiting(q)'
       PROVE  k.value = Change' /\ Spread(k.name)'
  <2>1. k \in Waiting(q) \/ (passes /\ k = own)
    BY <1>3, <1>12, <1>13, <1>16
  <2>2. k \in Waiting(q) => k.value = Change /\ Spread(k.name)
    BY <1>1 DEF Spreading
  <2>. QED
    BY <1>9, <1>11, <1>14, <1>15, <2>1, <2>2
<1>17. \A q \in Pages : recent'[q] # {} => Got(q)'
  BY <1>1, <1>10, <1>11 DEF Spreading
<1>18. ASSUME NEW q \in Reached[calm'], Got(q)'
       PROVE  Spread(Data[q])'
  <2>1. q \in Reached[calm] /\ q \in Pages
    BY <1>1, <1>7 DEF Reached
  <2>2. CASE Got(q)
    BY <1>1, <1>14, <2>1, <2>2 DEF Spreading
  <2>3. CASE ~Got(q)
    <3>1. q = p
      BY <1>11, <1>18, <2>1, <2>3
    <3>2. CASE m.name = Data[p]
      BY <1>4, <1>14, <3>1, <3>2
    <3>3. CASE m.name # Data[p]
      BY <1>15, <2>3, <3>1, <3>3 DEF passes
    <3>. QED
      BY <3>2, <3>3
  <2>. QED
    BY <2>2, <2>3
<1>19. sent \in [Pages -> 0..2] /\ \A q \in Pages : sent[q] < 2
  BY <1>1 DEF TypeOK, CalmInv, ChangeInPeaceDiesOut
<1>20. /\ \A q \in Pages \ {p} : sent'[q] = sent[q]
       /\ sent'[p] = IF passes THEN sent[p] + 1 ELSE sent[p]
  <2>1. s.out # <<>> <=> passes
    BY <1>6
  <2>. QED
    BY <1>7, <1>19, <2>1
<1>21. passes => sent[p] = 0
  <2>1. ~Got(p) => ~(sent[p] > 0)
    BY <1>1 DEF Spreading
  <2>2. sent[p] \in 0..2
    BY <1>19
  <2>. QED
    BY <2>1, <2>2 DEF passes
<1>22. \A q \in Pages : sent'[q] > 0 => Got(q)'
  BY <1>1, <1>11, <1>20 DEF Spreading
<1>23. ChangeInPeaceDiesOut'
  BY <1>19, <1>20, <1>21 DEF ChangeInPeaceDiesOut
<1>. QED
  BY <1>1, <1>7, <1>16, <1>17, <1>18, <1>22, <1>23 DEF Spreading

\* Throttles that end, and all other steps.
LEMMA CalmKeeps == IInv /\ CalmInv /\ [Next]_vars => CalmInv'
<1>. SUFFICES ASSUME IInv, CalmInv, [Next]_vars
              PROVE  CalmInv'
  OBVIOUS
<1>1. ASSUME NEW p \in Pages, NEW v \in Values, Set(p, v)
      PROVE  CalmInv'
  BY <1>1, SetSpreads
<1>2. ASSUME NEW p \in Pages, Receive(p)
      PROVE  CalmInv'
  <2>1. CASE calm # None
    BY <1>2, <2>1, ReceiveSpreads DEF CalmInv
  <2>2. CASE calm = None
    BY <1>2, <2>2 DEF Receive, CalmInv, ChangeInPeaceDiesOut
  <2>. QED
    BY <2>1, <2>2
<1>3. ASSUME NEW p \in Pages, NEW x \in Names, ThrottleEnds(p, x)
      PROVE  CalmInv'
  <2>1. \A q \in Pages : recent'[q] # {} => recent[q] # {}
    BY <1>3 DEF ThrottleEnds, IInv, TypeOK
  <2>2. Spreading => Spreading'
    BY <1>3, <2>1 DEF ThrottleEnds, Spreading, Spread, Got, Change, Waiting
  <2>. QED
    BY <1>3, <2>2 DEF ThrottleEnds, CalmInv, ChangeInPeaceDiesOut
<1>4. ASSUME NEW p \in Pages, Connect(p)
      PROVE  CalmInv'
  <2>1. ~Spreading
    BY <1>4 DEF Connect, Spreading
  <2>. QED
    BY <1>4, <2>1 DEF Connect, CalmInv, ChangeInPeaceDiesOut
<1>5. ASSUME NEW p \in Pages, Disconnect(p)
      PROVE  CalmInv'
  BY <1>5 DEF Disconnect, CalmInv, ChangeInPeaceDiesOut
<1>6. CASE UNCHANGED vars
  BY <1>6 DEF vars, CalmInv, ChangeInPeaceDiesOut, Spreading, Spread, Got, Change, Waiting
<1>. QED
  BY <1>1, <1>2, <1>3, <1>4, <1>5, <1>6 DEF Next

----------------------------------------------------------------------------
(* The theorems.                                                              *)

\* Every variable keeps its type.
THEOREM TypeCorrect == Spec => []TypeOK
<1>1. IInv => TypeOK
  BY DEF IInv
<1>. QED
  BY <1>1, Invariance, PTL

\* Nobody tells a page that only feeds others what its own datum is.
THEOREM NobodyOverrulesASource == Spec => SourceRules
<1> DEFINE Rule(p) == (Links[p] = {} /\ \A q \in Pages \ {p} : Data[q] # Data[p]) =>
             (value'[p][Data[p]] # value[p][Data[p]] => \E v \in Values : Set(p, v))
<1>1. ASSUME IInv, [Next]_vars
      PROVE  [\A p \in Pages : Rule(p)]_vars
  <2>. SUFFICES ASSUME NEW p \in Pages, Links[p] = {}, Alone(p),
                       value'[p][Data[p]] # value[p][Data[p]]
                PROVE  \E v \in Values : Set(p, v)
    BY DEF Alone
  <2>1. TypeOK /\ NoEcho
    BY <1>1 DEF IInv
  <2>2. ASSUME NEW q \in Pages \ {p}, NEW s, NEW before, Finish(q, s, before)
        PROVE  FALSE
    BY <2>1, <2>2 DEF Finish, TypeOK
  <2>3. ASSUME Receive(p)
        PROVE  FALSE
    <3>1. inbox[p] \in Seq(Messages) /\ inbox[p] # <<>>
      BY <2>1, <2>3 DEF TypeOK, Receive
    <3>2. 1 \in 1..Len(inbox[p])
      BY <3>1
    <3>. QED
      BY <2>1, <3>2 DEF NoEcho, Proper
  <2>4. ASSUME NEW q \in Pages, NEW v \in Values, Set(q, v)
        PROVE  \E w \in Values : Set(p, w)
    <3>1. Finish(q, Accessor(State(q), Data[q], v, TRUE), inbox)
      BY <2>4 DEF Set
    <3>. QED
      BY <2>2, <2>4, <3>1
  <2>5. ASSUME NEW q \in Pages, Receive(q)
        PROVE  FALSE
    <3>1. \E s, before : Finish(q, s, before)
      BY <2>5 DEF Receive
    <3>. QED
      BY <2>2, <2>3, <2>5, <3>1
  <2>6. ASSUME NEW q \in Pages,
               Connect(q) \/ Disconnect(q) \/ \E x \in Names : ThrottleEnds(q, x)
        PROVE  FALSE
    BY <2>6 DEF Connect, Disconnect, ThrottleEnds
  <2>7. CASE UNCHANGED vars
    BY <2>7 DEF vars
  <2>. QED
    BY <1>1, <2>4, <2>5, <2>6, <2>7 DEF Next
<1>. QED
  BY <1>1, Invariance, PTL DEF Spec, SourceRules

LEMMA CalmHolds == Spec => []CalmInv
<1>1. Init => CalmInv
  BY DEF Init, CalmInv, ChangeInPeaceDiesOut
<1>2. IInv /\ CalmInv /\ [Next]_vars => CalmInv'
  BY CalmKeeps
<1>. QED
  BY <1>1, <1>2, Invariance, PTL DEF Spec

\* A change made in peace that is news to all gets to every page it reaches, whatever
\* the links between the pages: chains, shared data, or pages that feed each other.
THEOREM ChangesArrive == Spec => []ChangeInPeaceArrives
<1>1. IInv /\ CalmInv => ChangeInPeaceArrives
  BY SpreadingArrives DEF IInv
<1>. QED
  BY <1>1, Invariance, CalmHolds, PTL

\* It dies out, whatever the links: no page passes it on twice, nor sends it back
\* to whom it came from.
THEOREM ChangesDieOut == Spec => []ChangeInPeaceDiesOut
<1>1. CalmInv => ChangeInPeaceDiesOut
  BY DEF CalmInv
<1>. QED
  BY <1>1, CalmHolds, PTL
=============================================================================
