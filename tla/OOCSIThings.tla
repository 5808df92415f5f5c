----------------------------- MODULE OOCSIThings -----------------------------
(* Variables of oocsi-web.js in pages of oocsi-things.js: each page shares    *)
(* one datum over the channel of its team and may connect the data of other   *)
(* pages to it.  Pages may feed each other (lampo.html and k0bolt.html do).   *)
(*                                                                            *)
(* Each page keeps, per name, an accessor: a value, and a throttle that drops *)
(* whatever comes within half a second after an update, own and received      *)
(* values alike.  Every throttle ends at a moment of its own.  The server     *)
(* passes a message on to all others that are connected, in one order.        *)
EXTENDS Naturals, Sequences, Functions

CONSTANTS Pages,
          Names,    \* names of variables
          Data,     \* the variable each page shares as its own
          Links,    \* the variables each page connects to its own
          Values,
          None,     \* a variable that was never set: undefined
          MaxUnderWay \* bound: a page sets its datum while fewer messages are under way

ASSUME ThingsAssumption ==
  /\ Data \in [Pages -> Names]
  /\ Links \in [Pages -> SUBSET Names]
  /\ \A p \in Pages : Data[p] \notin Links[p]
  /\ None \notin Values
  /\ MaxUnderWay \in Nat

VARIABLES
  connected,
  inbox,     \* messages under way to each page
  value,     \* value of each accessor
  recent,    \* names whose throttle has not ended
  calm,      \* history: whose change was the last one, in peace and news to all
  sent       \* history: what each page has sent since; counted up to two

vars == <<connected, inbox, value, recent, calm, sent>>

Messages == [name : Names, value : Values]

TypeOK ==
  /\ connected \subseteq Pages
  /\ inbox \in [Pages -> Seq(Messages)]
  /\ value \in [Pages -> [Names -> Values \union {None}]]
  /\ recent \in [Pages -> SUBSET Names]
  /\ calm \in Pages \union {None}
  /\ sent \in [Pages -> 0..2]

UnderWay == FoldFunction(LAMBDA messages, n : Len(messages) + n, 0, inbox)
Settled == \A p \in Pages : inbox[p] = <<>>

\* Nothing is under way, no throttle runs, everybody is there.
Peace == Settled /\ connected = Pages /\ \A p \in Pages : recent[p] = {}

\* The pages that a change of a page reaches: those that connect its datum or
\* share it, and so on.
Feeds(p, q) == Data[p] \in Links[q] \union {Data[q]}
Reached ==
  [w \in Pages |-> {p \in Pages : \A S \in SUBSET Pages :
     w \in S /\ (\A q \in S : \A r \in Pages : Feeds(q, r) => r \in S) => p \in S}]

\* A value that none of them has: a page that has it already passes nothing on.
NewToAll(w, v) == \A p \in Reached[w] : value[p][Data[p]] # v

\* What a page has done in a task: its accessors, and what it has sent.
State(p) == [value |-> value[p], recent |-> recent[p], out |-> <<>>]
Hears(q, m) == m.name \in Links[q] \union {Data[q]}

----------------------------------------------------------------------------
(* Mutations: the definition each is named after, with a plausible slip.  The *)
(* specification uses none of them; a property is kept only if one breaks it. *)

\* Every update is sent.
AccessorSendsAll(s, name, v, broadcast) ==
  IF name \in s.recent
  THEN s
  ELSE [value  |-> [s.value EXCEPT ![name] = v],
        recent |-> s.recent \union {name},
        out    |-> IF broadcast THEN Append(s.out, [name |-> name, value |-> v]) ELSE s.out]

\* Values that were received are sent on.
AccessorSendsOn(s, name, v, broadcast) ==
  IF name \in s.recent
  THEN s
  ELSE [value  |-> [s.value EXCEPT ![name] = v],
        recent |-> s.recent \union {name},
        out    |-> IF v # s.value[name]
                   THEN Append(s.out, [name |-> name, value |-> v]) ELSE s.out]

\* A value from another page is noted only, not passed on.
LinkedSilently(s, name, v, own) ==
  IF name \in s.recent
  THEN s
  ELSE AccessorSendsAll(AccessorSendsAll(s, name, v, FALSE), own, v, FALSE)

----------------------------------------------------------------------------
(* The accessor.                                                              *)

\* accessor(newValue, broadcast): dropped while the throttle runs, sent only if
\* the value is a new one.
Accessor(s, name, v, broadcast) ==
  IF name \in s.recent
  THEN s
  ELSE [value  |-> [s.value EXCEPT ![name] = v],
        recent |-> s.recent \union {name},
        out    |-> IF broadcast /\ v # s.value[name]
                   THEN Append(s.out, [name |-> name, value |-> v]) ELSE s.out]

\* connect and link: an update of the variable, new or not, sets the page's own.
Linked(s, name, v, own) ==
  IF name \in s.recent
  THEN s
  ELSE Accessor(Accessor(s, name, v, FALSE), own, v, TRUE)

\* A task ends.  What it has sent, one message at most, goes to the others, unless
\* the page is not connected; nothing is sent later.
Finish(p, s, before) ==
  /\ value' = [value EXCEPT ![p] = s.value]
  /\ recent' = [recent EXCEPT ![p] = s.recent]
  /\ inbox' = [q \in Pages |->
       IF p \in connected /\ q \in connected \ {p} /\ s.out # <<>> /\ Hears(q, Head(s.out))
       THEN Append(before[q], Head(s.out))
       ELSE before[q]]

----------------------------------------------------------------------------
(* Actions.                                                                   *)

\* The page sets its own datum.
Set(p, v) ==
  /\ Data[p] \notin recent[p]
  /\ UnderWay < MaxUnderWay
  /\ LET s == Accessor(State(p), Data[p], v, TRUE)
         news == Peace /\ NewToAll(p, v)
     IN /\ Finish(p, s, inbox)
        /\ calm' = IF news THEN p ELSE None
        /\ sent' = [q \in Pages |-> IF news /\ q = p THEN 1 ELSE 0]
  /\ UNCHANGED connected

\* A message comes in: the accessor of its name takes it.
Receive(p) ==
  /\ inbox[p] # <<>>
  /\ LET m == Head(inbox[p])
         s == IF m.name = Data[p]
              THEN Accessor(State(p), m.name, m.value, FALSE)
              ELSE Linked(State(p), m.name, m.value, Data[p])
     IN /\ Finish(p, s, [inbox EXCEPT ![p] = Tail(@)])
        /\ sent' = IF calm # None /\ s.out # <<>> /\ sent[p] < 2
                   THEN [sent EXCEPT ![p] = @ + 1] ELSE sent
  /\ UNCHANGED <<connected, calm>>

\* Half a second has passed since an update.
ThrottleEnds(p, name) ==
  /\ name \in recent[p]
  /\ recent' = [recent EXCEPT ![p] = @ \ {name}]
  /\ UNCHANGED <<connected, inbox, value, calm, sent>>

Connect(p) ==
  /\ p \notin connected
  /\ connected' = connected \union {p}
  /\ UNCHANGED <<inbox, value, recent, calm, sent>>

Disconnect(p) ==
  /\ p \in connected
  /\ connected' = connected \ {p}
  /\ inbox' = [inbox EXCEPT ![p] = <<>>]
  /\ calm' = None
  /\ sent' = [q \in Pages |-> 0]
  /\ UNCHANGED <<value, recent>>

----------------------------------------------------------------------------
Init ==
  /\ connected = {}
  /\ inbox = [p \in Pages |-> <<>>]
  /\ value = [p \in Pages |-> [x \in Names |-> None]]
  /\ recent = [p \in Pages |-> {}]
  /\ calm = None
  /\ sent = [p \in Pages |-> 0]

Next ==
  \E p \in Pages :
    \/ \E v \in Values : Set(p, v)
    \/ \E x \in Names : ThrottleEnds(p, x)
    \/ Receive(p) \/ Connect(p) \/ Disconnect(p)

Spec == Init /\ [][Next]_vars

----------------------------------------------------------------------------
(* Safety.                                                                    *)

\* A change made in peace that is news to all gets to every page it feeds, through
\* others and although pages feed each other: throttles drop only what repeats it.
ChangeInPeaceArrives ==
  calm # None /\ Settled =>
    \A p \in Reached[calm] : value[p][Data[p]] = value[calm][Data[calm]]

\* A page that connects nothing and shares its datum with nobody is never told
\* what its own datum is: not even by a page that got the value from it.
SourceRules ==
  [][\A p \in Pages :
       (Links[p] = {} /\ \A q \in Pages \ {p} : Data[q] # Data[p]) =>
         (value'[p][Data[p]] # value[p][Data[p]] => \E v \in Values : Set(p, v))]_vars

\* A change made in peace dies out, although pages feed each other and throttles may
\* end meanwhile: no page passes it on twice.
ChangeInPeaceDiesOut == \A p \in Pages : sent[p] < 2
=============================================================================
