------------------------ MODULE OOCSIGraphVis_proofs ------------------------
(* The feed, the graph and the screen of OOCSIGraphVis, for any names, any    *)
(* events in any order, any filters, any number of feeds and of timers.       *)
(*                                                                            *)
(* The feed: that two of its timers may run at once does not matter, since    *)
(* startEventSource looks at the feed, the observer and the page whenever it  *)
(* is called.                                                                 *)
(*                                                                            *)
(* The graph: GraphInv.  Its nodes are paths, and its links but the           *)
(* subscriptions lead from each of them to the one above, so that findPath    *)
(* can only come by one way.  A name that is learned is drawn with the node   *)
(* that is pushed for it; one that has an empty component pushes none, but    *)
(* each node above a client's has learned a client with all components of     *)
(* those below, so that it tells no filter of one component anything new.     *)
EXTENDS OOCSIGraphVis, FiniteSetTheorems, SequenceTheorems, WellFoundedInduction, TLAPS

----------------------------------------------------------------------------
(* The feed.                                                                  *)

FeedTypes ==
  /\ eventSource \in Sources \union {None}
  /\ open \subseteq Sources
  /\ retries \in 0..MaxRetries
  /\ isVisible \in BOOLEAN
  /\ observed \in BOOLEAN
  /\ hidden \in BOOLEAN

\* FeedFollowsPage is inductive: a feed is opened only by Fresh, in place of none,
\* and what closes the feed of a page that is seen sets a timer.
IInv == FeedTypes /\ FeedFollowsPage

\* The bound on the timers of startEventSource is a number.
LEMMA RetriesBound == MaxRetries \in Nat
  BY GraphVisAssumption

\* What the page holds when it holds no feed is not a feed.
LEMMA NoneIsNoSource == None \notin Sources
  BY GraphVisAssumption

\* A page starts with the feed it should have.
LEMMA Initially == Init => IInv
<1> SUFFICES ASSUME Init PROVE IInv
  OBVIOUS
<1>1. /\ isVisible = ~observed /\ observed \in BOOLEAN /\ hidden \in BOOLEAN /\ retries = 0
      /\ \/ (observed \/ hidden) /\ eventSource = None /\ open = {}
         \/ ~observed /\ ~hidden /\ eventSource \in Sources /\ open = {eventSource}
  BY DEF Init
<1>2. None \notin Sources /\ 0 \in 0..MaxRetries
  BY RetriesBound, NoneIsNoSource
<1>3. CASE (observed \/ hidden) /\ eventSource = None /\ open = {}
  BY <1>1, <1>2, <1>3 DEF IInv, FeedTypes, FeedFollowsPage, OneFeed, FeedOnlyIfSeen, RetryPending
<1>4. CASE ~observed /\ ~hidden /\ eventSource \in Sources /\ open = {eventSource}
  BY <1>1, <1>2, <1>4
     DEF IInv, FeedTypes, FeedFollowsPage, OneFeed, FeedOnlyIfSeen, RetryPending
<1> QED
  BY <1>1, <1>3, <1>4

\* A feed that is opened is the page's own, and no other is open.
LEMMA FreshFacts ==
  ASSUME IInv, eventSource = None, Fresh
  PROVE  eventSource' \in Sources /\ open' = {eventSource'}
<1>1. Sources \ open # {} /\ open = {}
  BY DEF Fresh, IInv, FeedFollowsPage, OneFeed
<1>2. (CHOOSE s \in Sources \ open : TRUE) \in Sources
  BY <1>1
<1> QED
  BY <1>1, <1>2 DEF Fresh

\* startEventSource gives a page that is seen its feed and leaves one that is not
\* without.
LEMMA StartFacts ==
  ASSUME IInv, Start, isVisible' \in BOOLEAN, hidden' \in BOOLEAN,
         open = {} \/ (isVisible' /\ ~hidden')
  PROVE  /\ eventSource' \in Sources \union {None}
         /\ open' = {eventSource'} \ {None}
         /\ open' # {} => isVisible' /\ ~hidden'
         /\ isVisible' /\ ~hidden' => eventSource' # None
<1> USE GraphVisAssumption DEF IInv, FeedTypes, FeedFollowsPage, OneFeed
<1>1. CASE eventSource # None \/ hidden' \/ ~isVisible'
  BY <1>1 DEF Start
<1>2. CASE eventSource = None /\ ~hidden' /\ isVisible'
  <2>1. Fresh
    BY <1>2 DEF Start
  <2>2. eventSource' \in Sources /\ open' = {eventSource'}
    BY <1>2, <2>1, FreshFacts
  <2> QED
    BY <1>2, <2>2
<1> QED
  BY <1>1, <1>2

\* A feed is open only where it is seen, also if neither changes.
LEMMA OpenIsSeen ==
  ASSUME IInv, isVisible' \/ isVisible' = isVisible, hidden' = hidden
  PROVE  open = {} \/ (isVisible' /\ ~hidden')
<1>1. CASE open = {}
  BY <1>1
<1>2. CASE open # {}
  <2>1. isVisible /\ ~hidden
    BY <1>2, Zenon DEF IInv, FeedFollowsPage, FeedOnlyIfSeen
  <2> QED
    BY <2>1, Zenon
<1> QED
  BY <1>1, <1>2

\* stopEventSource leaves no feed open.
LEMMA StopFacts ==
  ASSUME IInv, Stop
  PROVE  eventSource' = None /\ open' = {}
  BY DEF Stop, IInv, FeedFollowsPage, OneFeed

\* The callback of the observer keeps the feed invariant.
LEMMA IntersectKeeps == ASSUME IInv, NEW visible \in BOOLEAN, Intersect(visible) PROVE IInv'
<1> USE DEF IInv, FeedTypes, FeedFollowsPage, OneFeed, FeedOnlyIfSeen, RetryPending
<1>1. CASE visible
  <2>1. Start /\ isVisible' = TRUE /\ hidden' = hidden /\ UNCHANGED <<observed, retries>>
    BY <1>1 DEF Intersect
  <2>2. open = {} \/ (isVisible' /\ ~hidden')
    BY <2>1, OpenIsSeen
  <2>3. /\ eventSource' \in Sources \union {None}
        /\ open' = {eventSource'} \ {None}
        /\ open' # {} => isVisible' /\ ~hidden'
        /\ isVisible' /\ ~hidden' => eventSource' # None
    BY <2>1, <2>2, StartFacts
  <2> QED
    BY <2>1, <2>3, GraphVisAssumption
<1>2. CASE ~visible
  <2>1. Stop /\ isVisible' = FALSE /\ UNCHANGED <<observed, hidden, retries>>
    BY <1>2 DEF Intersect
  <2> QED
    BY <2>1, StopFacts
<1> QED
  BY <1>1, <1>2

\* The visibilitychange listener keeps the feed invariant.
LEMMA VisibilityKeeps == ASSUME IInv, VisibilityChange PROVE IInv'
<1> USE DEF IInv, FeedTypes, FeedFollowsPage, OneFeed, FeedOnlyIfSeen, RetryPending
<1>1. hidden' = ~hidden /\ UNCHANGED <<isVisible, observed, retries>>
  BY DEF VisibilityChange
<1>2. CASE hidden'
  <2>1. Stop
    BY <1>2 DEF VisibilityChange
  <2> QED
    BY <1>1, <1>2, <2>1, StopFacts
<1>3. CASE ~hidden' /\ isVisible
  <2>1. Start
    BY <1>3 DEF VisibilityChange
  <2> QED
    BY <1>1, <1>3, <2>1, StartFacts
<1>4. CASE ~hidden' /\ ~isVisible
  <2>1. UNCHANGED <<eventSource, open>>
    BY <1>4 DEF VisibilityChange
  <2> QED
    BY <1>1, <1>4, <2>1
<1> QED
  BY <1>2, <1>3, <1>4

\* onerror keeps the feed invariant: it closes the feed, and sets a timer if seen.
LEMMA FailureKeeps == ASSUME IInv, NEW s \in Sources, FeedFails(s) PROVE IInv'
<1>1. eventSource' = None /\ open' = {}
  BY StopFacts DEF FeedFails
<1>2. retries' \in 0..MaxRetries /\ (isVisible /\ ~hidden => retries' > 0)
  BY RetriesBound DEF FeedFails, IInv, FeedTypes
<1> QED
  BY <1>1, <1>2
     DEF FeedFails, IInv, FeedTypes, FeedFollowsPage, OneFeed, FeedOnlyIfSeen, RetryPending

\* A timer keeps the feed invariant, also one that finds a feed, or nobody to see it.
LEMMA RetryKeeps == ASSUME IInv, Retry PROVE IInv'
<1> USE DEF IInv, FeedTypes, FeedFollowsPage, OneFeed, FeedOnlyIfSeen, RetryPending
<1>1. Start /\ UNCHANGED <<isVisible, observed, hidden>> /\ retries' \in 0..MaxRetries
  BY RetriesBound DEF Retry
<1>2. open = {} \/ (isVisible' /\ ~hidden')
  BY <1>1, OpenIsSeen
<1>3. /\ eventSource' \in Sources \union {None}
      /\ open' = {eventSource'} \ {None}
      /\ open' # {} => isVisible' /\ ~hidden'
      /\ isVisible' /\ ~hidden' => eventSource' # None
  BY <1>1, <1>2, StartFacts
<1> QED
  BY <1>1, <1>3, GraphVisAssumption

\* The graph, the dots and the filter do not touch the feed.
LEMMA FeedUnchanged == ASSUME IInv, UNCHANGED feedVars PROVE IInv'
  BY DEF IInv, FeedTypes, FeedFollowsPage, OneFeed, FeedOnlyIfSeen, RetryPending, feedVars

\* The feed invariant holds throughout, whatever the graph does meanwhile.
LEMMA Inductive == Spec => []IInv
<1>1. ASSUME IInv, [Next]_vars PROVE IInv'
  <2>1. ASSUME NEW s \in Sources, NEW client \in Clients, NEW channel \in Channels,
               NEW subs \in SubscriberLists, SendMessage(s, client, channel, subs)
        PROVE  UNCHANGED feedVars
    BY <2>1 DEF SendMessage
  <2>2. ASSUME NEW t \in later, AddSubscribers(t) PROVE UNCHANGED feedVars
    BY <2>2 DEF AddSubscribers
  <2>3. ASSUME NEW path \in BagToSet(dots), DotArrives(path) PROVE UNCHANGED feedVars
    BY <2>3 DEF DotArrives
  <2>4. ASSUME NEW f \in Filters \union {NoFilter}, FilterInput(f) PROVE UNCHANGED feedVars
    BY <2>4 DEF FilterInput
  <2>5. ASSUME UNCHANGED vars PROVE UNCHANGED feedVars
    BY <2>5 DEF vars
  <2> QED
    BY <1>1, <2>1, <2>2, <2>3, <2>4, <2>5, FeedUnchanged, IntersectKeeps, VisibilityKeeps,
       FailureKeeps, RetryKeeps DEF Next
<1> QED
  BY <1>1, Initially, PTL DEF Spec

\* startEventSource, stopEventSource, onerror and the timers it sets keep the page's
\* one feed open exactly while the page is seen, or a timer that will open it.
THEOREM FeedFollows == Spec => []FeedFollowsPage
  BY Inductive, PTL DEF IInv

----------------------------------------------------------------------------
(* Folds.  Induction over the naturals is taken through WFMin, which speaks   *)
(* of sets, and not of predicates.                                            *)

\* Induction up to n: a set with 0, and with k whenever with k - 1, has all of 0..n.
LEMMA Climb ==
  ASSUME NEW n \in Nat, NEW T, 0 \in T, \A k \in 1..n : k - 1 \in T => k \in T
  PROVE  \A k \in 0..n : k \in T
<1> SUFFICES ASSUME (0..n) \ T # {} PROVE FALSE
  OBVIOUS
<1> DEFINE Less == {pair \in Nat \X Nat : pair[1] < pair[2]}
<1>1. IsWellFoundedOn(Less, Nat)
  BY NatLessThanWellFounded, Zenon DEF OpToRel
<1>2. \E x \in (0..n) \ T : \A y \in (0..n) \ T : <<y, x>> \notin Less
  <2>1. (0..n) \ T \subseteq Nat
    OBVIOUS
  <2> HIDE DEF Less
  <2> QED
    BY <1>1, <2>1, WFMin
<1>3. PICK x \in (0..n) \ T : \A y \in (0..n) \ T : <<y, x>> \notin Less
  BY <1>2
<1>4. x - 1 \in (0..n) \ T /\ x \in Nat /\ x - 1 \in Nat
  BY <1>3
<1>5. <<x - 1, x>> \in Less
  BY <1>4
<1> HIDE DEF Less
<1> QED
  BY <1>3, <1>4, <1>5

\* A function that starts with a and takes its step from each value to the next.
StepsOn(A, n) == [A \X (1..n) -> A]
IsFold(A, a, n, step, f) ==
  f \in [0..n -> A] /\ f[0] = a /\ \A k \in 1..n : f[k] = step[<<f[k - 1], k>>]

\* A recursive function over 0..n exists, whatever its step is.
LEMMA FoldExists ==
  ASSUME NEW A, NEW a \in A, NEW n \in Nat, NEW step \in StepsOn(A, n)
  PROVE  \E f : IsFold(A, a, n, step, f)
<1> DEFINE Is(f, m) == f[0] = a /\ \A k \in 1..m : f[k] = step[<<f[k - 1], k>>]
           T == {m \in 0..n : \E f \in [0..m -> A] : Is(f, m)}
<1>1. 0 \in T
  <2>1. [k \in 0..0 |-> a] \in [0..0 -> A] /\ Is([k \in 0..0 |-> a], 0)
    OBVIOUS
  <2> HIDE DEF Is
  <2> QED
    BY <2>1
<1>2. ASSUME NEW m \in 1..n, m - 1 \in T PROVE m \in T
  <2>1. PICK f \in [0..(m - 1) -> A] : Is(f, m - 1)
    BY <1>2
  <2> DEFINE h == [k \in 0..m |-> IF k = m THEN step[<<f[m - 1], m>>] ELSE f[k]]
  <2>2. step[<<f[m - 1], m>>] \in A
    <3>1. <<f[m - 1], m>> \in A \X (1..n)
      OBVIOUS
    <3> QED
      BY <3>1 DEF StepsOn
  <2>3. h \in [0..m -> A]
    BY <2>2
  <2>4. h[0] = a
    BY <2>1
  <2>5. ASSUME NEW k \in 1..m PROVE h[k] = step[<<h[k - 1], k>>]
    <3>1. h[k - 1] = f[k - 1]
      OBVIOUS
    <3>2. CASE k = m
      <4>1. h[k] = step[<<f[m - 1], m>>]
        BY <3>2
      <4> QED
        BY <3>1, <3>2, <4>1
    <3>3. CASE k # m
      <4>1. k \in 1..(m - 1)
        BY <3>3
      <4>2. h[k] = f[k] /\ f[k] = step[<<f[k - 1], k>>]
        BY <2>1, <3>3, <4>1
      <4> QED
        BY <3>1, <4>2
    <3> QED
      BY <3>2, <3>3
  <2> HIDE DEF h
  <2>6. Is(h, m)
    BY <2>4, <2>5
  <2> QED
    BY <2>3, <2>6
<1> HIDE DEF T
<1>3. n \in T
  BY <1>1, <1>2, Climb
<1> QED
  BY <1>3 DEF T, IsFold

----------------------------------------------------------------------------
(* Nodes are paths, and the links that are no subscriptions make them a tree. *)

Path == Seq(STRING)
NodesOf(g) == DOMAIN g.chains
\* p is a proper prefix of n: its node is above that of n.
Above(p, n) == Len(p) < Len(n) /\ \A i \in 1..Len(p) : p[i] = n[i]
Up(n) == IF Len(n) <= 2 THEN Center ELSE SubSeq(n, 1, Len(n) - 1)

IsTree(g) ==
  /\ IsFiniteSet(NodesOf(g)) /\ NodesOf(g) \subseteq Path /\ Center \in NodesOf(g)
  /\ \A n \in NodesOf(g) \ {Center} : Len(n) >= 2 /\ n[1] \in {"clients", "channels"}
  /\ \A n \in NodesOf(g), p \in Path : Len(p) >= 2 /\ Above(p, n) => p \in NodesOf(g)
  /\ \A n \in NodesOf(g) \ {Center} : \E l \in g.links :
       l.type # "subscription" /\ l.source = n /\ l.target = Up(n)
  /\ \A l \in g.links :
       l.type # "subscription" => l.source \in NodesOf(g) \ {Center} /\ l.target = Up(l.source)

\* What a prefix of a path is.
LEMMA PrefixFacts ==
  ASSUME NEW n \in Path, NEW k \in 0..Len(n)
  PROVE  /\ SubSeq(n, 1, k) \in Path /\ Len(SubSeq(n, 1, k)) = k
         /\ \A i \in 1..k : SubSeq(n, 1, k)[i] = n[i]
         /\ k < Len(n) => Above(SubSeq(n, 1, k), n)
<1>1. \A i \in 1..k : n[i] \in STRING
  BY DEF Path
<1>2. /\ SubSeq(n, 1, k) \in Path /\ Len(SubSeq(n, 1, k)) = k
      /\ \A i \in 1..k : SubSeq(n, 1, k)[i] = n[i]
  BY <1>1, SubSeqProperties DEF Path
<1> QED
  BY <1>2 DEF Above

\* Arithmetic that the provers want told.
LEMMA TwoOrMore == \A k \in Nat : (k >= 2 => k = 2 \/ k > 2) /\ (k > 2 => k # 2)
  OBVIOUS

\* Paths with the same components are the same.
LEMMA SamePath ==
  ASSUME NEW n \in Path, NEW m \in Path, Len(n) = Len(m), \A i \in 1..Len(n) : n[i] = m[i]
  PROVE  n = m
  BY SeqEqual DEF Path

\* The center is the path without components, and the only one.
LEMMA CenterFacts ==
  /\ Center \in Path /\ Len(Center) = 0
  /\ \A n \in Path : Len(n) \in Nat /\ (Len(n) = 0 => n = Center)
<1>1. Center \in Path /\ Len(Center) = 0
  BY DEF Center, Path
<1>2. \A n \in Path : Len(n) \in Nat
  BY DEF Path
<1>3. ASSUME NEW n \in Path, Len(n) = 0 PROVE n = Center
  BY <1>1, <1>3, SamePath
<1> QED
  BY <1>1, <1>2, <1>3

\* What is above a node of two components or more: the center, or one component less.
LEMMA UpFacts ==
  ASSUME NEW n \in Path, Len(n) >= 2
  PROVE  /\ Up(n) \in Path
         /\ Len(n) = 2 => Up(n) = Center
         /\ Len(n) > 2 => Len(Up(n)) = Len(n) - 1
         /\ Above(Up(n), n)
         /\ Len(Center) = 0 /\ Center \in Path
<1>1. Len(Center) = 0 /\ Center \in Path /\ Len(n) \in Nat
  BY CenterFacts
<1>2. Len(n) = 2 \/ Len(n) > 2
  BY <1>1, TwoOrMore
<1>3. CASE Len(n) = 2
  BY <1>1, <1>3 DEF Up, Above
<1>4. CASE Len(n) > 2
  <2>1. Up(n) = SubSeq(n, 1, Len(n) - 1) /\ Len(n) - 1 \in 0..Len(n) /\ Len(n) - 1 < Len(n)
    BY <1>1, <1>4 DEF Up
  <2>2. Up(n) \in Path /\ Len(Up(n)) = Len(n) - 1 /\ Above(Up(n), n)
    BY <2>1, PrefixFacts
  <2>3. Len(n) # 2
    BY <1>1, <1>4, TwoOrMore
  <2> QED
    BY <1>1, <2>2, <2>3
<1> QED
  BY <1>2, <1>3, <1>4

\* In a tree of paths the node above a node is a node.
LEMMA UpIsNode ==
  ASSUME NEW g, IsTree(g), NEW n \in NodesOf(g) \ {Center}
  PROVE  n \in Path /\ Len(n) >= 2 /\ Up(n) \in NodesOf(g)
<1>1. n \in Path /\ Len(n) >= 2 /\ Len(n) \in Nat
  BY CenterFacts DEF IsTree
<1>2. Len(n) = 2 \/ Len(n) > 2
  BY <1>1, TwoOrMore
<1>3. CASE Len(n) = 2
  BY <1>1, <1>3, UpFacts DEF IsTree
<1>4. CASE Len(n) > 2
  <2>1. Up(n) \in Path /\ Len(Up(n)) = Len(n) - 1 /\ Above(Up(n), n)
    BY <1>1, <1>4, UpFacts
  <2>2. Len(Up(n)) >= 2
    BY <1>1, <1>4, <2>1
  <2> QED
    BY <1>1, <2>1, <2>2 DEF IsTree
<1> QED
  BY <1>1, <1>2, <1>3, <1>4

\* A node is next to those below it and to the one above.
LEMMA NearFacts ==
  ASSUME NEW g, IsTree(g), NEW n \in NodesOf(g), NEW m \in NodesOf(g)
  PROVE  m \in Near(g, n) <=> (n # Center /\ m = Up(n)) \/ (m # Center /\ n = Up(m))
<1>1. ASSUME m \in Near(g, n)
      PROVE  (n # Center /\ m = Up(n)) \/ (m # Center /\ n = Up(m))
  <2>1. PICK l \in g.links : l.type # "subscription" /\ {l.source, l.target} = {m, n}
    BY <1>1 DEF Near
  <2>2. l.source # Center /\ l.target = Up(l.source)
    BY <2>1 DEF IsTree
  <2>3. (l.source = n /\ l.target = m) \/ (l.source = m /\ l.target = n)
    BY <2>1
  <2> QED
    BY <2>2, <2>3
<1>2. ASSUME n # Center, m = Up(n) PROVE m \in Near(g, n)
  <2>1. PICK l \in g.links : l.type # "subscription" /\ l.source = n /\ l.target = Up(n)
    BY <1>2 DEF IsTree
  <2> QED
    BY <1>2, <2>1 DEF Near, NodesOf
<1>3. ASSUME m # Center, n = Up(m) PROVE m \in Near(g, n)
  <2>1. PICK l \in g.links : l.type # "subscription" /\ l.source = m /\ l.target = Up(m)
    BY <1>3 DEF IsTree
  <2> QED
    BY <1>3, <2>1 DEF Near, NodesOf
<1> QED
  BY <1>1, <1>2, <1>3

\* The next node on the way from m to c: down while m is above c, and else up.
Toward(c, m) ==
  CASE m = Center -> SubSeq(c, 1, 2)
    [] m # Center /\ Above(m, c) -> SubSeq(c, 1, Len(m) + 1)
    [] OTHER -> Up(m)

\* From the node above c, or above one that is above c, the way leads back down.
LEMMA TowardDown ==
  ASSUME NEW c \in Path, NEW x \in Path, Len(x) >= 2, x = c \/ Above(x, c)
  PROVE  Toward(c, Up(x)) = x
<1>1. Len(c) \in Nat /\ Len(x) \in Nat /\ Len(x) <= Len(c) /\ \A i \in 1..Len(x) : x[i] = c[i]
  BY DEF Above, Path
<1>2. SubSeq(c, 1, Len(x)) = x
  <2>1. Len(x) \in 0..Len(c)
    BY <1>1
  <2> DEFINE s == SubSeq(c, 1, Len(x))
  <2>2. s \in Path /\ Len(s) = Len(x) /\ \A i \in 1..Len(x) : s[i] = c[i]
    BY <2>1, PrefixFacts
  <2> HIDE DEF s
  <2>3. s = x
    BY <1>1, <2>2, SamePath
  <2> QED
    BY <2>3 DEF s
<1>3. CASE Len(x) = 2
  <2>1. Up(x) = Center
    BY <1>3, UpFacts
  <2> QED
    BY <1>2, <1>3, <2>1 DEF Toward
<1>4. CASE Len(x) > 2
  <2>1. Up(x) \in Path /\ Len(Up(x)) = Len(x) - 1 /\ Above(Up(x), x) /\ Up(x) # Center
    BY <1>1, <1>4, UpFacts, CenterFacts
  <2>2. Above(Up(x), c)
    BY <1>1, <2>1 DEF Above
  <2> QED
    BY <1>1, <1>2, <2>1, <2>2 DEF Toward
<1>5. Len(x) = 2 \/ Len(x) > 2
  BY <1>1, TwoOrMore
<1> QED
  BY <1>3, <1>4, <1>5

\* Of two neighbours, one is the next on the way from the other.
LEMMA Neighbours ==
  ASSUME NEW g, IsTree(g), NEW c \in NodesOf(g) \ {Center},
         NEW n \in NodesOf(g) \ {Center}
  PROVE  \/ Up(n) # c /\ Toward(c, Up(n)) = n
         \/ n # c /\ Toward(c, n) = Up(n)
<1>1. c \in Path /\ n \in Path /\ Len(c) >= 2 /\ Len(n) >= 2
  BY UpIsNode
<1>2. CASE n = c \/ Above(n, c)
  <2>1. Toward(c, Up(n)) = n
    BY <1>1, <1>2, TowardDown
  <2>2. Above(Up(n), n)
    BY <1>1, UpFacts
  <2>3. Up(n) # c
    BY <1>1, <1>2, <2>2, UpFacts DEF Above, Path
  <2> QED
    BY <2>1, <2>3
<1>3. CASE n # c /\ ~Above(n, c)
  BY <1>3 DEF Toward
<1> QED
  BY <1>2, <1>3

----------------------------------------------------------------------------
(* findPath.                                                                  *)

\* The search from c: whoever was seen has the next node towards c as its parent.
SearchOK(g, c, parentMap) ==
  /\ parentMap = [m \in DOMAIN parentMap |-> parentMap[m]]
  /\ DOMAIN parentMap \subseteq NodesOf(g)
  /\ c \in DOMAIN parentMap /\ parentMap[c] = None
  /\ \A m \in DOMAIN parentMap \ {c} :
       parentMap[m] = Toward(c, m) /\ Toward(c, m) \in DOMAIN parentMap

\* One round of the search: old parents stay, new ones were seen and are neighbours.
LEMMA ExploreFacts ==
  ASSUME NEW g, NEW p
  PROVE  /\ DOMAIN Explore(g, p) = DOMAIN p \union UNION {Near(g, n) : n \in DOMAIN p}
         /\ \A m \in DOMAIN p : Explore(g, p)[m] = p[m]
         /\ \A m \in DOMAIN Explore(g, p) \ DOMAIN p :
              Explore(g, p)[m] \in DOMAIN p /\ m \in Near(g, Explore(g, p)[m])
         /\ Explore(g, p) = [m \in DOMAIN Explore(g, p) |-> Explore(g, p)[m]]
<1> DEFINE near == UNION {Near(g, n) : n \in DOMAIN p}
           fresh == near \ DOMAIN p
           parent(m) == CHOOSE n \in DOMAIN p : m \in Near(g, n)
<1>1. ASSUME NEW m \in near PROVE parent(m) \in DOMAIN p /\ m \in Near(g, parent(m))
  <2>1. \E n \in DOMAIN p : m \in Near(g, n)
    OBVIOUS
  <2> QED
    BY <2>1
<1>2. Explore(g, p) = [m \in DOMAIN p \union fresh |-> IF m \in DOMAIN p THEN p[m] ELSE parent(m)]
  BY DEF Explore
<1> HIDE DEF near, parent
<1>3. DOMAIN Explore(g, p) = DOMAIN p \union near
  BY <1>2
<1>4. /\ \A m \in DOMAIN p : Explore(g, p)[m] = p[m]
      /\ \A m \in DOMAIN Explore(g, p) \ DOMAIN p :
           Explore(g, p)[m] \in DOMAIN p /\ m \in Near(g, Explore(g, p)[m])
      /\ Explore(g, p) = [m \in DOMAIN Explore(g, p) |-> Explore(g, p)[m]]
  BY <1>1, <1>2
<1> QED
  BY <1>3, <1>4, Zenon DEF near

\* A round of the search from c keeps each parent the next node towards c.
LEMMA ExploreKeeps ==
  ASSUME NEW g, IsTree(g), NEW c \in NodesOf(g) \ {Center}, NEW p, SearchOK(g, c, p)
  PROVE  SearchOK(g, c, Explore(g, p))
<1> DEFINE q == Explore(g, p)
<1>0. /\ DOMAIN q = DOMAIN p \union UNION {Near(g, n) : n \in DOMAIN p}
      /\ \A m \in DOMAIN p : q[m] = p[m]
      /\ \A m \in DOMAIN q \ DOMAIN p : q[m] \in DOMAIN p /\ m \in Near(g, q[m])
      /\ q = [m \in DOMAIN q |-> q[m]]
  BY ExploreFacts, Zenon
<1> HIDE DEF q
<1>1. DOMAIN q \subseteq NodesOf(g) /\ DOMAIN p \subseteq DOMAIN q
  <2>1. \A n : Near(g, n) \subseteq NodesOf(g)
    BY DEF Near, NodesOf
  <2>2. UNION {Near(g, n) : n \in DOMAIN p} \subseteq NodesOf(g)
    BY <2>1
  <2> QED
    BY <1>0, <2>2 DEF SearchOK
<1>2. ASSUME NEW m \in DOMAIN q \ DOMAIN p
      PROVE  q[m] = Toward(c, m) /\ q[m] \in DOMAIN p
  <2>1. q[m] \in DOMAIN p /\ m \in Near(g, q[m])
    BY <1>0
  <2>2. q[m] \in NodesOf(g) /\ m \in NodesOf(g)
    BY <1>1, <2>1
  <2> DEFINE n == q[m]
  <2>3. (n # Center /\ m = Up(n)) \/ (m # Center /\ n = Up(m))
    BY <2>1, <2>2, NearFacts
  <2> HIDE DEF n
  <2>4. (n # c /\ Toward(c, n) = m) \/ (m # c /\ Toward(c, m) = n)
    BY <2>2, <2>3, Neighbours DEF n
  <2>5. ~(n # c /\ Toward(c, n) = m)
    BY <2>1 DEF SearchOK, n
  <2> QED
    BY <2>1, <2>4, <2>5 DEF n
<1>3. c \in DOMAIN q /\ q[c] = None
  BY <1>0, <1>1 DEF SearchOK
<1>4. ASSUME NEW m \in DOMAIN q \ {c}
      PROVE  q[m] = Toward(c, m) /\ Toward(c, m) \in DOMAIN q
  BY <1>0, <1>1, <1>2 DEF SearchOK
<1>5. SearchOK(g, c, q)
  BY <1>0, <1>1, <1>3, <1>4 DEF SearchOK
<1> QED
  BY <1>5 DEF q

\* The rounds of the search follow each other.
LEMMA SearchedFacts ==
  ASSUME NEW g, NEW c \in NodesOf(g), NEW size \in Nat
  PROVE  /\ Searched(g, c, size)[0] = [n \in {c} |-> None]
         /\ \A k \in 1..size : Searched(g, c, size)[k] = Explore(g, Searched(g, c, size)[k - 1])
<1> DEFINE A == UNION {[D -> NodesOf(g) \union {None}] : D \in SUBSET NodesOf(g)}
           a == [n \in {c} |-> None]
           F(d) == [k \in 0..size |-> IF k = 0 THEN a ELSE Explore(g, d[k - 1])]
           step == [x \in A \X (1..size) |-> Explore(g, x[1])]
<1>1. a \in A
  <2>1. a \in [{c} -> NodesOf(g) \union {None}] /\ {c} \in SUBSET NodesOf(g)
    OBVIOUS
  <2> QED
    BY <2>1
<1>2. ASSUME NEW p \in A PROVE Explore(g, p) \in A
  <2>1. DOMAIN p \subseteq NodesOf(g) /\ \A m \in DOMAIN p : p[m] \in NodesOf(g) \union {None}
    OBVIOUS
  <2>2. \A n : Near(g, n) \subseteq NodesOf(g)
    BY DEF Near, NodesOf
  <2> DEFINE q == Explore(g, p)
  <2> HIDE DEF A, q
  <2>3. DOMAIN q \subseteq NodesOf(g)
    BY <2>1, <2>2, ExploreFacts DEF q
  <2>4. \A m \in DOMAIN q : q[m] \in NodesOf(g) \union {None}
    BY <2>1, ExploreFacts DEF q
  <2>5. q = [m \in DOMAIN q |-> q[m]]
    BY ExploreFacts DEF q
  <2>6. q \in [DOMAIN q -> NodesOf(g) \union {None}]
    BY <2>4, <2>5
  <2> QED
    BY <2>3, <2>6 DEF A, q
<1>3. step \in StepsOn(A, size)
  BY <1>2 DEF StepsOn
<1> HIDE DEF A, a
<1>4. PICK d : IsFold(A, a, size, step, d)
  <2> HIDE DEF step
  <2> QED
    BY <1>1, <1>3, FoldExists
<1>5. d = F(d)
  <2>1. d \in [0..size -> A] /\ d[0] = a
    BY <1>4 DEF IsFold
  <2>2. ASSUME NEW k \in 1..size PROVE d[k] = Explore(g, d[k - 1])
    <3>1. <<d[k - 1], k>> \in A \X (1..size)
      BY <2>1
    <3>2. d[k] = step[<<d[k - 1], k>>]
      BY <1>4 DEF IsFold
    <3> QED
      BY <3>1, <3>2
  <2> QED
    BY <2>1, <2>2
<1>6. Searched(g, c, size) = CHOOSE x : x = F(x)
  BY DEF Searched, a
<1>7. Searched(g, c, size) = F(Searched(g, c, size))
  <2> HIDE DEF F
  <2> QED
    BY <1>5, <1>6
<1> DEFINE s == Searched(g, c, size)
<1> HIDE DEF s
<1>8. s = [k \in 0..size |-> IF k = 0 THEN a ELSE Explore(g, s[k - 1])]
  BY <1>7 DEF s
<1>9. s[0] = a /\ \A k \in 1..size : s[k] = Explore(g, s[k - 1])
  BY <1>8
<1> QED
  BY <1>9 DEF s, a

\* A function on 1..n is a sequence.
LEMMA FunctionIsSeq ==
  ASSUME NEW S, NEW n \in Nat, NEW f \in [1..n -> S]
  PROVE  f \in Seq(S) /\ Len(f) = n
  OBVIOUS

\* What two sequences in a row are.
LEMMA ConcatFacts ==
  ASSUME NEW S, NEW s \in Seq(S), NEW t \in Seq(S)
  PROVE  /\ s \o t \in Seq(S) /\ Len(s \o t) = Len(s) + Len(t)
         /\ \A i \in 1..Len(s) : (s \o t)[i] = s[i]
         /\ \A i \in 1..Len(t) : (s \o t)[Len(s) + i] = t[i]
<1>1. /\ s \o t \in Seq(S) /\ Len(s \o t) = Len(s) + Len(t)
      /\ \A i \in 1..Len(s) + Len(t) : (s \o t)[i] = IF i <= Len(s) THEN s[i] ELSE t[i - Len(s)]
      /\ Len(s) \in Nat /\ Len(t) \in Nat
  BY ConcatProperties
<1>2. ASSUME NEW i \in 1..Len(s) PROVE (s \o t)[i] = s[i]
  BY <1>1
<1>3. ASSUME NEW i \in 1..Len(t) PROVE (s \o t)[Len(s) + i] = t[i]
  <2>1. Len(s) + i \in 1..Len(s) + Len(t) /\ ~(Len(s) + i <= Len(s)) /\ (Len(s) + i) - Len(s) = i
    BY <1>1
  <2> QED
    BY <1>1, <2>1
<1> QED
  BY <1>1, <1>2, <1>3

\* What two sequences with an element between them are.
LEMMA JoinFacts ==
  ASSUME NEW S, NEW s \in Seq(S), NEW x \in S, NEW t \in Seq(S), NEW a \in Nat, NEW b \in Nat,
         Len(s) = a, Len(t) = b
  PROVE  /\ s \o <<x>> \o t \in Seq(S) /\ Len(s \o <<x>> \o t) = a + b + 1
         /\ \A i \in 1..a : (s \o <<x>> \o t)[i] = s[i]
         /\ (s \o <<x>> \o t)[a + 1] = x
         /\ \A i \in 1..b : (s \o <<x>> \o t)[a + 1 + i] = t[i]
<1>1. PICK u : u = s \o <<x>>
  OBVIOUS
<1>2. u \in Seq(S) /\ Len(u) = a + 1 /\ u[a + 1] = x /\ \A i \in 1..a : u[i] = s[i]
  <2>1. <<x>> \in Seq(S) /\ Len(<<x>>) = 1 /\ 1 \in 1..1 /\ <<x>>[1] = x
    OBVIOUS
  <2>2. u \in Seq(S) /\ Len(u) = Len(s) + Len(<<x>>)
    BY <1>1, <2>1, ConcatFacts
  <2>3. \A i \in 1..Len(s) : u[i] = s[i]
    BY <1>1, <2>1, ConcatFacts
  <2>4. \A i \in 1..Len(<<x>>) : u[Len(s) + i] = <<x>>[i]
    BY <1>1, <2>1, ConcatFacts
  <2>5. u[Len(s) + 1] = x
    BY <2>1, <2>4
  <2> QED
    BY <2>1, <2>2, <2>3, <2>5
<1>3. PICK r : r = u \o t
  OBVIOUS
<1>4. r \in Seq(S) /\ Len(r) = Len(u) + Len(t)
  BY <1>2, <1>3, ConcatFacts
<1>5. \A i \in 1..Len(u) : r[i] = u[i]
  BY <1>2, <1>3, ConcatFacts
<1>6. ASSUME NEW i \in 1..Len(t) PROVE r[Len(u) + i] = t[i]
  <2>1. /\ \A k \in 1..Len(u) + Len(t) : r[k] = IF k <= Len(u) THEN u[k] ELSE t[k - Len(u)]
        /\ Len(u) \in Nat /\ Len(t) \in Nat
    BY <1>2, <1>3, ConcatProperties
  <2>2. Len(u) + i \in 1..Len(u) + Len(t) /\ ~(Len(u) + i <= Len(u)) /\ (Len(u) + i) - Len(u) = i
    BY <2>1
  <2> QED
    BY <2>1, <2>2
<1>7. /\ Len(r) = a + b + 1
      /\ \A i \in 1..a : r[i] = s[i]
      /\ r[a + 1] = x
      /\ \A i \in 1..b : r[a + 1 + i] = t[i]
  BY <1>2, <1>4, <1>5, <1>6
<1> QED
  BY <1>1, <1>3, <1>4, <1>7

\* Way(c, h): up from c to the center, down to h, each node next to the last one.
WayUp(c, i) == SubSeq(c, 1, Len(c) + 1 - i)
WayDown(h, j) == SubSeq(h, 1, j + 1)

\* What the elements of the way from a client to a channel are.
LEMMA WayFacts ==
  ASSUME NEW c \in Path, NEW h \in Path, Len(c) >= 2, Len(h) >= 2
  PROVE  /\ Way(c, h) \in Seq(Path)
         /\ Len(Way(c, h)) = Len(c) + Len(h) - 1
         /\ \A i \in 1..Len(c) - 1 : Way(c, h)[i] = WayUp(c, i)
         /\ Way(c, h)[Len(c)] = Center
         /\ \A i \in 1..Len(h) - 1 : Way(c, h)[Len(c) + i] = WayDown(h, i)
<1> DEFINE up == [i \in 1..Len(c) - 1 |-> SubSeq(c, 1, Len(c) + 1 - i)]
           down == [i \in 1..Len(h) - 1 |-> SubSeq(h, 1, i + 1)]
<1>1. Len(c) \in Nat /\ Len(h) \in Nat /\ Center \in Path
  BY CenterFacts
<1>2. up \in Seq(Path) /\ Len(up) = Len(c) - 1 /\ \A i \in 1..Len(c) - 1 : up[i] = WayUp(c, i)
  <2>1. ASSUME NEW i \in 1..Len(c) - 1 PROVE SubSeq(c, 1, Len(c) + 1 - i) \in Path
    <3>1. Len(c) + 1 - i \in 0..Len(c)
      BY <1>1
    <3> QED
      BY <3>1, PrefixFacts
  <2>2. up \in [1..Len(c) - 1 -> Path] /\ Len(c) - 1 \in Nat
    BY <1>1, <2>1
  <2>3. \A i \in 1..Len(c) - 1 : up[i] = WayUp(c, i)
    BY DEF WayUp
  <2> HIDE DEF up
  <2> QED
    BY <2>2, <2>3, FunctionIsSeq
<1>3. down \in Seq(Path) /\ Len(down) = Len(h) - 1 /\ \A i \in 1..Len(h) - 1 : down[i] = WayDown(h, i)
  <2>1. ASSUME NEW i \in 1..Len(h) - 1 PROVE SubSeq(h, 1, i + 1) \in Path
    <3>1. i + 1 \in 0..Len(h)
      BY <1>1
    <3> QED
      BY <3>1, PrefixFacts
  <2>2. down \in [1..Len(h) - 1 -> Path] /\ Len(h) - 1 \in Nat
    BY <1>1, <2>1
  <2>3. \A i \in 1..Len(h) - 1 : down[i] = WayDown(h, i)
    BY DEF WayDown
  <2> HIDE DEF down
  <2> QED
    BY <2>2, <2>3, FunctionIsSeq
<1>4. Way(c, h) = up \o <<Center>> \o down
  BY DEF Way
<1> HIDE DEF up, down
<1> DEFINE w == Way(c, h)
<1>5. Len(c) - 1 \in Nat /\ Len(h) - 1 \in Nat
  BY <1>1
<1>6. PICK a \in Nat, b \in Nat : a = Len(c) - 1 /\ b = Len(h) - 1
  BY <1>5
<1>7. /\ w \in Seq(Path) /\ Len(w) = a + b + 1
      /\ \A i \in 1..a : w[i] = up[i]
      /\ w[a + 1] = Center
      /\ \A i \in 1..b : w[a + 1 + i] = down[i]
  <2>1. up \in Seq(Path) /\ down \in Seq(Path) /\ Len(up) = a /\ Len(down) = b
    BY <1>2, <1>3, <1>6
  <2> QED
    BY <1>1, <1>4, <2>1, JoinFacts
<1> HIDE DEF w
<1>8. a + 1 = Len(c) /\ a + b + 1 = Len(c) + Len(h) - 1
  BY <1>1, <1>6
<1>9. \A i \in 1..Len(c) - 1 : w[i] = WayUp(c, i)
  BY <1>2, <1>6, <1>7
<1>10. \A i \in 1..Len(h) - 1 : w[Len(c) + i] = WayDown(h, i)
  BY <1>3, <1>6, <1>7, <1>8
<1>11. w[Len(c)] = Center /\ Len(w) = Len(c) + Len(h) - 1
  BY <1>7, <1>8
<1> QED
  BY <1>7, <1>9, <1>10, <1>11 DEF w

----------------------------------------------------------------------------
(* The way from a client to a channel is the one that findPath comes back by. *)

\* The nodes of a path are each above the next.
LEMMA BeginFacts ==
  ASSUME NEW n \in Path, NEW k \in 2..Len(n)
  PROVE  LET b == SubSeq(n, 1, k) IN
         /\ b \in Path /\ Len(b) = k /\ b[1] = n[1] /\ (b = n \/ Above(b, n))
         /\ Up(b) = IF k = 2 THEN Center ELSE SubSeq(n, 1, k - 1)
<1> DEFINE b == SubSeq(n, 1, k)
<1>1. k \in Nat /\ Len(n) \in Nat /\ k \in 0..Len(n) /\ k - 1 \in 0..Len(n) /\ 1 \in 1..k
  BY CenterFacts
<1>2. b \in Path /\ Len(b) = k /\ (\A i \in 1..k : b[i] = n[i]) /\ (k < Len(n) => Above(b, n))
  BY <1>1, PrefixFacts
<1>3. b = n \/ Above(b, n)
  <2>1. k = Len(n) => b = n
    <3> HIDE DEF b
    <3> QED
      BY <1>2, SamePath
  <2> QED
    BY <1>2, <2>1
<1>4. Up(b) = IF k = 2 THEN Center ELSE SubSeq(n, 1, k - 1)
  <2>1. CASE k = 2
    BY <1>2, <2>1 DEF Up
  <2>2. CASE k # 2
    <3>1. k > 2 /\ k - 1 \in 0..k /\ k - 1 \in 0..Len(n)
      BY <1>1, <2>2
    <3>2. Up(b) = SubSeq(b, 1, k - 1)
      BY <1>1, <1>2, <3>1 DEF Up
    <3>3. /\ SubSeq(b, 1, k - 1) \in Path /\ Len(SubSeq(b, 1, k - 1)) = k - 1
          /\ \A i \in 1..k - 1 : SubSeq(b, 1, k - 1)[i] = b[i]
      <4> HIDE DEF b
      <4> QED
        BY <1>2, <3>1, PrefixFacts
    <3>4. /\ SubSeq(n, 1, k - 1) \in Path /\ Len(SubSeq(n, 1, k - 1)) = k - 1
          /\ \A i \in 1..k - 1 : SubSeq(n, 1, k - 1)[i] = n[i]
      BY <3>1, PrefixFacts
    <3> DEFINE x == SubSeq(b, 1, k - 1)
               y == SubSeq(n, 1, k - 1)
    <3>5. x \in Path /\ y \in Path /\ Len(x) = Len(y) /\ \A i \in 1..Len(x) : x[i] = y[i]
      BY <1>1, <1>2, <3>3, <3>4
    <3> HIDE DEF x, y
    <3>6. x = y
      BY <3>5, SamePath
    <3> QED
      BY <2>2, <3>2, <3>6 DEF x, y
  <2> QED
    BY <2>1, <2>2
<1> QED
  BY <1>1, <1>2, <1>3, <1>4

\* Each step of the way leads up from c or down to h, always away from c.
LEMMA WaySteps ==
  ASSUME NEW c \in Path, NEW h \in Path, Len(c) >= 2, Len(h) >= 2,
         NEW i \in 1..Len(c) + Len(h) - 2
  PROVE  LET x == Way(c, h)[i]
             y == Way(c, h)[i + 1]
         IN \/ x # Center /\ y = Up(x) /\ (x = c \/ Above(x, c)) /\ Len(x) >= 2
            \/ y # Center /\ x = Up(y) /\ (y = h \/ Above(y, h)) /\ Len(y) >= 2 /\ y[1] = h[1]
<1> DEFINE w == Way(c, h)
<1>1. /\ Len(c) \in Nat /\ Len(h) \in Nat
      /\ \A k \in 1..Len(c) - 1 : w[k] = SubSeq(c, 1, Len(c) + 1 - k)
      /\ w[Len(c)] = Center
      /\ \A k \in 1..Len(h) - 1 : w[Len(c) + k] = SubSeq(h, 1, k + 1)
  BY WayFacts, CenterFacts DEF WayUp, WayDown
<1>2. Center \in Path /\ Len(Center) = 0
  BY CenterFacts
<1> HIDE DEF w
<1>3. CASE i <= Len(c) - 1
  <2> DEFINE k == Len(c) + 1 - i
  <2>1. k \in 2..Len(c) /\ w[i] = SubSeq(c, 1, k)
    BY <1>1, <1>3
  <2>2. /\ Len(w[i]) = k /\ (w[i] = c \/ Above(w[i], c))
        /\ Up(w[i]) = IF k = 2 THEN Center ELSE SubSeq(c, 1, k - 1)
    <3> HIDE DEF k
    <3> QED
      BY <2>1, BeginFacts
  <2>3. w[i + 1] = IF k = 2 THEN Center ELSE SubSeq(c, 1, k - 1)
    <3>1. CASE k = 2
      <4>1. i + 1 = Len(c)
        BY <1>1, <3>1
      <4> QED
        BY <1>1, <3>1, <4>1
    <3>2. CASE k # 2
      <4>1. i + 1 \in 1..Len(c) - 1 /\ Len(c) + 1 - (i + 1) = k - 1
        BY <1>1, <1>3, <3>2
      <4>2. w[i + 1] = SubSeq(c, 1, Len(c) + 1 - (i + 1))
        BY <1>1, <4>1
      <4> QED
        BY <3>2, <4>1, <4>2
    <3> QED
      BY <3>1, <3>2
  <2>4. w[i] # Center /\ w[i + 1] = Up(w[i]) /\ Len(w[i]) >= 2
    <3> HIDE DEF k
    <3>1. Len(w[i]) >= 2
      BY <1>1, <2>1, <2>2
    <3>2. w[i] # Center
      BY <1>2, <3>1
    <3> QED
      BY <2>2, <2>3, <3>1, <3>2
  <2> QED
    BY <2>2, <2>4 DEF w
<1>4. CASE ~(i <= Len(c) - 1)
  <2> DEFINE j == i + 1 - Len(c)
             k == j + 1
  <2>1. j \in 1..Len(h) - 1 /\ i + 1 = Len(c) + j /\ k \in 2..Len(h) /\ j \in Int
    BY <1>1, <1>4
  <2>2. w[i + 1] = SubSeq(h, 1, k)
    BY <1>1, <2>1
  <2>3. /\ Len(w[i + 1]) = k /\ w[i + 1][1] = h[1] /\ (w[i + 1] = h \/ Above(w[i + 1], h))
        /\ Up(w[i + 1]) = IF k = 2 THEN Center ELSE SubSeq(h, 1, k - 1)
    <3> HIDE DEF k, j
    <3> QED
      BY <2>1, <2>2, BeginFacts
  <2>4. w[i] = IF k = 2 THEN Center ELSE SubSeq(h, 1, k - 1)
    <3>1. CASE k = 2
      <4>1. i = Len(c)
        BY <1>1, <3>1
      <4> QED
        BY <1>1, <3>1, <4>1
    <3>2. CASE k # 2
      <4>1. j - 1 \in 1..Len(h) - 1 /\ i = Len(c) + (j - 1) /\ (j - 1) + 1 = k - 1
        BY <1>1, <2>1, <3>2
      <4>2. w[Len(c) + (j - 1)] = SubSeq(h, 1, (j - 1) + 1)
        <5> HIDE DEF j
        <5> QED
          BY <1>1, <4>1
      <4> QED
        BY <3>2, <4>1, <4>2
    <3> QED
      BY <3>1, <3>2
  <2>5. w[i + 1] # Center /\ w[i] = Up(w[i + 1]) /\ Len(w[i + 1]) >= 2
    <3> HIDE DEF k, j
    <3>1. Len(w[i + 1]) >= 2
      BY <1>1, <2>1, <2>3
    <3>2. w[i + 1] # Center
      BY <1>2, <3>1
    <3> QED
      BY <2>3, <2>4, <3>1, <3>2
  <2> QED
    BY <2>3, <2>5 DEF w
<1> QED
  BY <1>3, <1>4

\* Two nodes of which neither is above the other: below the two roots.
Apart(c, h) == c[1] # h[1]

\* Every step of the way is a link of the tree, and leads back towards its client.
LEMMA WayInTree ==
  ASSUME NEW g, IsTree(g), NEW c \in NodesOf(g) \ {Center}, NEW h \in NodesOf(g) \ {Center},
         Apart(c, h), NEW i \in 1..Len(c) + Len(h) - 2
  PROVE  LET x == Way(c, h)[i]
             y == Way(c, h)[i + 1]
         IN /\ x \in NodesOf(g) /\ y \in NodesOf(g)
            /\ y # c /\ Toward(c, y) = x /\ y \in Near(g, x)
<1>1. c \in Path /\ h \in Path /\ Len(c) >= 2 /\ Len(h) >= 2 /\ Len(c) \in Nat /\ Len(h) \in Nat
  BY UpIsNode, CenterFacts
<1>2. PICK x, y : x = Way(c, h)[i] /\ y = Way(c, h)[i + 1]
  OBVIOUS
<1>3. \/ x # Center /\ y = Up(x) /\ (x = c \/ Above(x, c)) /\ Len(x) >= 2
      \/ y # Center /\ x = Up(y) /\ (y = h \/ Above(y, h)) /\ Len(y) >= 2 /\ y[1] = h[1]
  BY ZenonT(40), <1>1, <1>2, WaySteps
<1>4. x \in Path /\ y \in Path
  <2>1. Way(c, h) \in Seq(Path) /\ Len(Way(c, h)) = Len(c) + Len(h) - 1
    BY <1>1, WayFacts
  <2>2. i \in 1..Len(Way(c, h)) /\ i + 1 \in 1..Len(Way(c, h))
    BY <1>1, <2>1
  <2>3. Way(c, h)[i] \in Path /\ Way(c, h)[i + 1] \in Path
    BY <2>1, <2>2, ElementOfSeq
  <2> QED
    BY <1>2, <2>3
<1>5. CASE x # Center /\ y = Up(x) /\ (x = c \/ Above(x, c)) /\ Len(x) >= 2
  <2>1. x \in NodesOf(g)
    BY <1>4, <1>5 DEF IsTree
  <2>2. y \in NodesOf(g) /\ y \in Near(g, x)
    BY <1>5, <2>1, UpIsNode, NearFacts
  <2>3. Toward(c, y) = x
    BY <1>1, <1>4, <1>5, TowardDown
  <2>4. y # c
    BY <1>1, <1>4, <1>5, UpFacts DEF Above, Path
  <2> QED
    BY <1>2, <2>1, <2>2, <2>3, <2>4
<1>6. CASE y # Center /\ x = Up(y) /\ (y = h \/ Above(y, h)) /\ Len(y) >= 2 /\ y[1] = h[1]
  <2>1. y \in NodesOf(g)
    BY <1>4, <1>6 DEF IsTree
  <2>2. x \in NodesOf(g) /\ y \in Near(g, x)
    BY <1>6, <2>1, UpIsNode, NearFacts
  <2>3. y # c /\ ~Above(y, c)
    <3>1. Len(y) \in Nat /\ 1 \in 1..Len(y)
      BY <1>4, <1>6, CenterFacts
    <3> QED
      BY <1>6, <3>1 DEF Apart, Above
  <2>4. Toward(c, y) = x
    BY <1>6, <2>3 DEF Toward
  <2> QED
    BY <1>2, <2>1, <2>2, <2>3, <2>4
<1> QED
  BY <1>3, <1>5, <1>6

\* The way is no longer than the graph is large: no node is on it twice.
LEMMA WayIsShort ==
  ASSUME NEW g, IsTree(g), NEW c \in NodesOf(g) \ {Center}, NEW h \in NodesOf(g) \ {Center},
         Apart(c, h)
  PROVE  /\ Cardinality(NodesOf(g)) \in Nat
         /\ Len(c) + Len(h) - 1 <= Cardinality(NodesOf(g))
<1> DEFINE w == Way(c, h)
           n == Len(c) + Len(h) - 1
           f == [i \in 1..n |-> w[i]]
           Place(x) == IF x = Center THEN Len(c)
                       ELSE IF x[1] = c[1] THEN Len(c) + 1 - Len(x) ELSE Len(c) + Len(x) - 1
<1>1. c \in Path /\ h \in Path /\ Len(c) >= 2 /\ Len(h) >= 2 /\ Len(c) \in Nat /\ Len(h) \in Nat
  BY UpIsNode, CenterFacts
<1>2. ASSUME NEW i \in 1..n PROVE w[i] \in NodesOf(g)
  <2>1. CASE i <= Len(c) + Len(h) - 2
    <3>1. i \in 1..Len(c) + Len(h) - 2
      BY <1>1, <2>1
    <3> QED
      BY <3>1, WayInTree
  <2>2. CASE ~(i <= Len(c) + Len(h) - 2)
    <3>1. PICK j \in 1..Len(c) + Len(h) - 2 : j + 1 = i
      <4>1. i - 1 \in 1..Len(c) + Len(h) - 2 /\ (i - 1) + 1 = i
        BY <1>1, <2>2
      <4> QED
        BY <4>1
    <3>2. w[j + 1] \in NodesOf(g)
      BY WayInTree
    <3> QED
      BY <3>1, <3>2
  <2> QED
    BY <2>1, <2>2
<1>3. ASSUME NEW i \in 1..n PROVE Place(w[i]) = i
  <2>0. /\ \A k \in 1..Len(c) - 1 : w[k] = SubSeq(c, 1, Len(c) + 1 - k)
        /\ w[Len(c)] = Center
        /\ \A k \in 1..Len(h) - 1 : w[Len(c) + k] = SubSeq(h, 1, k + 1)
    BY <1>1, WayFacts DEF WayUp, WayDown
  <2> HIDE DEF w
  <2>1. CASE i < Len(c)
    <3>1. PICK k : k = Len(c) + 1 - i
      OBVIOUS
    <3>2. k \in 2..Len(c) /\ w[i] = SubSeq(c, 1, k) /\ i = Len(c) + 1 - k
      BY <1>1, <2>0, <2>1, <3>1
    <3>3. Len(w[i]) = k /\ w[i][1] = c[1]
      BY <3>2, BeginFacts
    <3>4. w[i] # Center
      BY <3>2, <3>3, CenterFacts
    <3> QED
      BY <3>2, <3>3, <3>4
  <2>2. CASE i = Len(c)
    BY <2>0, <2>2
  <2>3. CASE i > Len(c)
    <3>1. PICK k : k = i + 1 - Len(c)
      OBVIOUS
    <3>2. k \in 2..Len(h) /\ k - 1 \in 1..Len(h) - 1 /\ Len(c) + (k - 1) = i /\ (k - 1) + 1 = k
          /\ i = Len(c) + k - 1
      BY <1>1, <2>3, <3>1
    <3>3. w[i] = SubSeq(h, 1, k)
      BY <2>0, <3>2
    <3>4. Len(w[i]) = k /\ w[i][1] = h[1]
      BY <3>2, <3>3, BeginFacts
    <3>5. w[i] # Center
      BY <3>2, <3>4, CenterFacts
    <3> QED
      BY <3>2, <3>4, <3>5 DEF Apart
  <2>4. i < Len(c) \/ i = Len(c) \/ i > Len(c)
    BY <1>1
  <2> HIDE DEF Place
  <2> QED
    BY <2>1, <2>2, <2>3, <2>4
<1>4. IsFiniteSet(NodesOf(g))
  BY DEF IsTree
<1>5. f \in Injection(1..n, NodesOf(g))
  <2> HIDE DEF w, n, Place
  <2>1. f \in [1..n -> NodesOf(g)]
    BY <1>2
  <2>2. \A i, j \in 1..n : f[i] = f[j] => i = j
    BY <1>3
  <2> QED
    BY <2>1, <2>2 DEF Injection, IsInjective
<1>6. Cardinality(1..n) <= Cardinality(NodesOf(g))
  <2> HIDE DEF f, n
  <2> QED
    BY <1>4, <1>5, FS_Injection
<1>7. Cardinality(1..n) = n
  <2>1. n \in Int /\ n - 1 + 1 = n /\ ~(1 > n)
    BY <1>1
  <2> HIDE DEF n
  <2> QED
    BY <2>1, FS_Interval
<1> QED
  BY <1>4, <1>6, <1>7, FS_CardinalityType

\* A round of the search sees the neighbours of all it had seen.
LEMMA ExploreGrows ==
  ASSUME NEW g, NEW p
  PROVE  /\ DOMAIN p \subseteq DOMAIN Explore(g, p)
         /\ \A n \in DOMAIN p : Near(g, n) \subseteq DOMAIN Explore(g, p)
<1> DEFINE q == Explore(g, p)
<1>1. /\ DOMAIN q = DOMAIN p \union UNION {Near(g, n) : n \in DOMAIN p}
      /\ \A m \in DOMAIN p : q[m] = p[m]
      /\ \A m \in DOMAIN q \ DOMAIN p : q[m] \in DOMAIN p /\ m \in Near(g, q[m])
      /\ q = [m \in DOMAIN q |-> q[m]]
  BY ExploreFacts, Zenon
<1> QED
  BY <1>1

\* Round by round the search comes along the way.
LEMMA SearchArrives ==
  ASSUME NEW g, IsTree(g), NEW c \in NodesOf(g) \ {Center}, NEW h \in NodesOf(g) \ {Center},
         Apart(c, h), NEW size \in Nat
  PROVE  \A k \in 0..size :
           /\ SearchOK(g, c, Searched(g, c, size)[k])
           /\ \A i \in 1..Len(c) + Len(h) - 1 :
                i <= k + 1 => Way(c, h)[i] \in DOMAIN Searched(g, c, size)[k]
<1> DEFINE s == Searched(g, c, size)
           w == Way(c, h)
           n == Len(c) + Len(h) - 1
           OK(k) == SearchOK(g, c, s[k]) /\ \A i \in 1..n : i <= k + 1 => w[i] \in DOMAIN s[k]
           T == {k \in 0..size : OK(k)}
<1>1. s[0] = [m \in {c} |-> None] /\ \A k \in 1..size : s[k] = Explore(g, s[k - 1])
  BY SearchedFacts
<1>2. c \in Path /\ h \in Path /\ Len(c) >= 2 /\ Len(h) >= 2 /\ Len(c) \in Nat /\ Len(h) \in Nat
  BY UpIsNode, CenterFacts
<1>3. w[1] = c
  <2>1. 1 \in 1..Len(c) - 1 /\ Len(c) + 1 - 1 = Len(c)
    BY <1>2
  <2>2. w[1] = SubSeq(c, 1, Len(c) + 1 - 1)
    BY <1>2, <2>1, WayFacts DEF WayUp
  <2>3. SubSeq(c, 1, Len(c)) = c
    BY <1>2, SubSeqFull DEF Path
  <2> QED
    BY <2>1, <2>2, <2>3
<1>4. \A i \in 1..n : i # n => w[i + 1] \in Near(g, w[i])
  <2>1. ASSUME NEW i \in 1..n, i # n PROVE w[i + 1] \in Near(g, w[i])
    <3>1. i \in 1..Len(c) + Len(h) - 2
      BY <1>2, <2>1
    <3> QED
      BY <3>1, WayInTree
  <2> QED
    BY <2>1
<1>5. n \in Nat
  BY <1>2
<1> HIDE DEF s, w, n
<1>6. OK(0)
  <2>1. SearchOK(g, c, s[0])
    BY <1>1 DEF SearchOK
  <2>2. \A i \in 1..n : i <= 0 + 1 => w[i] \in DOMAIN s[0]
    <3>1. \A i \in 1..n : i <= 0 + 1 => i = 1
      OBVIOUS
    <3> QED
      BY <1>1, <1>3, <3>1
  <2> QED
    BY <2>1, <2>2
<1>7. ASSUME NEW k \in 1..size, OK(k - 1) PROVE OK(k)
  <2>1. s[k] = Explore(g, s[k - 1])
    BY <1>1
  <2>2. SearchOK(g, c, s[k])
    BY <1>7, <2>1, ExploreKeeps
  <2>3. DOMAIN s[k - 1] \subseteq DOMAIN s[k] /\ \A m \in DOMAIN s[k - 1] : Near(g, m) \subseteq DOMAIN s[k]
    BY <2>1, ExploreGrows
  <2>4. ASSUME NEW i \in 1..n, i <= k + 1 PROVE w[i] \in DOMAIN s[k]
    <3>1. CASE i <= k
      <4>1. i <= (k - 1) + 1
        BY <1>5, <3>1
      <4> QED
        BY <1>7, <2>3, <4>1
    <3>2. CASE ~(i <= k)
      <4>1. PICK j \in 1..n : j = k /\ j # n /\ i = j + 1 /\ j <= (k - 1) + 1
        BY <1>5, <2>4, <3>2
      <4>2. w[j] \in DOMAIN s[k - 1] /\ w[j + 1] \in Near(g, w[j])
        BY <1>4, <1>7, <4>1
      <4> QED
        BY <2>3, <4>1, <4>2
    <3> QED
      BY <3>1, <3>2
  <2> QED
    BY <2>2, <2>4
<1> HIDE DEF OK
<1>8. 0 \in T /\ \A k \in 1..size : k - 1 \in T => k \in T
  BY <1>6, <1>7
<1> HIDE DEF T
<1>9. \A k \in 0..size : k \in T
  BY <1>8, Climb
<1> QED
  BY <1>9 DEF T, OK, s, w, n

\* Walking back along a sequence of parents gives that sequence.
LEMMA WalkedBackFacts ==
  ASSUME NEW S, None \notin S, NEW w \in Seq(S), NEW n \in Nat, n = Len(w), n >= 1,
         NEW p, p[w[1]] = None, \A i \in 1..n - 1 : p[w[i + 1]] = w[i],
         NEW size \in Nat, n <= size
  PROVE  WalkedBack(p, w[n], size)[size] = w
<1> DEFINE F(d) == [k \in 0..size |-> IF k = 0 THEN <<w[n]>> ELSE StepBack(p, d[k - 1])]
           From(k) == IF k < n THEN n - k ELSE 1
           d == [k \in 0..size |-> SubSeq(w, From(k), n)]
<1>1. ASSUME NEW m \in 1..n
      PROVE  StepBack(p, SubSeq(w, m, n)) = SubSeq(w, IF m = 1 THEN 1 ELSE m - 1, n)
  <2>1. \A i \in m..n : w[i] \in S
    BY ElementOfSeq
  <2>2. /\ SubSeq(w, m, n) \in Seq(S) /\ Len(SubSeq(w, m, n)) = n - m + 1
        /\ \A i \in 1..n - m + 1 : SubSeq(w, m, n)[i] = w[m + i - 1]
    BY <2>1, SubSeqProperties
  <2>3. Head(SubSeq(w, m, n)) = w[m]
    <3> DEFINE t == SubSeq(w, m, n)
    <3>1. 1 \in 1..n - m + 1 /\ m + 1 - 1 = m
      OBVIOUS
    <3>2. t[1] = w[m] /\ t \in Seq(S) /\ Len(t) >= 1
      BY <2>2, <3>1
    <3> HIDE DEF t
    <3>3. Head(t) = t[1]
      BY <3>2
    <3> QED
      BY <3>2, <3>3 DEF t
  <2>4. CASE m = 1
    BY <2>3, <2>4 DEF StepBack
  <2>5. CASE m # 1
    <3>1. PICK i \in 1..n - 1 : i + 1 = m
      <4>1. m - 1 \in 1..n - 1 /\ (m - 1) + 1 = m
        BY <2>5
      <4> QED
        BY <4>1
    <3>2. p[w[m]] = w[i] /\ w[i] \in S
      BY <3>1, ElementOfSeq
    <3>3. i \in 1..Len(w) /\ n \in i..Len(w) /\ i = m - 1
      BY <3>1
    <3>4. SubSeq(w, i, n) = <<w[i]>> \o SubSeq(w, i + 1, n)
      BY <3>3, SubSeqRecursiveFirst
    <3>5. p[w[m]] # None
      BY <3>2
    <3> QED
      BY <2>3, <2>5, <3>1, <3>2, <3>3, <3>4, <3>5 DEF StepBack
  <2> QED
    BY <2>4, <2>5
<1>2. SubSeq(w, n, n) = <<w[n]>>
  <2>1. \A i \in n..n : w[i] \in S
    BY ElementOfSeq
  <2> DEFINE t == SubSeq(w, n, n)
  <2>2. t \in Seq(S) /\ Len(t) = n - n + 1 /\ \A i \in 1..n - n + 1 : t[i] = w[n + i - 1]
    BY <2>1, SubSeqProperties
  <2>3. n - n + 1 = 1 /\ n + 1 - 1 = n
    OBVIOUS
  <2>4. Len(t) = 1 /\ t[1] = w[n]
    BY <2>2, <2>3
  <2> HIDE DEF t
  <2>5. t = <<w[n]>>
    BY <2>2, <2>4
  <2> QED
    BY <2>5 DEF t
<1>3. \A k \in 0..size : From(k) \in 1..n
  OBVIOUS
<1>4. From(0) = n
  OBVIOUS
<1>5. \A k \in 1..size : From(k) = IF From(k - 1) = 1 THEN 1 ELSE From(k - 1) - 1
  OBVIOUS
<1>6. From(size) = 1
  OBVIOUS
<1> HIDE DEF From
<1>7. d[0] = <<w[n]>>
  BY <1>2, <1>4
<1>8. ASSUME NEW k \in 1..size PROVE d[k] = StepBack(p, d[k - 1])
  <2>1. From(k - 1) \in 1..n /\ k \in 0..size /\ k - 1 \in 0..size
    BY <1>3
  <2>2. StepBack(p, SubSeq(w, From(k - 1), n)) = SubSeq(w, From(k), n)
    BY <1>1, <1>5, <2>1
  <2> QED
    BY <2>1, <2>2
<1> DEFINE e == WalkedBack(p, w[n], size)
<1>9. e = [k \in 0..size |-> IF k = 0 THEN <<w[n]>> ELSE StepBack(p, e[k - 1])]
  <2>1. d = F(d)
    <3>1. DOMAIN d = 0..size /\ d = [k \in 0..size |-> d[k]]
      OBVIOUS
    <3> HIDE DEF d
    <3> QED
      BY SMTT(30), <1>7, <1>8, <3>1
  <2>2. e = CHOOSE x : x = F(x)
    BY DEF WalkedBack
  <2>3. e = F(e)
    <3> HIDE DEF F, d, e
    <3> QED
      BY <2>1, <2>2
  <2> QED
    BY <2>3
<1> HIDE DEF e
<1>10. e[0] = <<w[n]>> /\ \A k \in 1..size : e[k] = StepBack(p, e[k - 1])
  BY <1>9
<1> DEFINE T == {k \in 0..size : e[k] = d[k]}
<1>11. 0 \in T /\ \A k \in 1..size : k - 1 \in T => k \in T
  <2> HIDE DEF d
  <2>1. e[0] = d[0]
    BY <1>7, <1>10
  <2>2. ASSUME NEW k \in 1..size, e[k - 1] = d[k - 1] PROVE e[k] = d[k]
    <3>1. e[k] = StepBack(p, e[k - 1]) /\ d[k] = StepBack(p, d[k - 1])
      BY <1>8, <1>10
    <3> QED
      BY <2>2, <3>1
  <2> QED
    BY <2>1, <2>2
<1>12. size \in T
  <2> HIDE DEF T
  <2>1. size \in 0..size
    OBVIOUS
  <2> QED
    BY <1>11, <2>1, Climb
<1>13. e[size] = SubSeq(w, 1, n)
  BY <1>6, <1>12
<1> QED
  BY <1>13, SubSeqFull DEF e

\* In a tree of paths findPath comes back by the way up to the center and down.
LEMMA FindPathIsWay ==
  ASSUME NEW g, IsTree(g), None \notin Path,
         NEW c \in NodesOf(g) \ {Center}, NEW h \in NodesOf(g) \ {Center}, Apart(c, h)
  PROVE  FindPath(g, c, h) = Way(c, h)
<1> DEFINE size == Cardinality(NodesOf(g))
           p == Searched(g, c, size)[size]
           w == Way(c, h)
           n == Len(c) + Len(h) - 1
<1>1. c \in Path /\ h \in Path /\ Len(c) >= 2 /\ Len(h) >= 2 /\ Len(c) \in Nat /\ Len(h) \in Nat
  BY UpIsNode, CenterFacts
<1>2. size \in Nat /\ n <= size
  BY WayIsShort
<1>3. w \in Seq(Path) /\ Len(w) = n /\ n \in Nat /\ n >= 1
  BY <1>1, WayFacts
<1>4. SearchOK(g, c, p) /\ \A i \in 1..n : w[i] \in DOMAIN p
  <2>1. size \in 0..size /\ \A i \in 1..n : i <= size + 1
    BY <1>2, <1>3
  <2> HIDE DEF size
  <2> QED
    BY <1>2, <2>1, SearchArrives
<1>5. w[1] = c /\ w[n] = h
  <2>1. 1 \in 1..Len(c) - 1 /\ Len(c) + 1 - 1 = Len(c) /\ Len(h) - 1 \in 1..Len(h) - 1
        /\ Len(c) + (Len(h) - 1) = n /\ (Len(h) - 1) + 1 = Len(h)
    BY <1>1
  <2>2. w[1] = SubSeq(c, 1, Len(c) + 1 - 1) /\ w[Len(c) + (Len(h) - 1)] = SubSeq(h, 1, (Len(h) - 1) + 1)
    BY <1>1, <2>1, WayFacts DEF WayUp, WayDown
  <2>3. SubSeq(c, 1, Len(c)) = c /\ SubSeq(h, 1, Len(h)) = h
    BY <1>1, SubSeqFull DEF Path
  <2> QED
    BY <2>1, <2>2, <2>3
<1>6. ASSUME NEW i \in 1..n - 1 PROVE p[w[i + 1]] = w[i]
  <2>1. i \in 1..Len(c) + Len(h) - 2 /\ i + 1 \in 1..n
    BY <1>1
  <2>2. w[i + 1] # c /\ Toward(c, w[i + 1]) = w[i]
    BY <2>1, WayInTree
  <2> HIDE DEF p, w, n
  <2> QED
    BY <1>4, <2>1, <2>2 DEF SearchOK
<1>7. p[w[1]] = None
  BY <1>4, <1>5 DEF SearchOK
<1>8. h \in DOMAIN p
  <2>1. n \in 1..n
    BY <1>3
  <2> HIDE DEF p, w, n
  <2> QED
    BY <1>4, <1>5, <2>1
<1>9. FindPath(g, c, h) = IF h \in DOMAIN p THEN WalkedBack(p, h, size)[size] ELSE <<>>
  BY DEF FindPath, NodesOf
<1> HIDE DEF p, w, n, size
<1>10. WalkedBack(p, w[n], size)[size] = w
  <2>1. n = Len(w) /\ size \in Nat /\ w \in Seq(Path) /\ n \in Nat
    BY <1>2, <1>3
  <2>2. \A i \in 1..n - 1 : p[w[i + 1]] = w[i]
    BY <1>6
  <2>3. n >= 1 /\ n <= size
    BY <1>2, <1>3
  <2> HIDE DEF Path
  <2> QED
    BY <1>7, <2>1, <2>2, <2>3, WalkedBackFacts, SMTT(30)
<1> QED
  BY <1>5, <1>8, <1>9, <1>10 DEF w

----------------------------------------------------------------------------
(* What every graph is that the page can come by.                             *)

Names == Clients \union Channels
Texts == Filters \union {NoFilter}
ComponentsIn(n, name) == \A i \in 2..Len(n) : Contains(name, n[i])
Broken(g) == \E l \in g.links : l.target = None

Shape(g) ==
  /\ g = [chains |-> g.chains, links |-> g.links, drawn |-> g.drawn,
          drawnFor |-> g.drawnFor, entered |-> g.entered, thrown |-> g.thrown]
  /\ g.chains \in [NodesOf(g) -> SUBSET Names]
  /\ g.links \subseteq [source : NodesOf(g), target : NodesOf(g) \union {None}, type : Types]
  /\ g.drawn \in [DOMAIN g.drawn -> BOOLEAN] /\ DOMAIN g.drawn \subseteq NodesOf(g)
  /\ g.drawnFor \in Texts /\ g.entered \subseteq NodesOf(g)
  /\ g.thrown \in BOOLEAN

\* A node knows, for each one below it, a client with all the components of that.
Learned(g) ==
  \A n, m \in NodesOf(g) \ {Center} :
    IsClient(n) /\ (n = m \/ Above(n, m)) => \E name \in g.chains[n] : ComponentsIn(m, name)

\* What did not enter with the last drawing is seen only if its filter selects it.
Kept(g) ==
  \A n \in DOMAIN g.drawn \ g.entered : g.drawn[n] => Visible(g, g.drawnFor, n)

GraphOK(g) == Shape(g) /\ IsTree(g) /\ Learned(g) /\ Kept(g) /\ (g.thrown => Broken(g))

\* What the filter selects by a name that has been drawn is on the screen, and seen.
Picks(g, f, n) ==
  \/ f = NoFilter \/ ~IsClient(n)
  \/ \E name \in g.chains[n] : Matches(f, name) /\ ("" \in Range(name) => Len(f) = 1)
Shown(g, f) ==
  /\ g.drawnFor = f /\ DOMAIN g.drawn = NodesOf(g)
  /\ \A n \in NodesOf(g) : Picks(g, f, n) => g.drawn[n]
DrawnOK(g, f) == (f = NoFilter \/ ~Broken(g)) => Shown(g, f)

\* The graph r is g, but for the node n that has learned a client.
Learns(r, g, n, type, name) ==
  /\ Shape(r) /\ NodesOf(r) = NodesOf(g)
  /\ r.links = g.links /\ r.drawn = g.drawn /\ r.thrown = g.thrown
  /\ r.drawnFor = g.drawnFor /\ r.entered = g.entered
  /\ \A m \in NodesOf(g) :
       r.chains[m] = IF m = n /\ n # Center /\ type = "client"
                     THEN g.chains[m] \union {name} ELSE g.chains[m]

\* Learn adds the name to the chains of one node, at most, and changes nothing else.
LEMMA LearnFacts ==
  ASSUME NEW g, Shape(g), NEW n, NEW type, NEW name \in Names
  PROVE  Learns(Learn(g, n, type, name), g, n, type, name)
<1> DEFINE r == Learn(g, n, type, name)
<1>1. CASE n # Center /\ type = "client"
  <2> DEFINE chains == [g.chains EXCEPT ![n] = @ \union {name}]
  <2>1. r = [g EXCEPT !.chains = chains]
    BY <1>1 DEF Learn
  <2>2. chains \in [NodesOf(g) -> SUBSET Names]
        /\ \A m \in NodesOf(g) : chains[m] = IF m = n THEN g.chains[m] \union {name} ELSE g.chains[m]
    BY DEF Shape
  <2> HIDE DEF chains
  <2>3. r = [chains |-> chains, links |-> g.links, drawn |-> g.drawn,
             drawnFor |-> g.drawnFor, entered |-> g.entered, thrown |-> g.thrown]
    BY <2>1 DEF Shape
  <2> HIDE DEF r
  <2>4. r.chains = chains /\ r.links = g.links /\ r.drawn = g.drawn /\ r.thrown = g.thrown
        /\ r.drawnFor = g.drawnFor /\ r.entered = g.entered
    BY <2>3
  <2>5. NodesOf(r) = NodesOf(g)
    BY <2>2, <2>4 DEF NodesOf
  <2>6. Shape(r)
    BY <2>2, <2>3, <2>4, <2>5 DEF Shape
  <2> QED
    BY <1>1, <2>2, <2>4, <2>5, <2>6 DEF r, Learns
<1>2. CASE ~(n # Center /\ type = "client")
  <2>1. r = g
    BY <1>2 DEF Learn
  <2> QED
    BY <1>2, <2>1 DEF Learns
<1> QED
  BY <1>1, <1>2

\* The graph r is g, drawn anew if need be.
Redraws(r, g, f) ==
  /\ Shape(r) /\ NodesOf(r) = NodesOf(g)
  /\ r.chains = g.chains /\ r.links = g.links /\ r.thrown = Broken(g)
  /\ (Kept(g) => Kept(r)) /\ DrawnOK(r, f)

\* Update draws what the filter selects, or throws.
LEMMA UpdateFacts ==
  ASSUME NEW g, Shape(g), NEW f \in Texts
  PROVE  Redraws(Update(g, f), g, f)
<1> DEFINE r == Update(g, f)
           drawn == [n \in DOMAIN g.chains |-> n \in DOMAIN g.drawn => Visible(g, f, n)]
           entered == DOMAIN g.chains \ DOMAIN g.drawn
           redrawn == [g EXCEPT !.drawn = drawn, !.drawnFor = f, !.entered = entered]
<1>1. r = [(IF Broken(g) /\ f # NoFilter THEN g ELSE redrawn) EXCEPT !.thrown = Broken(g)]
  BY DEF Update, Broken
<1>2. Broken(g) \in BOOLEAN
  BY DEF Broken
<1>3. drawn \in [NodesOf(g) -> BOOLEAN]
      /\ \A n \in NodesOf(g) : drawn[n] = (n \in DOMAIN g.drawn => Visible(g, f, n))
  BY Zenon DEF NodesOf
<1>4. entered = NodesOf(g) \ DOMAIN g.drawn
  BY DEF NodesOf
<1> HIDE DEF drawn, entered
<1>5. redrawn = [chains |-> g.chains, links |-> g.links, drawn |-> drawn,
                 drawnFor |-> f, entered |-> entered, thrown |-> g.thrown]
  <2> HIDE DEF redrawn
  <2>1. redrawn = [g EXCEPT !.drawn = drawn, !.drawnFor = f, !.entered = entered]
    BY DEF redrawn
  <2>2. g = [chains |-> g.chains, links |-> g.links, drawn |-> g.drawn,
             drawnFor |-> g.drawnFor, entered |-> g.entered, thrown |-> g.thrown]
    BY DEF Shape
  <2>3. PICK c, l, d, df, e, t :
          c = g.chains /\ l = g.links /\ d = g.drawn /\ df = g.drawnFor /\ e = g.entered /\ t = g.thrown
    OBVIOUS
  <2>4. PICK h : h = [chains |-> c, links |-> l, drawn |-> d, drawnFor |-> df, entered |-> e, thrown |-> t]
    OBVIOUS
  <2>5. h = g
    BY <2>2, <2>3, <2>4
  <2>6. [h EXCEPT !.drawn = drawn, !.drawnFor = f, !.entered = entered] =
          [chains |-> c, links |-> l, drawn |-> drawn, drawnFor |-> f, entered |-> entered, thrown |-> t]
    <3> DEFINE h1 == [h EXCEPT !.drawn = drawn]
               h2 == [h1 EXCEPT !.drawnFor = f]
    <3>1. h1 = [chains |-> c, links |-> l, drawn |-> drawn, drawnFor |-> df, entered |-> e, thrown |-> t]
      BY <2>4
    <3> HIDE DEF h1
    <3>2. h2 = [chains |-> c, links |-> l, drawn |-> drawn, drawnFor |-> f, entered |-> e, thrown |-> t]
      BY <3>1
    <3> HIDE DEF h2
    <3>3. [h2 EXCEPT !.entered = entered] =
            [chains |-> c, links |-> l, drawn |-> drawn, drawnFor |-> f, entered |-> entered, thrown |-> t]
      BY <3>2
    <3> QED
      BY <3>3 DEF h1, h2
  <2> QED
    BY <2>1, <2>3, <2>5, <2>6
<1> HIDE DEF redrawn
<1>6. CASE Broken(g) /\ f # NoFilter
  <2>1. r = [g EXCEPT !.thrown = Broken(g)]
    BY <1>1, <1>6
  <2>2. r = [chains |-> g.chains, links |-> g.links, drawn |-> g.drawn,
             drawnFor |-> g.drawnFor, entered |-> g.entered, thrown |-> Broken(g)]
    BY <2>1 DEF Shape
  <2> HIDE DEF r
  <2>3. r.chains = g.chains /\ r.links = g.links /\ r.drawn = g.drawn
        /\ r.drawnFor = g.drawnFor /\ r.entered = g.entered /\ r.thrown = Broken(g)
    BY <2>2
  <2>4. NodesOf(r) = NodesOf(g)
    BY <2>3 DEF NodesOf
  <2>5. Shape(r)
    BY <1>2, <2>2, <2>3, <2>4 DEF Shape
  <2>6. Kept(g) => Kept(r)
    BY <2>3 DEF Kept, Visible
  <2>7. DrawnOK(r, f)
    BY <1>6, <2>3 DEF DrawnOK, Broken
  <2>8. Redraws(r, g, f)
    BY <2>3, <2>4, <2>5, <2>6, <2>7 DEF Redraws
  <2> QED
    BY <2>8 DEF r
<1>7. CASE ~(Broken(g) /\ f # NoFilter)
  <2>1. r = [redrawn EXCEPT !.thrown = Broken(g)]
    BY <1>1, <1>7
  <2>2. r = [chains |-> g.chains, links |-> g.links, drawn |-> drawn,
             drawnFor |-> f, entered |-> entered, thrown |-> Broken(g)]
    BY <1>5, <2>1
  <2> HIDE DEF r
  <2>3. r.chains = g.chains /\ r.links = g.links /\ r.drawn = drawn
        /\ r.drawnFor = f /\ r.entered = entered /\ r.thrown = Broken(g)
    BY <2>2
  <2>4. NodesOf(r) = NodesOf(g) /\ DOMAIN drawn = NodesOf(g)
    BY <1>3, <2>3 DEF NodesOf
  <2>5. Shape(r)
    <3>1. entered \subseteq NodesOf(g)
      BY <1>4
    <3> QED
      BY <1>2, <1>3, <2>2, <2>3, <2>4, <3>1 DEF Shape
  <2>6. \A n \in NodesOf(g) : Visible(r, f, n) = Visible(g, f, n) /\ Visible(g, f, n) \in BOOLEAN
    BY <2>3 DEF Visible
  <2>7. Kept(r)
    <3>1. ASSUME NEW n \in DOMAIN r.drawn \ r.entered PROVE r.drawn[n] => Visible(r, f, n)
      <4>1. n \in NodesOf(g) /\ n \in DOMAIN g.drawn
        BY <1>4, <2>3, <2>4
      <4>2. drawn[n] = (TRUE => Visible(g, f, n))
        BY <1>3, <4>1, Zenon
      <4> QED
        BY <2>3, <2>6, <4>1, <4>2
    <3> QED
      BY <2>3, <3>1 DEF Kept
  <2>8. DrawnOK(r, f)
    <3>1. ASSUME NEW n \in NodesOf(g), Picks(r, f, n) PROVE r.drawn[n]
      <4>1. Visible(g, f, n)
        BY <2>6, <3>1 DEF Picks, Visible
      <4>2. drawn[n] = (n \in DOMAIN g.drawn => Visible(g, f, n))
        BY <1>3, Zenon
      <4> QED
        BY <2>3, <4>1, <4>2
    <3> QED
      BY <2>3, <2>4, <3>1 DEF DrawnOK, Shown
  <2>9. Redraws(r, g, f)
    BY <2>3, <2>4, <2>5, <2>7, <2>8 DEF Redraws
  <2> QED
    BY <2>9 DEF r
<1> QED
  BY <1>6, <1>7

\* The graph r is g with one link more.
Links(r, g, source, target, type) ==
  /\ Shape(r) /\ NodesOf(r) = NodesOf(g)
  /\ r.chains = g.chains /\ r.drawn = g.drawn /\ r.thrown = g.thrown
  /\ r.drawnFor = g.drawnFor /\ r.entered = g.entered
  /\ r.links = g.links \union {[source |-> source, target |-> target, type |-> type]}

\* newLink adds its link and changes nothing else.
LEMMA NewLinkFacts ==
  ASSUME NEW g, Shape(g), NEW source \in NodesOf(g), NEW target \in NodesOf(g) \union {None},
         NEW type \in Types
  PROVE  Links(NewLink(g, source, target, type), g, source, target, type)
<1> DEFINE r == NewLink(g, source, target, type)
           links == g.links \union {[source |-> source, target |-> target, type |-> type]}
<1>1. r = [g EXCEPT !.links = links]
  BY DEF NewLink
<1>2. links \subseteq [source : NodesOf(g), target : NodesOf(g) \union {None}, type : Types]
  BY DEF Shape
<1> HIDE DEF links
<1>3. r = [chains |-> g.chains, links |-> links, drawn |-> g.drawn,
             drawnFor |-> g.drawnFor, entered |-> g.entered, thrown |-> g.thrown]
  BY <1>1 DEF Shape
<1> HIDE DEF r
<1>4. r.chains = g.chains /\ r.links = links /\ r.drawn = g.drawn /\ r.thrown = g.thrown
      /\ r.drawnFor = g.drawnFor /\ r.entered = g.entered
  BY <1>3
<1>5. NodesOf(r) = NodesOf(g)
  BY <1>4 DEF NodesOf
<1>6. Shape(r)
  BY <1>2, <1>3, <1>4, <1>5 DEF Shape
<1> QED
  BY <1>4, <1>5, <1>6 DEF r, links, Links

\* A known component: its node stays, and the one above it learns the client.
\* An unknown one: a node is pushed, with its link.
Pushed(g, n, at, type, name) ==
  [NewLink(g, n, at, type) EXCEPT !.chains =
     [m \in DOMAIN g.chains \union {n} |-> IF m = n THEN {name} ELSE g.chains[m]]]

\* The graph r is g with one node more, and its link.
Pushes(r, g, n, at, type, name) ==
  /\ Shape(r) /\ NodesOf(r) = NodesOf(g) \union {n}
  /\ r.chains[n] = {name} /\ \A m \in NodesOf(g) : r.chains[m] = g.chains[m]
  /\ r.drawn = g.drawn /\ r.thrown = g.thrown
  /\ r.drawnFor = g.drawnFor /\ r.entered = g.entered
  /\ r.links = g.links \union {[source |-> n, target |-> at, type |-> type]}

\* A pushed node has one name and one link, and is not drawn yet.
LEMMA PushedFacts ==
  ASSUME NEW g, Shape(g), NEW n, n \notin NodesOf(g), NEW at \in NodesOf(g),
         NEW type \in Types, NEW name \in Names
  PROVE  Pushes(Pushed(g, n, at, type, name), g, n, at, type, name)
<1> DEFINE r == Pushed(g, n, at, type, name)
           chains == [m \in DOMAIN g.chains \union {n} |-> IF m = n THEN {name} ELSE g.chains[m]]
           links == g.links \union {[source |-> n, target |-> at, type |-> type]}
           D == NodesOf(g) \union {n}
<1>1. r = [[g EXCEPT !.links = links] EXCEPT !.chains = chains]
  BY DEF NewLink, Pushed
<1>2. links \subseteq [source : D, target : D \union {None}, type : Types]
  <2>1. [source |-> n, target |-> at, type |-> type] \in [source : D, target : D \union {None}, type : Types]
    OBVIOUS
  <2>2. [source : NodesOf(g), target : NodesOf(g) \union {None}, type : Types]
          \subseteq [source : D, target : D \union {None}, type : Types]
    OBVIOUS
  <2> QED
    BY <2>1, <2>2 DEF Shape
<1>3. chains \in [D -> SUBSET Names] /\ chains[n] = {name} /\ \A m \in NodesOf(g) : chains[m] = g.chains[m]
  BY DEF Shape, NodesOf
<1> HIDE DEF links, chains
<1>4. r = [chains |-> chains, links |-> links, drawn |-> g.drawn,
             drawnFor |-> g.drawnFor, entered |-> g.entered, thrown |-> g.thrown]
  BY <1>1 DEF Shape
<1> HIDE DEF r
<1>5. r.chains = chains /\ r.links = links /\ r.drawn = g.drawn /\ r.thrown = g.thrown
      /\ r.drawnFor = g.drawnFor /\ r.entered = g.entered
  BY <1>4
<1>6. NodesOf(r) = D
  BY <1>3, <1>5 DEF NodesOf
<1> HIDE DEF D
<1>7. NodesOf(g) \subseteq D
  BY DEF D
<1>8. Shape(r)
  BY <1>2, <1>3, <1>4, <1>5, <1>6, <1>7 DEF Shape
<1> QED
  BY <1>3, <1>5, <1>6, <1>8 DEF r, links, D, Pushes

\* What stays as it was drawn stays so while chains grow.
LEMMA KeptGrows ==
  ASSUME NEW g, Shape(g), Kept(g), NEW r, r.drawn = g.drawn, r.drawnFor = g.drawnFor,
         r.entered = g.entered, \A n \in NodesOf(g) : g.chains[n] \subseteq r.chains[n]
  PROVE  Kept(r)
<1>1. DOMAIN g.drawn \subseteq NodesOf(g)
  BY DEF Shape
<1>2. ASSUME NEW n \in NodesOf(g), Visible(g, g.drawnFor, n) PROVE Visible(r, g.drawnFor, n)
  <2>1. g.chains[n] \subseteq r.chains[n]
    OBVIOUS
  <2> QED
    BY <1>2, <2>1 DEF Visible
<1> QED
  BY <1>1, <1>2 DEF Kept

----------------------------------------------------------------------------
(* addClient and addChannel.                                                  *)

\* Arithmetic that the provers want told.
LEMMA OneOrMore ==
  \A k \in Nat : /\ k >= 1 => k = 1 \/ k >= 2
                 /\ k >= 2 => k # 1 /\ k + 1 > 2 /\ k + 1 >= 2
  OBVIOUS

\* A path with a component more is below that path, and below what is above it.
LEMMA AppendFacts ==
  ASSUME NEW q \in Path, NEW comp \in STRING, Len(q) >= 1
  PROVE  LET n == Append(q, comp)
         IN /\ n \in Path /\ Len(n) = Len(q) + 1 /\ n[Len(n)] = comp /\ n[1] = q[1]
            /\ \A i \in 1..Len(q) : n[i] = q[i]
            /\ Above(q, n)
            /\ \A p \in Path : Above(p, n) <=> (p = q \/ Above(p, q))
            /\ Up(n) = IF Len(q) = 1 THEN Center ELSE q
<1>1. PICK n : n = Append(q, comp)
  OBVIOUS
<1>2. Len(q) \in Nat
  BY CenterFacts
<1>3. n \in Path /\ Len(n) = Len(q) + 1 /\ (\A i \in 1..Len(q) : n[i] = q[i]) /\ n[Len(q) + 1] = comp
  <2>1. q \in Seq(STRING)
    BY DEF Path
  <2> QED
    BY ZenonT(40), <1>1, <2>1, AppendProperties DEF Path
<1>4. Above(q, n)
  BY <1>2, <1>3 DEF Above
<1>5. ASSUME NEW p \in Path PROVE Above(p, n) <=> (p = q \/ Above(p, q))
  <2>0. Len(p) \in Nat
    BY CenterFacts
  <2>1. ASSUME Above(p, n) PROVE p = q \/ Above(p, q)
    <3>1. Len(p) <= Len(q) /\ \A i \in 1..Len(p) : p[i] = q[i]
      BY <1>2, <1>3, <2>0, <2>1 DEF Above
    <3>2. CASE Len(p) = Len(q)
      BY <3>1, <3>2, SamePath
    <3>3. CASE Len(p) # Len(q)
      BY <1>2, <2>0, <3>1, <3>3 DEF Above
    <3> QED
      BY <3>2, <3>3
  <2>2. ASSUME Above(p, q) PROVE Above(p, n)
    BY <1>2, <1>3, <2>0, <2>2 DEF Above
  <2> QED
    BY <1>4, <2>1, <2>2
<1>6. Up(n) = IF Len(q) = 1 THEN Center ELSE q
  <2>1. CASE Len(q) = 1
    BY <1>3, <2>1 DEF Up
  <2>2. CASE Len(q) # 1
    <3>1. Len(n) > 2 /\ Len(n) >= 2 /\ Len(n) - 1 = Len(q)
      <4>1. Len(q) >= 2
        BY <1>2, <2>2, OneOrMore
      <4>2. Len(q) + 1 > 2 /\ Len(q) + 1 >= 2
        BY <1>2, <4>1, OneOrMore
      <4> QED
        BY <1>2, <1>3, <4>2
    <3>2. Up(n) \in Path /\ Len(Up(n)) = Len(q) /\ Above(Up(n), n)
      BY <1>3, <3>1, UpFacts
    <3>3. Up(n) = q
      <4> DEFINE u == Up(n)
      <4>1. \A i \in 1..Len(u) : u[i] = q[i]
        BY <1>3, <3>2 DEF Above
      <4> HIDE DEF u
      <4> QED
        BY <3>2, <4>1, SamePath DEF u
    <3> QED
      BY <2>2, <3>3
  <2> QED
    BY <2>1, <2>2
<1>7. n[1] = q[1]
  BY <1>2, <1>3
<1> QED
  BY <1>1, <1>3, <1>4, <1>5, <1>6, <1>7

\* A node is pushed below one that is there.
LEMMA TreeGrows ==
  ASSUME NEW g, IsTree(g), NEW q \in Path, NEW comp \in STRING, Len(q) >= 1,
         q[1] \in {"clients", "channels"}, Len(q) = 1 \/ q \in NodesOf(g),
         NEW type \in {"client", "channel"}, NEW r,
         NodesOf(r) = NodesOf(g) \union {Append(q, comp)},
         r.links = g.links \union {[source |-> Append(q, comp), target |-> Up(Append(q, comp)), type |-> type]}
  PROVE  IsTree(r)
<1> DEFINE n == Append(q, comp)
           l0 == [source |-> n, target |-> Up(n), type |-> type]
<1>1. Len(q) \in Nat
  BY CenterFacts
<1>2. /\ n \in Path /\ Len(n) = Len(q) + 1 /\ n[1] = q[1]
      /\ \A p \in Path : Above(p, n) <=> (p = q \/ Above(p, q))
  BY AppendFacts
<1> HIDE DEF n
<1>3. NodesOf(r) = NodesOf(g) \union {n} /\ r.links = g.links \union {l0}
  BY DEF n
<1>4. Len(n) >= 2 /\ n # Center
  <2>1. Len(n) >= 2
    BY <1>1, <1>2
  <2> QED
    BY <1>1, <1>2, <2>1, CenterFacts
<1>5. IsFiniteSet(NodesOf(r)) /\ NodesOf(r) \subseteq Path /\ Center \in NodesOf(r)
  <2>1. IsFiniteSet(NodesOf(g) \union {n})
    BY FS_AddElement DEF IsTree
  <2> QED
    BY <1>2, <1>3, <2>1 DEF IsTree
<1>6. \A m \in NodesOf(r) \ {Center} : Len(m) >= 2 /\ m[1] \in {"clients", "channels"}
  BY <1>2, <1>3, <1>4 DEF IsTree
<1>7. ASSUME NEW m \in NodesOf(r), NEW p \in Path, Len(p) >= 2, Above(p, m)
      PROVE  p \in NodesOf(r)
  <2>1. CASE m \in NodesOf(g)
    BY <1>3, <1>7, <2>1 DEF IsTree
  <2>2. CASE m = n
    <3>1. p = q \/ Above(p, q)
      BY <1>2, <1>7, <2>2
    <3>2. CASE p = q
      <4>1. Len(q) # 1
        BY <1>1, <1>7, <3>2, OneOrMore
      <4> QED
        BY <1>3, <3>2, <4>1
    <3>3. CASE Above(p, q)
      <4>1. Len(q) # 1
        BY <1>1, <1>7, <3>3 DEF Above
      <4> QED
        BY <1>3, <1>7, <3>3, <4>1 DEF IsTree
    <3> QED
      BY <3>1, <3>2, <3>3
  <2> QED
    BY <1>3, <2>1, <2>2
<1>8. ASSUME NEW m \in NodesOf(r) \ {Center}
      PROVE  \E l \in r.links : l.type # "subscription" /\ l.source = m /\ l.target = Up(m)
  <2>1. CASE m \in NodesOf(g)
    BY <1>3, <2>1 DEF IsTree
  <2>2. CASE m = n
    <3>1. l0.type # "subscription" /\ l0.source = n /\ l0.target = Up(n)
      OBVIOUS
    <3> QED
      BY <1>3, <2>2, <3>1
  <2> QED
    BY <1>3, <2>1, <2>2
<1>9. ASSUME NEW l \in r.links, l.type # "subscription"
      PROVE  l.source \in NodesOf(r) \ {Center} /\ l.target = Up(l.source)
  <2>1. CASE l \in g.links
    BY <1>3, <1>9, <2>1 DEF IsTree
  <2>2. CASE l = l0
    BY <1>3, <1>4, <2>2
  <2> QED
    BY <1>3, <2>1, <2>2
<1> QED
  BY <1>5, <1>6, <1>7, <1>8, <1>9 DEF IsTree

\* Where a path is, of which k components were looked at: its graph is whole,
\* and all above the node it is at know the client.
OnItsWay(acc, type, name) ==
  /\ acc = [g |-> acc.g, qual |-> acc.qual, at |-> acc.at]
  /\ GraphOK(acc.g)
  /\ acc.qual \in Path /\ Len(acc.qual) >= 1 /\ acc.qual[1] = Root(type)
  /\ \/ Len(acc.qual) = 1 /\ acc.at = Center
     \/ Len(acc.qual) >= 2 /\ acc.at = acc.qual /\ acc.qual \in NodesOf(acc.g)
  /\ ComponentsIn(acc.qual, name)
  /\ type = "client" => \A n \in NodesOf(acc.g) \ {Center} :
                          Above(n, acc.qual) => name \in acc.g.chains[n]

\* Either all of them were known, so that nodes have learned a name but nothing was
\* drawn, or a node was pushed, and drawn with all that had been learned.
OnlyLearned(acc, g0, name, k) ==
  /\ NodesOf(acc.g) = NodesOf(g0) /\ ~acc.g.thrown
  /\ acc.g.links = g0.links /\ acc.g.drawn = g0.drawn /\ acc.g.drawnFor = g0.drawnFor
  /\ \A n \in NodesOf(g0) :
       \/ acc.g.chains[n] = g0.chains[n]
       \/ Above(n, acc.qual) /\ acc.g.chains[n] = g0.chains[n] \union {name}
  /\ \A i \in 1..k : name[i] # "" => \E j \in 2..Len(acc.qual) : acc.qual[j] = name[i]
  /\ "" \in Range(name) \/ (Len(acc.qual) = k + 1 /\ \A i \in 1..k : acc.qual[i + 1] = name[i])
JustDrawn(acc) ==
  /\ DrawnOK(acc.g, filter)
  /\ \A n \in NodesOf(acc.g) : ~Above(acc.qual, n)
Stage(acc, g0, name, k) ==
  (Broken(acc.g) /\ filter # NoFilter) \/ OnlyLearned(acc, g0, name, k) \/ JustDrawn(acc)

\* All above the next component know the client, once the node at hand has learned.
LEMMA AllAboveKnow ==
  ASSUME NEW type \in {"client", "channel"}, NEW name \in Names, NEW acc,
         OnItsWay(acc, type, name), NEW comp \in STRING, type = "client",
         NEW n \in NodesOf(acc.g) \ {Center}, Above(n, Append(acc.qual, comp))
  PROVE  name \in Learn(acc.g, acc.at, type, name).chains[n]
<1> DEFINE r == Learn(acc.g, acc.at, type, name)
<1>0. Shape(acc.g)
  BY DEF OnItsWay, GraphOK
<1>1. Learns(r, acc.g, acc.at, type, name)
  BY <1>0, LearnFacts
<1>2. n \in Path /\ Len(n) >= 2 /\ Len(n) \in Nat
  BY UpIsNode, CenterFacts DEF OnItsWay, GraphOK
<1>3. n = acc.qual \/ Above(n, acc.qual)
  BY <1>2, AppendFacts DEF OnItsWay
<1> HIDE DEF r
<1>4. ASSUME Above(n, acc.qual) PROVE name \in r.chains[n]
  <2>1. name \in acc.g.chains[n] /\ n \in NodesOf(acc.g)
    BY <1>4 DEF OnItsWay
  <2> QED
    BY <1>1, <2>1 DEF Learns
<1>5. ASSUME n = acc.qual PROVE name \in r.chains[n]
  <2>1. Len(n) # 1
    BY <1>2, OneOrMore
  <2>2. acc.at = n
    BY <1>5, <2>1 DEF OnItsWay
  <2> QED
    BY <1>1, <2>2 DEF Learns
<1> QED
  BY <1>3, <1>4, <1>5 DEF r

\* Chains that grow keep what they have learned.
LEMMA LearningKeeps ==
  ASSUME NEW g, Learned(g), NEW r, NodesOf(r) = NodesOf(g),
         \A n \in NodesOf(g) : g.chains[n] \subseteq r.chains[n]
  PROVE  Learned(r)
BY DEF Learned

\* The way goes on from acc to next, by its k-th component.
Follows(next, acc, type, name, g0, k) ==
  /\ OnItsWay(next, type, name) /\ Stage(next, g0, name, k)
  /\ NodesOf(acc.g) \subseteq NodesOf(next.g)

\* The record of a component that was known.
LEMMA NextRecord ==
  ASSUME NEW acc, acc = [g |-> acc.g, qual |-> acc.qual, at |-> acc.at], NEW r, NEW n
  PROVE  [acc EXCEPT !.g = r, !.qual = n, !.at = n] = [g |-> r, qual |-> n, at |-> n]
<1> DEFINE a == [acc EXCEPT !.g = r]
           b == [a EXCEPT !.qual = n]
<1>1. a = [g |-> r, qual |-> acc.qual, at |-> acc.at]
  OBVIOUS
<1> HIDE DEF a
<1>2. b = [g |-> r, qual |-> n, at |-> acc.at]
  BY <1>1
<1> HIDE DEF b
<1>3. [b EXCEPT !.at = n] = [g |-> r, qual |-> n, at |-> n]
  BY <1>2
<1> QED
  BY <1>3 DEF a, b

\* A component whose node is known keeps the tree, and tells no filter anything new.
LEMMA KnownComponent ==
  ASSUME NEW type \in {"client", "channel"}, NEW name \in Names, NEW g0,
         NEW k \in 1..Len(name), NEW acc, OnItsWay(acc, type, name),
         Stage(acc, g0, name, k - 1), name \in Path,
         Append(acc.qual, name[k]) \in NodesOf(acc.g)
  PROVE  LET n == Append(acc.qual, name[k])
             next == [g |-> Learn(acc.g, acc.at, type, name), qual |-> n, at |-> n]
         IN Follows(next, acc, type, name, g0, k)
<1> DEFINE r == Learn(acc.g, acc.at, type, name)
           q == acc.qual
           n == Append(q, name[k])
           next == [g |-> r, qual |-> n, at |-> n]
<1>0. Shape(acc.g) /\ acc = [g |-> acc.g, qual |-> acc.qual, at |-> acc.at]
  BY DEF OnItsWay, GraphOK
<1>1. Learns(r, acc.g, acc.at, type, name)
  BY <1>0, LearnFacts
<1>1a. /\ Shape(r) /\ NodesOf(r) = NodesOf(acc.g)
      /\ r.links = acc.g.links /\ r.drawn = acc.g.drawn /\ r.thrown = acc.g.thrown
      /\ r.drawnFor = acc.g.drawnFor /\ r.entered = acc.g.entered
  BY <1>1 DEF Learns
<1>2. name[k] \in STRING /\ Len(name) \in Nat /\ k \in Nat
  BY CenterFacts DEF Path
<1>3. q \in Path /\ Len(q) >= 1 /\ Len(q) \in Nat
  BY CenterFacts DEF OnItsWay
<1>4. /\ n \in Path /\ Len(n) = Len(q) + 1 /\ n[Len(n)] = name[k] /\ n[1] = q[1]
      /\ \A i \in 1..Len(q) : n[i] = q[i]
      /\ Above(q, n)
      /\ \A p \in Path : Above(p, n) <=> (p = q \/ Above(p, q))
  BY <1>2, <1>3, AppendFacts
<1>5. \A m \in NodesOf(acc.g) \ {Center} : type = "client" /\ Above(m, n) => name \in r.chains[m]
  BY <1>2, AllAboveKnow
<1>6. n \in NodesOf(acc.g)
  OBVIOUS
<1> HIDE DEF r, n
<1>7. next = [g |-> r, qual |-> n, at |-> n]
  OBVIOUS
<1> HIDE DEF next
<1>8. next.g = r /\ next.qual = n /\ next.at = n
  BY <1>7
<1>9. Len(n) >= 2 /\ Len(n) >= 1
  BY <1>3, <1>4
<1>10. GraphOK(r)
  <2>1. IsTree(r)
    BY <1>1a DEF OnItsWay, GraphOK, IsTree
  <2>2. Learned(r)
    <3>1. \A m \in NodesOf(acc.g) : acc.g.chains[m] \subseteq r.chains[m]
      BY <1>1 DEF Learns
    <3> QED
      BY <1>1a, <3>1, LearningKeeps DEF OnItsWay, GraphOK
  <2>3. r.thrown => Broken(r)
    BY <1>1a DEF OnItsWay, GraphOK, Broken
  <2>4. Kept(r)
    <3>1. \A m \in NodesOf(acc.g) : acc.g.chains[m] \subseteq r.chains[m]
      BY <1>1 DEF Learns
    <3>2. Kept(acc.g)
      BY DEF OnItsWay, GraphOK
    <3> QED
      BY <1>0, <1>1a, <3>1, <3>2, KeptGrows
  <2> QED
    BY <1>1a, <2>1, <2>2, <2>3, <2>4 DEF GraphOK
<1>11. ComponentsIn(n, name)
  <2>1. ASSUME NEW i \in 2..Len(n) PROVE Contains(name, n[i])
    <3>1. CASE i = Len(n)
      <4>1. n[i] = name[k] /\ k \in 1..Len(name)
        BY <1>4, <3>1
      <4> QED
        BY <4>1 DEF Contains
    <3>2. CASE i # Len(n)
      <4>1. i \in 2..Len(q) /\ i \in 1..Len(q)
        BY <1>3, <1>4, <3>2
      <4> QED
        BY <1>4, <4>1 DEF OnItsWay, ComponentsIn
    <3> QED
      BY <3>1, <3>2
  <2> QED
    BY <2>1 DEF ComponentsIn
<1>12. OnItsWay(next, type, name)
  BY <1>0, <1>1a, <1>4, <1>5, <1>6, <1>7, <1>8, <1>9, <1>10, <1>11 DEF OnItsWay
<1>13. Stage(next, g0, name, k)
  <2>1. CASE Broken(acc.g) /\ filter # NoFilter
    BY <1>1a, <1>8, <2>1 DEF Stage, Broken
  <2>2. CASE JustDrawn(acc)
    BY <1>4, <1>6, <2>2 DEF JustDrawn
  <2>3. CASE OnlyLearned(acc, g0, name, k - 1)
    <3>1. /\ NodesOf(next.g) = NodesOf(g0) /\ ~next.g.thrown
          /\ next.g.links = g0.links /\ next.g.drawn = g0.drawn /\ next.g.drawnFor = g0.drawnFor
      BY <1>1a, <1>8, <2>3 DEF OnlyLearned
    <3>2. ASSUME NEW m \in NodesOf(g0)
          PROVE  \/ next.g.chains[m] = g0.chains[m]
                 \/ Above(m, next.qual) /\ next.g.chains[m] = g0.chains[m] \union {name}
      <4>1. /\ m \in NodesOf(acc.g) /\ m \in Path
            /\ \/ acc.g.chains[m] = g0.chains[m]
               \/ Above(m, q) /\ acc.g.chains[m] = g0.chains[m] \union {name}
        BY <2>3 DEF OnlyLearned, OnItsWay, GraphOK, IsTree
      <4>2. CASE m = acc.at /\ acc.at # Center
        <5>1. Above(m, n)
          BY <1>4, <4>2 DEF OnItsWay
        <5>2. r.chains[m] = acc.g.chains[m] \/ r.chains[m] = acc.g.chains[m] \union {name}
          BY <1>1, <4>1 DEF Learns
        <5> QED
          BY <1>8, <4>1, <5>1, <5>2
      <4>3. CASE ~(m = acc.at /\ acc.at # Center)
        <5>1. r.chains[m] = acc.g.chains[m] /\ (Above(m, q) => Above(m, n))
          BY <1>1, <1>4, <4>1, <4>3 DEF Learns
        <5> QED
          BY <1>8, <4>1, <5>1
      <4> QED
        BY <4>2, <4>3
    <3>3. ASSUME NEW i \in 1..k, name[i] # ""
          PROVE  \E j \in 2..Len(next.qual) : next.qual[j] = name[i]
      <4>1. CASE i = k
        <5>1. Len(n) \in 2..Len(n) /\ n[Len(n)] = name[i]
          BY <1>3, <1>4, <1>9, <4>1
        <5> QED
          BY <1>8, <5>1
      <4>2. CASE i # k
        <5>1. i \in 1..k - 1
          BY <1>2, <4>2
        <5>2. PICK j \in 2..Len(q) : q[j] = name[i]
          BY <2>3, <3>3, <5>1 DEF OnlyLearned
        <5>3. j \in 2..Len(n) /\ n[j] = q[j]
          BY <1>3, <1>4
        <5> QED
          BY <1>8, <5>2, <5>3
      <4> QED
        BY <4>1, <4>2
    <3>4. ASSUME "" \notin Range(name)
          PROVE  Len(n) = k + 1 /\ \A i \in 1..k : n[i + 1] = name[i]
      <4>1. Len(q) = k - 1 + 1 /\ \A i \in 1..k - 1 : q[i + 1] = name[i]
        BY <2>3, <3>4 DEF OnlyLearned
      <4>2. ASSUME NEW i \in 1..k PROVE n[i + 1] = name[i]
        <5>1. CASE i = k
          BY <1>2, <1>3, <1>4, <4>1, <5>1
        <5>2. CASE i # k
          <6>1. i \in 1..k - 1 /\ i + 1 \in 1..Len(q)
            BY <1>2, <1>3, <4>1, <5>2
          <6> QED
            BY <1>4, <4>1, <6>1
        <5> QED
          BY <5>1, <5>2
      <4> QED
        BY <1>2, <1>3, <1>4, <4>1, <4>2
    <3>5. "" \in Range(name) \/ (Len(next.qual) = k + 1 /\ \A i \in 1..k : next.qual[i + 1] = name[i])
      BY <1>8, <3>4
    <3> QED
      BY <3>1, <3>2, <3>3, <3>5 DEF Stage, OnlyLearned
  <2> QED
    BY <2>1, <2>2, <2>3 DEF Stage
<1>14. Follows(next, acc, type, name, g0, k)
  BY <1>1a, <1>8, <1>12, <1>13 DEF Follows
<1> QED
  BY <1>14 DEF next, r, n

\* A pushed node is known to all above it, and they know the client by then.
LEMMA PushedLearned ==
  ASSUME NEW type \in {"client", "channel"}, NEW name \in Names, NEW g, GraphOK(g),
         NEW n \in Path, n \notin NodesOf(g), Len(n) >= 2, n[1] = Root(type), ComponentsIn(n, name),
         NEW r, NodesOf(r) = NodesOf(g) \union {n}, r.chains[n] = {name},
         \A m \in NodesOf(g) : g.chains[m] \subseteq r.chains[m],
         \A m \in NodesOf(g) \ {Center} : type = "client" /\ Above(m, n) => name \in r.chains[m]
  PROVE  Learned(r)
<1> SUFFICES ASSUME NEW a \in NodesOf(r) \ {Center}, NEW b \in NodesOf(r) \ {Center},
                    IsClient(a), a = b \/ Above(a, b)
             PROVE  \E x \in r.chains[a] : ComponentsIn(b, x)
  BY DEF Learned
<1>1. CASE a \in NodesOf(g) /\ b \in NodesOf(g)
  <2>1. PICK x \in g.chains[a] : ComponentsIn(b, x)
    BY <1>1 DEF GraphOK, Learned
  <2> QED
    BY <1>1, <2>1
<1>2. CASE a = n /\ b = n
  BY <1>2
<1>3. CASE a \in NodesOf(g) /\ b = n
  <2>1. Above(a, n)
    BY <1>3
  <2>2. a \in Path /\ Len(a) >= 2 /\ Len(a) \in Nat
    BY <1>3, UpIsNode, CenterFacts DEF GraphOK
  <2>3. a[1] = n[1] /\ a # <<>>
    <3>1. 1 \in 1..Len(a)
      BY <2>2
    <3> QED
      BY <2>1, <3>1 DEF Above, Center
  <2>4. Head(a) = a[1]
    <3>1. a \in Seq(STRING)
      BY <2>2 DEF Path
    <3> QED
      BY <3>1
  <2>5. type = "client"
    BY <2>3, <2>4 DEF IsClient, Root
  <2> QED
    BY <1>3, <2>1, <2>5
<1>4. CASE a = n /\ b \in NodesOf(g)
  <2>1. Above(n, b)
    BY <1>4
  <2> QED
    BY <1>4, <2>1 DEF GraphOK, IsTree
<1> QED
  BY <1>1, <1>2, <1>3, <1>4

\* A component whose node is pushed keeps the tree, and leaves it drawn but for that node.
LEMMA NewComponent ==
  ASSUME NEW type \in {"client", "channel"}, NEW name \in Names, NEW g0,
         NEW k \in 1..Len(name), NEW acc, OnItsWay(acc, type, name), name \in Path,
         filter \in Texts, Append(acc.qual, name[k]) \notin NodesOf(acc.g)
  PROVE  LET n == Append(acc.qual, name[k])
             g == Learn(acc.g, acc.at, type, name)
             next == [g |-> Update(Pushed(g, n, acc.at, type, name), filter),
                      qual |-> n, at |-> n]
         IN Follows(next, acc, type, name, g0, k)
<1> DEFINE g == Learn(acc.g, acc.at, type, name)
           q == acc.qual
           n == Append(q, name[k])
           p == Pushed(g, n, acc.at, type, name)
           r == Update(p, filter)
           next == [g |-> r, qual |-> n, at |-> n]
           D == NodesOf(acc.g)
<1>0. Shape(acc.g) /\ IsTree(acc.g) /\ Learned(acc.g) /\ Center \in D
  BY DEF OnItsWay, GraphOK, IsTree
<1>1. Learns(g, acc.g, acc.at, type, name)
  BY <1>0, LearnFacts
<1>2. name[k] \in STRING /\ Len(name) \in Nat /\ k \in Nat
  BY CenterFacts DEF Path
<1>3. /\ q \in Path /\ Len(q) >= 1 /\ Len(q) \in Nat /\ q[1] = Root(type)
      /\ (Len(q) = 1 /\ acc.at = Center) \/ (Len(q) >= 2 /\ acc.at = q /\ q \in D)
  BY CenterFacts DEF OnItsWay
<1>4. /\ n \in Path /\ Len(n) = Len(q) + 1 /\ n[Len(n)] = name[k] /\ n[1] = q[1]
      /\ \A i \in 1..Len(q) : n[i] = q[i]
      /\ Above(q, n)
      /\ \A x \in Path : Above(x, n) <=> (x = q \/ Above(x, q))
      /\ Up(n) = IF Len(q) = 1 THEN Center ELSE q
  BY <1>2, <1>3, AppendFacts
<1>5. \A m \in D \ {Center} : type = "client" /\ Above(m, n) => name \in g.chains[m]
  BY <1>2, AllAboveKnow
<1>6. n \notin D
  OBVIOUS
<1>7. Up(n) = acc.at /\ acc.at \in D
  <2>1. Len(q) >= 2 => Len(q) # 1
    BY <1>3, OneOrMore
  <2> HIDE DEF n
  <2> QED
    BY <1>0, <1>3, <1>4, <2>1
<1>8. Pushes(p, g, n, acc.at, type, name)
  <2>1. Shape(g) /\ NodesOf(g) = D /\ type \in Types
    BY <1>1 DEF Learns, Types
  <2> HIDE DEF g, n
  <2> QED
    BY <1>6, <1>7, <2>1, PushedFacts
<1>9. Redraws(r, p, filter)
  <2>1. Shape(p)
    BY <1>8 DEF Pushes
  <2> HIDE DEF p
  <2> QED
    BY <2>1, UpdateFacts
<1>10. /\ NodesOf(r) = D \union {n} /\ r.chains[n] = {name}
       /\ \A m \in D : r.chains[m] = g.chains[m]
       /\ r.links = acc.g.links \union {[source |-> n, target |-> Up(n), type |-> type]}
  <2> HIDE DEF g, n, p, r
  <2> QED
    BY <1>1, <1>7, <1>8, <1>9 DEF Learns, Pushes, Redraws
<1>11. IsTree(r)
  <2>1. q[1] \in {"clients", "channels"}
    BY <1>3 DEF Root
  <2>2. Len(q) = 1 \/ q \in D
    BY <1>3
  <2>3. /\ NodesOf(r) = NodesOf(acc.g) \union {Append(q, name[k])}
        /\ r.links = acc.g.links \union
             {[source |-> Append(q, name[k]), target |-> Up(Append(q, name[k])), type |-> type]}
    BY <1>10
  <2> HIDE DEF r
  <2> QED
    BY <1>0, <1>2, <1>3, <2>1, <2>2, <2>3, TreeGrows
<1>12. Broken(r) <=> Broken(acc.g)
  <2>1. Up(n) # None
    <3>1. Up(n) \in Path
      BY <1>0, <1>7 DEF IsTree
    <3> HIDE DEF n
    <3> QED
      BY <3>1, GraphVisAssumption DEF Path
  <2> HIDE DEF n, r
  <2>2. \A l : l \in r.links => l \in acc.g.links \/ l.target # None
    BY <1>10, <2>1
  <2>3. acc.g.links \subseteq r.links
    BY <1>10
  <2> QED
    BY <2>2, <2>3 DEF Broken
<1> HIDE DEF g, n, p, r, D
<1>13. ComponentsIn(n, name)
  <2>1. ASSUME NEW i \in 2..Len(n) PROVE Contains(name, n[i])
    <3>1. CASE i = Len(n)
      <4>1. n[i] = name[k] /\ k \in 1..Len(name)
        BY <1>4, <3>1
      <4> QED
        BY <4>1 DEF Contains
    <3>2. CASE i # Len(n)
      <4>1. i \in 2..Len(q) /\ i \in 1..Len(q)
        BY <1>3, <1>4, <3>2
      <4> QED
        BY <1>4, <4>1 DEF OnItsWay, ComponentsIn
    <3> QED
      BY <3>1, <3>2
  <2> QED
    BY <2>1 DEF ComponentsIn
<1>14. Len(n) >= 2 /\ Len(n) >= 1 /\ n # Center
  <2>1. Len(n) >= 2 /\ Len(n) >= 1
    BY <1>3, <1>4
  <2> QED
    BY <2>1, CenterFacts
<1>15. \A m \in D : acc.g.chains[m] \subseteq r.chains[m]
  BY <1>1, <1>10 DEF Learns, D
<1>16. \A m \in D \ {Center} : type = "client" /\ Above(m, n) => name \in r.chains[m]
  BY <1>5, <1>10
<1>17. GraphOK(r)
  <2>1. Learned(r)
    <3>1. n[1] = Root(type) /\ GraphOK(acc.g)
      BY <1>3, <1>4 DEF OnItsWay
    <3>2. NodesOf(r) = NodesOf(acc.g) \union {n} /\ n \notin NodesOf(acc.g)
      BY <1>6, <1>10 DEF D
    <3>3. /\ \A m \in NodesOf(acc.g) : acc.g.chains[m] \subseteq r.chains[m]
          /\ \A m \in NodesOf(acc.g) \ {Center} : type = "client" /\ Above(m, n) => name \in r.chains[m]
      BY <1>15, <1>16 DEF D
    <3>4. n \in Path /\ r.chains[n] = {name}
      BY <1>4, <1>10
    <3> QED
      BY <1>13, <1>14, <3>1, <3>2, <3>3, <3>4, PushedLearned
  <2>2. Shape(r) /\ (r.thrown => Broken(r))
    BY <1>9 DEF Redraws, Broken
  <2>3. Kept(r)
    <3>1. \A m \in NodesOf(acc.g) : acc.g.chains[m] \subseteq p.chains[m]
      BY <1>1, <1>8 DEF Learns, Pushes
    <3>2. p.drawn = acc.g.drawn /\ p.drawnFor = acc.g.drawnFor /\ p.entered = acc.g.entered
      BY <1>1, <1>8 DEF Learns, Pushes
    <3>3. Kept(acc.g)
      BY DEF OnItsWay, GraphOK
    <3>4. Kept(p)
      BY <1>0, <3>1, <3>2, <3>3, KeptGrows
    <3> QED
      BY <1>9, <3>4 DEF Redraws
  <2> QED
    BY <1>11, <2>1, <2>2, <2>3 DEF GraphOK
<1>18. ~Above(n, n)
  BY <1>3, <1>4 DEF Above
<1>19. OnItsWay(next, type, name)
  <2>1. next = [g |-> r, qual |-> n, at |-> n]
    OBVIOUS
  <2> HIDE DEF next
  <2>2. next.g = r /\ next.qual = n /\ next.at = n
    BY <2>1
  <2>3. n \in NodesOf(r)
    BY <1>10
  <2>4. type = "client" => \A m \in NodesOf(r) \ {Center} : Above(m, n) => name \in r.chains[m]
    BY <1>10, <1>16, <1>18
  <2> QED
    BY <1>3, <1>4, <1>13, <1>14, <1>17, <2>1, <2>2, <2>3, <2>4 DEF OnItsWay
<1>20. DrawnOK(r, filter)
  BY <1>9 DEF Redraws
<1>21. Stage(next, g0, name, k)
  <2>1. \A m \in NodesOf(r) : ~Above(n, m)
    <3>1. ASSUME NEW m \in D PROVE ~Above(n, m)
      BY <1>0, <1>4, <1>6, <1>14 DEF IsTree, D
    <3> QED
      BY <1>10, <1>18, <3>1
  <2>2. next.g = r /\ next.qual = n
    OBVIOUS
  <2> HIDE DEF next
  <2> QED
    BY <1>20, <2>1, <2>2 DEF Stage, JustDrawn
<1>22. NodesOf(acc.g) \subseteq NodesOf(next.g)
  BY <1>10 DEF D
<1>23. Follows(next, acc, type, name, g0, k)
  BY <1>19, <1>21, <1>22 DEF Follows
<1> QED
  BY <1>23 DEF next, r, p, n, g

\* Whatever a component finds, the graph stays a tree that is drawn as it should be.
LEMMA ComponentStep ==
  ASSUME NEW type \in {"client", "channel"}, NEW name \in Names, NEW g0,
         NEW k \in 1..Len(name), NEW acc, OnItsWay(acc, type, name), name \in Path,
         Stage(acc, g0, name, k - 1), filter \in Texts
  PROVE  Follows(AddComponent(acc, type, name, name[k]), acc, type, name, g0, k)
<1> DEFINE comp == name[k]
           n == Append(acc.qual, comp)
           g == Learn(acc.g, acc.at, type, name)
           next == AddComponent(acc, type, name, comp)
           pushed == Pushed(g, n, acc.at, type, name)
<1>1. CASE acc.g.thrown \/ comp = ""
  <2>1. next = acc
    BY <1>1 DEF AddComponent
  <2>2. Stage(acc, g0, name, k)
    <3>1. CASE acc.g.thrown
      <4>1. Broken(acc.g)
        BY <3>1 DEF OnItsWay, GraphOK
      <4> QED
        BY <3>1, <4>1 DEF OnlyLearned, Stage
    <3>2. CASE comp = "" /\ OnlyLearned(acc, g0, name, k - 1)
      <4>1. Len(name) \in Nat /\ k \in Nat
        BY CenterFacts
      <4>2. \A i \in 1..k : i # k => i \in 1..k - 1
        BY <4>1
      <4>3. \A i \in 1..k : name[i] # "" => \E j \in 2..Len(acc.qual) : acc.qual[j] = name[i]
        BY <3>2, <4>2 DEF OnlyLearned
      <4>4. "" \in Range(name)
        <5>1. k \in DOMAIN name
          BY CenterFacts DEF Path
        <5> QED
          BY <3>2, <5>1 DEF Range
      <4> QED
        BY <3>2, <4>3, <4>4 DEF OnlyLearned, Stage
    <3>3. CASE (Broken(acc.g) /\ filter # NoFilter) \/ JustDrawn(acc)
      BY <3>3 DEF Stage
    <3> QED
      BY <1>1, <3>1, <3>2, <3>3 DEF Stage
  <2> QED
    BY <2>1, <2>2 DEF Follows
<1>2. CASE ~(acc.g.thrown \/ comp = "") /\ n \notin NodesOf(acc.g)
  <2>1. NodesOf(g) = NodesOf(acc.g)
    BY LearnFacts DEF Learns, OnItsWay, GraphOK
  <2>2. ~Known(g, n)
    BY <1>2, <2>1 DEF Known, NodesOf
  <2>3. next = [g |-> Update(pushed, filter), qual |-> n, at |-> n]
    BY <1>2, <2>2 DEF AddComponent, Pushed
  <2> QED
    BY <1>2, <2>3, NewComponent
<1>3. CASE ~(acc.g.thrown \/ comp = "") /\ n \in NodesOf(acc.g)
  <2>0. Shape(acc.g)
    BY DEF OnItsWay, GraphOK
  <2>1. Learns(g, acc.g, acc.at, type, name)
    BY <2>0, LearnFacts
  <2>2. Known(g, n)
    BY <1>3, <2>1 DEF Known, NodesOf, Learns
  <2>3. HasLink(g, n, acc.at)
    <3>1. n # Center /\ Up(n) = acc.at
      <4>1. acc.qual \in Path /\ Len(acc.qual) >= 1 /\ Len(acc.qual) \in Nat /\ comp \in STRING
            /\ ((Len(acc.qual) = 1 /\ acc.at = Center) \/ (Len(acc.qual) >= 2 /\ acc.at = acc.qual))
        BY CenterFacts DEF OnItsWay, Path
      <4>2. n \in Path /\ Len(n) = Len(acc.qual) + 1 /\ Up(n) = IF Len(acc.qual) = 1 THEN Center ELSE acc.qual
        BY <4>1, AppendFacts
      <4>3. Len(acc.qual) >= 2 => Len(acc.qual) # 1
        BY <4>1, OneOrMore
      <4> HIDE DEF n
      <4>4. n # Center
        BY <4>1, <4>2, CenterFacts
      <4> QED
        BY <4>1, <4>2, <4>3, <4>4
    <3>2. PICK l \in acc.g.links : l.source = n /\ l.target = Up(n)
      BY <1>3, <3>1 DEF OnItsWay, GraphOK, IsTree
    <3>3. l \in g.links
      BY <2>1, <3>2 DEF Learns
    <3> QED
      BY <3>1, <3>2, <3>3 DEF HasLink
  <2>4. next = [acc EXCEPT !.g = g, !.qual = n, !.at = n]
    BY <1>3, <2>2, <2>3 DEF AddComponent
  <2>5. next = [g |-> g, qual |-> n, at |-> n]
    BY <2>4, NextRecord DEF OnItsWay
  <2> QED
    BY <1>3, <2>5, KnownComponent
<1> QED
  BY <1>1, <1>2, <1>3

\* The components are taken one after the other.
LEMMA PathStepsFacts ==
  ASSUME NEW g, NEW type, NEW name \in Path
  PROVE  /\ PathSteps(g, type, name)[0] =
              [g |-> g, qual |-> <<Root(type)>>, at |-> Center]
         /\ \A k \in 1..Len(name) : PathSteps(g, type, name)[k] =
              AddComponent(PathSteps(g, type, name)[k - 1], type, name, name[k])
<1> DEFINE n == Len(name)
           a == [g |-> g, qual |-> <<Root(type)>>, at |-> Center]
           Step(acc, k) == AddComponent(acc, type, name, name[k])
           Is(f, m) == f[0] = a /\ \A k \in 1..m : f[k] = Step(f[k - 1], k)
           T == {m \in 0..n : \E f : Is(f, m)}
           F(d) == [k \in 0..n |-> IF k = 0 THEN a ELSE Step(d[k - 1], k)]
<1>0. n \in Nat
  BY CenterFacts
<1> HIDE DEF n, a, Step
<1>1. 0 \in T
  <2>1. Is([k \in 0..0 |-> a], 0)
    OBVIOUS
  <2> HIDE DEF Is
  <2> QED
    BY <1>0, <2>1
<1>2. ASSUME NEW m \in 1..n, m - 1 \in T PROVE m \in T
  <2>1. PICK f : Is(f, m - 1)
    BY <1>2
  <2> DEFINE h == [k \in 0..m |-> IF k = m THEN Step(f[m - 1], m) ELSE f[k]]
  <2>2. h[0] = a
    BY <1>0, <2>1
  <2>3. ASSUME NEW k \in 1..m PROVE h[k] = Step(h[k - 1], k)
    <3>1. h[k - 1] = f[k - 1]
      BY <1>0
    <3>2. CASE k = m
      BY <1>0, <3>1, <3>2
    <3>3. CASE k # m
      <4>1. k \in 1..(m - 1)
        BY <1>0, <3>3
      <4>2. h[k] = f[k] /\ f[k] = Step(f[k - 1], k)
        BY <1>0, <2>1, <3>3, <4>1
      <4> QED
        BY <3>1, <4>2
    <3> QED
      BY <3>2, <3>3
  <2> HIDE DEF h
  <2>4. Is(h, m)
    BY <2>2, <2>3
  <2> HIDE DEF Is
  <2> QED
    BY <1>0, <2>4
<1> HIDE DEF T
<1>3. n \in T
  <2>1. n \in 0..n
    BY <1>0
  <2> QED
    BY <1>0, <1>1, <1>2, <2>1, Climb
<1>4. PICK f : Is(f, n)
  BY <1>3 DEF T
<1> DEFINE d == [k \in 0..n |-> f[k]]
<1>5. d = F(d)
  <2>1. d[0] = a /\ \A k \in 1..n : d[k] = Step(d[k - 1], k)
    <3>1. \A k \in 1..n : d[k] = f[k] /\ d[k - 1] = f[k - 1]
      BY <1>0
    <3>2. d[0] = f[0]
      BY <1>0
    <3> HIDE DEF d
    <3> QED
      BY <1>4, <3>1, <3>2
  <2>2. d = [k \in 0..n |-> d[k]]
    OBVIOUS
  <2> HIDE DEF d
  <2>3. [k \in 0..n |-> d[k]] = F(d)
    BY <2>1
  <2> HIDE DEF F
  <2> QED
    BY <2>2, <2>3
<1> DEFINE s == PathSteps(g, type, name)
<1>6. s = CHOOSE x : x = F(x)
  BY DEF PathSteps, Step, a, n
<1>7. s = F(s)
  <2> HIDE DEF F, d, s
  <2> QED
    BY <1>5, <1>6
<1> HIDE DEF s
<1>8. s[0] = a /\ \A k \in 1..n : s[k] = Step(s[k - 1], k)
  BY <1>0, <1>7
<1> QED
  BY <1>8 DEF s, a, Step, n

\* What adding to a graph leaves: a graph that is whole, and drawn.
Whole(g) == GraphOK(g) /\ DrawnOK(g, filter)
Grown(r, g) == Whole(r) /\ NodesOf(g) \subseteq NodesOf(r)

\* What a sequence of one element is.
LEMMA OneElement ==
  ASSUME NEW S, NEW x \in S
  PROVE  <<x>> \in Seq(S) /\ Len(<<x>>) = 1 /\ <<x>>[1] = x
  OBVIOUS

\* Names are paths, and None is not.
LEMMA NamesArePaths == Names \subseteq Path /\ None \notin Path
BY GraphVisAssumption DEF Names, Path

\* A filter of one component matches the names that have it.
LEMMA OneComponent ==
  ASSUME NEW f \in Texts, f # NoFilter, Len(f) = 1, NEW name \in Path
  PROVE  /\ f[1] # ""
         /\ Matches(f, name) <=> \E i \in 1..Len(name) : name[i] = f[1]
         /\ Matches(f, name) <=> Contains(name, f[1])
<1>1. f \in Seq(STRING) /\ Len(name) \in Nat
  BY GraphVisAssumption, CenterFacts DEF Texts, Path
<1>2. f[1] # ""
  <2>1. SUFFICES ASSUME f[1] = "" PROVE f = <<"">>
    BY DEF NoFilter
  <2>2. PICK x : x = <<"">>
    OBVIOUS
  <2>3. x \in Path /\ Len(x) = 1 /\ x[1] = ""
    <3>1. 1 \in 1..Len(f) /\ f[1] \in STRING
      BY <1>1
    <3> QED
      BY <2>1, <2>2, <3>1, OneElement DEF Path
  <2>4. \A i \in 1..Len(x) : x[i] = f[i]
    <3>1. ASSUME NEW k \in Nat, k = 1 PROVE 1..k = {1}
      BY <3>1
    <3>2. PICK k \in Nat : k = Len(x) /\ k = 1
      BY <2>3
    <3>3. 1..k = {1}
      BY <3>1, <3>2
    <3> QED
      BY <2>1, <2>3, <3>2, <3>3
  <2>5. f \in Path
    BY <1>1 DEF Path
  <2> QED
    BY <2>2, <2>3, <2>4, <2>5, SamePath
<1>3. 1..Len(f) = {1}
  OBVIOUS
<1>4. Matches(f, name) <=> \E at \in 0..Len(name) - 1 : f[1] = name[at + 1]
  BY <1>2, <1>3 DEF Matches
<1>5. (\E at \in 0..Len(name) - 1 : f[1] = name[at + 1]) <=> \E i \in 1..Len(name) : name[i] = f[1]
  <2>1. ASSUME NEW at \in 0..Len(name) - 1, f[1] = name[at + 1]
        PROVE  \E i \in 1..Len(name) : name[i] = f[1]
    <3>1. at + 1 \in 1..Len(name)
      BY <1>1
    <3> QED
      BY <2>1, <3>1
  <2>2. ASSUME NEW i \in 1..Len(name), name[i] = f[1]
        PROVE  \E at \in 0..Len(name) - 1 : f[1] = name[at + 1]
    <3>1. i - 1 \in 0..Len(name) - 1 /\ (i - 1) + 1 = i
      BY <1>1
    <3> QED
      BY <2>2, <3>1
  <2> QED
    BY <2>1, <2>2
<1> QED
  BY <1>2, <1>4, <1>5 DEF Contains

\* The node of a name without empty components is where the way along it ends.
LEMMA WayOfName ==
  ASSUME NEW type, NEW name \in Path, NEW qual \in Path, qual[1] = Root(type),
         Len(qual) = Len(name) + 1, \A i \in 1..Len(name) : qual[i + 1] = name[i]
  PROVE  qual = Named(type, name)
<1>1. PICK n, root : n = Named(type, name) /\ root = Root(type)
  OBVIOUS
<1>2. root \in STRING
  <2>1. root \in {"clients", "channels"}
    BY <1>1 DEF Root
  <2> QED
    BY <2>1, GraphVisAssumption
<1>3. /\ name \in Seq(STRING) /\ Len(name) \in Nat /\ Len(qual) \in Nat
      /\ <<root>> \in Seq(STRING) /\ Len(<<root>>) = 1 /\ <<root>>[1] = root
  BY <1>2, CenterFacts, OneElement DEF Path
<1>4. n = <<root>> \o name
  BY <1>1 DEF Named
<1>5. /\ n \in Seq(STRING) /\ Len(n) = Len(<<root>>) + Len(name)
      /\ \A i \in 1..Len(<<root>>) : n[i] = <<root>>[i]
      /\ \A i \in 1..Len(name) : n[Len(<<root>>) + i] = name[i]
  BY <1>3, <1>4, ConcatFacts
<1>6. n \in Path /\ Len(n) = Len(qual)
  BY <1>3, <1>5 DEF Path
<1>7. ASSUME NEW i \in 1..Len(qual) PROVE n[i] = qual[i]
  <2>1. CASE i = 1
    BY <1>1, <1>3, <1>5, <2>1
  <2>2. CASE i # 1
    <3>1. PICK j \in 1..Len(name) : i = j + 1
      <4>1. i - 1 \in 1..Len(name) /\ i = (i - 1) + 1
        BY <1>3, <2>2
      <4> QED
        BY <4>1
    <3>2. n[1 + j] = name[j] /\ 1 + j = j + 1
      BY <1>3, <1>5
    <3> QED
      BY <3>1, <3>2
  <2> QED
    BY <2>1, <2>2
<1>8. n = qual
  BY <1>6, <1>7, SamePath
<1> QED
  BY <1>1, <1>8

\* A name of which all components were known tells no filter anything new, but for
\* one with an empty component that has no node of its own.
LEMMA NothingNew ==
  ASSUME NEW type \in {"client", "channel"}, NEW name \in Names, name \in Path, NEW g0,
         NEW acc, OnItsWay(acc, type, name), Whole(g0), Named(type, name) \notin NodesOf(g0),
         OnlyLearned(acc, g0, name, Len(name)), filter \in Texts
  PROVE  DrawnOK(acc.g, filter)
<1> SUFFICES ASSUME filter = NoFilter \/ ~Broken(acc.g)
             PROVE  Shown(acc.g, filter)
  BY DEF DrawnOK
<1>1. /\ NodesOf(acc.g) = NodesOf(g0)
      /\ acc.g.links = g0.links /\ acc.g.drawn = g0.drawn /\ acc.g.drawnFor = g0.drawnFor
  BY DEF OnlyLearned
<1>2. Shown(g0, filter)
  BY <1>1 DEF Whole, DrawnOK, Broken
<1>3. ASSUME NEW n \in NodesOf(g0), Picks(acc.g, filter, n) PROVE Picks(g0, filter, n)
  <2>1. CASE acc.g.chains[n] = g0.chains[n]
    BY <1>3, <2>1 DEF Picks
  <2>2. CASE filter = NoFilter \/ ~IsClient(n)
    BY <2>2 DEF Picks
  <2>3. CASE ~(filter = NoFilter \/ ~IsClient(n)) /\ acc.g.chains[n] # g0.chains[n]
    <3>1. Above(n, acc.qual) /\ acc.g.chains[n] = g0.chains[n] \union {name}
      BY <2>3 DEF OnlyLearned
    <3>2. n # Center /\ n \in Path /\ Len(n) >= 2 /\ Len(n) \in Nat
      BY <2>3, UpIsNode, CenterFacts DEF Whole, GraphOK, IsClient
    <3>3. acc.qual \in NodesOf(g0) \ {Center} /\ acc.qual \in Path
      <4>1. acc.qual \in Path /\ Len(acc.qual) \in Nat /\ Len(acc.qual) # 1 /\ Len(acc.qual) # 0
        BY <3>1, <3>2, CenterFacts DEF OnItsWay, Above
      <4>2. acc.qual # Center
        BY <4>1, CenterFacts
      <4> QED
        BY <1>1, <4>1, <4>2 DEF OnItsWay
    <3>4. "" \in Range(name)
      <4>1. SUFFICES ASSUME "" \notin Range(name) PROVE FALSE
        OBVIOUS
      <4>2. Len(acc.qual) = Len(name) + 1 /\ \A i \in 1..Len(name) : acc.qual[i + 1] = name[i]
        BY <4>1 DEF OnlyLearned
      <4>3. acc.qual[1] = Root(type)
        BY DEF OnItsWay
      <4>4. acc.qual = Named(type, name)
        BY <3>3, <4>2, <4>3, WayOfName
      <4> QED
        BY <3>3, <4>4
    <3>5. PICK x \in g0.chains[n] : ComponentsIn(acc.qual, x)
      BY <2>3, <3>1, <3>2, <3>3 DEF Whole, GraphOK, Learned
    <3>6. PICK y \in acc.g.chains[n] : Matches(filter, y) /\ ("" \in Range(y) => Len(filter) = 1)
      BY <1>3, <2>3 DEF Picks
    <3>7. CASE y # name
      BY <3>1, <3>6, <3>7 DEF Picks
    <3>8. CASE y = name
      <4>1. Len(filter) = 1 /\ filter # NoFilter /\ Matches(filter, name)
        BY <2>3, <3>4, <3>6, <3>8
      <4>2. PICK i \in 1..Len(name) : name[i] = filter[1]
        BY <4>1, OneComponent
      <4>3. filter[1] # ""
        BY <4>1, OneComponent
      <4>4. PICK j \in 2..Len(acc.qual) : acc.qual[j] = name[i]
        BY <4>2, <4>3 DEF OnlyLearned
      <4>5. Contains(x, filter[1])
        BY <3>5, <4>2, <4>4 DEF ComponentsIn
      <4>6. x \in Path
        <5>1. x \in Names
          BY <3>5 DEF Whole, GraphOK, Shape
        <5> QED
          BY <5>1, NamesArePaths
      <4>7. Matches(filter, x)
        BY <4>1, <4>5, <4>6, OneComponent
      <4> QED
        BY <3>5, <4>1, <4>7 DEF Picks
    <3> QED
      BY <3>7, <3>8
  <2> QED
    BY <2>1, <2>2, <2>3
<1> QED
  BY <1>1, <1>2, <1>3 DEF Shown

\* Any path that is added leaves a whole graph, whatever was known of it before and
\* wherever an exception cut it off.
LEMMA AddPathFacts ==
  ASSUME NEW type \in {"client", "channel"}, NEW name \in Names, NEW g,
         Whole(g), ~g.thrown, Named(type, name) \notin NodesOf(g), filter \in Texts
  PROVE  Grown(AddPath(g, type, name), g)
<1> DEFINE n == Len(name)
           s == PathSteps(g, type, name)
           OK(k) == /\ OnItsWay(s[k], type, name) /\ Stage(s[k], g, name, k)
                    /\ NodesOf(g) \subseteq NodesOf(s[k].g)
           T == {k \in 0..n : OK(k)}
<1>1. name \in Path /\ n \in Nat
  BY NamesArePaths, CenterFacts
<1>2. /\ s[0] = [g |-> g, qual |-> <<Root(type)>>, at |-> Center]
      /\ \A k \in 1..n : s[k] = AddComponent(s[k - 1], type, name, name[k])
  BY <1>1, PathStepsFacts
<1>3. GraphOK(g)
  BY DEF Whole
<1> HIDE DEF s
<1>4. OK(0)
  <2> DEFINE q == <<Root(type)>>
  <2>1. q \in Path /\ Len(q) = 1 /\ q[1] = Root(type)
    <3>1. PICK root : root = Root(type)
      OBVIOUS
    <3>2. root \in STRING
      <4>1. root \in {"clients", "channels"}
        BY <3>1 DEF Root
      <4>2. "clients" \in STRING /\ "channels" \in STRING
        BY GraphVisAssumption
      <4> QED
        BY <4>1, <4>2
    <3>3. <<root>> \in Seq(STRING) /\ Len(<<root>>) = 1 /\ <<root>>[1] = root
      BY <3>2
    <3> QED
      BY <3>1, <3>3 DEF Path
  <2> HIDE DEF q
  <2>2. s[0] = [g |-> g, qual |-> q, at |-> Center]
    BY <1>2 DEF q
  <2>3. s[0].g = g /\ s[0].qual = q /\ s[0].at = Center
    BY <2>2
  <2>4. ComponentsIn(q, name)
    BY <2>1 DEF ComponentsIn
  <2>5. ASSUME NEW m \in NodesOf(g) \ {Center} PROVE ~Above(m, q)
    <3>1. Len(m) >= 2 /\ Len(m) \in Nat
      BY <1>3, UpIsNode, CenterFacts DEF GraphOK
    <3> QED
      BY <2>1, <3>1 DEF Above
  <2>6. OnItsWay(s[0], type, name)
    <3>1. Len(q) >= 1
      BY <2>1
    <3> QED
      BY <1>3, <2>1, <2>2, <2>3, <2>4, <2>5, <3>1 DEF OnItsWay
  <2>7. OnlyLearned(s[0], g, name, 0)
    <3>1. Len(q) = 0 + 1 /\ 1..0 = {}
      BY <2>1
    <3> QED
      BY <2>3, <3>1 DEF OnlyLearned
  <2> QED
    BY <2>3, <2>6, <2>7 DEF Stage
<1>5. ASSUME NEW k \in 1..n, OK(k - 1) PROVE OK(k)
  <2>1. PICK acc : acc = s[k - 1]
    OBVIOUS
  <2>2. OnItsWay(acc, type, name) /\ Stage(acc, g, name, k - 1)
        /\ NodesOf(g) \subseteq NodesOf(acc.g)
    BY <1>5, <2>1
  <2>3. s[k] = AddComponent(acc, type, name, name[k])
    BY <1>2, <2>1
  <2>4. Follows(s[k], acc, type, name, g, k)
    BY <1>1, <1>3, <2>2, <2>3, ComponentStep
  <2> QED
    BY <2>2, <2>4 DEF Follows
<1> HIDE DEF OK
<1>6. 0 \in T /\ \A k \in 1..n : k - 1 \in T => k \in T
  BY <1>1, <1>4, <1>5
<1>7. OK(n)
  <2> HIDE DEF T, n
  <2>1. n \in 0..n
    BY <1>1
  <2>2. n \in T
    BY <1>1, <1>6, <2>1, Climb
  <2> QED
    BY <2>2 DEF T
<1>8. PICK acc : acc = s[n]
  OBVIOUS
<1>9. OnItsWay(acc, type, name) /\ Stage(acc, g, name, n)
      /\ NodesOf(g) \subseteq NodesOf(acc.g)
  BY <1>7, <1>8 DEF OK
<1>10. DrawnOK(acc.g, filter)
  <2>1. CASE Broken(acc.g) /\ filter # NoFilter
    BY <2>1 DEF DrawnOK
  <2>2. CASE JustDrawn(acc)
    BY <2>2 DEF JustDrawn
  <2>3. CASE OnlyLearned(acc, g, name, n)
    BY <1>1, <1>9, <2>3, NothingNew
  <2> QED
    BY <1>9, <2>1, <2>2, <2>3 DEF Stage
<1>11. AddPath(g, type, name) = acc.g
  BY <1>8 DEF AddPath, s
<1>12. Grown(acc.g, g)
  BY <1>9, <1>10 DEF Grown, Whole, OnItsWay
<1> QED
  BY <1>11, <1>12

\* A name that is looked up, and added if need be, leaves the graph as it should be.
LEMMA EnsureFacts ==
  ASSUME NEW type \in {"client", "channel"}, NEW name \in Names, NEW g,
         Whole(g), filter \in Texts
  PROVE  Grown(Ensure(g, type, name), g)
<1>1. CASE Known(g, Named(type, name)) \/ g.thrown
  BY <1>1 DEF Ensure, Grown
<1>2. CASE ~(Known(g, Named(type, name)) \/ g.thrown)
  BY <1>2, AddPathFacts DEF Ensure, Known, NodesOf
<1> QED
  BY <1>1, <1>2

----------------------------------------------------------------------------
(* Subscriptions, and the timer that draws them.                              *)

\* A link to a subscriber, or to nothing, leaves the tree as it is.
LEMMA LinkFacts ==
  ASSUME NEW g, Whole(g), filter \in Texts,
         NEW target \in NodesOf(g), NEW s \in NodesOf(g) \union {None}
  PROVE  LET r == Update(NewLink(g, target, s, "subscription"), filter)
         IN /\ Whole(r) /\ NodesOf(r) = NodesOf(g)
            /\ r.thrown = Broken(r) /\ (s = None => Broken(r))
<1> DEFINE p == NewLink(g, target, s, "subscription")
           r == Update(p, filter)
           l0 == [source |-> target, target |-> s, type |-> "subscription"]
<1>1. Links(p, g, target, s, "subscription")
  BY NewLinkFacts DEF Whole, GraphOK, Types
<1>2. Redraws(r, p, filter)
  <2>1. Shape(p)
    BY <1>1 DEF Links
  <2> HIDE DEF p
  <2> QED
    BY <2>1, UpdateFacts
<1> HIDE DEF p, r
<1>3. /\ NodesOf(r) = NodesOf(g) /\ r.chains = g.chains /\ r.links = g.links \union {l0}
      /\ p.chains = g.chains /\ p.drawn = g.drawn /\ Shape(r) /\ r.thrown = Broken(p) /\ p.links = r.links
  BY <1>1, <1>2 DEF Links, Redraws
<1>4. r.thrown = Broken(r)
  BY <1>3 DEF Broken
<1>5. s = None => Broken(r)
  <2>1. l0 \in r.links /\ l0.target = s
    BY <1>3
  <2> QED
    BY <2>1 DEF Broken
<1>6. Broken(g) => Broken(r)
  BY <1>3 DEF Broken
<1>7. IsTree(r)
  <2>1. \A l \in r.links : l.type # "subscription" => l \in g.links
    BY <1>3
  <2>2. g.links \subseteq r.links
    BY <1>3
  <2> QED
    BY <1>3, <2>1, <2>2 DEF Whole, GraphOK, IsTree
<1>8. Learned(r) /\ Kept(r)
  <2>1. Shape(g) /\ Kept(g) /\ p.drawnFor = g.drawnFor /\ p.entered = g.entered
    BY <1>1 DEF Whole, GraphOK, Links
  <2>2. Kept(p)
    BY <1>3, <2>1, KeptGrows
  <2> QED
    BY <1>2, <1>3, <2>2 DEF Whole, GraphOK, Learned, Redraws
<1>9. GraphOK(r)
  BY <1>3, <1>4, <1>7, <1>8 DEF GraphOK
<1>10. DrawnOK(r, filter)
  BY <1>2 DEF Redraws
<1> QED
  BY <1>3, <1>4, <1>5, <1>9, <1>10 DEF p, r, Whole

\* Whether the present task has thrown is no matter of the graph's shape.
LEMMA ThrownFacts ==
  ASSUME NEW g, GraphOK(g), NEW thrown \in BOOLEAN, thrown => Broken(g), NEW f, DrawnOK(g, f)
  PROVE  LET r == [g EXCEPT !.thrown = thrown]
         IN GraphOK(r) /\ NodesOf(r) = NodesOf(g) /\ DrawnOK(r, f)
<1> DEFINE r == [g EXCEPT !.thrown = thrown]
<1>1. r = [chains |-> g.chains, links |-> g.links, drawn |-> g.drawn,
           drawnFor |-> g.drawnFor, entered |-> g.entered, thrown |-> thrown]
  BY DEF GraphOK, Shape
<1> HIDE DEF r
<1>2. r.chains = g.chains /\ r.links = g.links /\ r.drawn = g.drawn /\ r.thrown = thrown
      /\ r.drawnFor = g.drawnFor /\ r.entered = g.entered
  BY <1>1
<1>3. NodesOf(r) = NodesOf(g)
  BY <1>2 DEF NodesOf
<1>4. Shape(r)
  BY <1>1, <1>2, <1>3 DEF GraphOK, Shape
<1>5. IsTree(r) /\ Learned(r) /\ Kept(r)
  BY <1>2, <1>3 DEF GraphOK, IsTree, Learned, Kept, Visible
<1>6. r.thrown => Broken(r)
  BY <1>2 DEF Broken
<1>7. GraphOK(r)
  BY <1>4, <1>5, <1>6 DEF GraphOK
<1>8. DrawnOK(r, f)
  BY <1>2, <1>3 DEF DrawnOK, Broken, Shown, Picks
<1> QED
  BY <1>3, <1>7, <1>8 DEF r

\* Sequences over a larger set are more.
LEMMA SeqGrows ==
  ASSUME NEW S, NEW T, S \subseteq T
  PROVE  Seq(S) \subseteq Seq(T)
<1> SUFFICES ASSUME NEW s \in Seq(S) PROVE s \in Seq(T)
  OBVIOUS
<1>1. /\ Len(s) \in Nat /\ DOMAIN s = 1..Len(s) /\ \A i \in 1..Len(s) : s[i] \in S
      /\ s = [i \in 1..Len(s) |-> s[i]]
  OBVIOUS
<1>2. [i \in 1..Len(s) |-> s[i]] \in [1..Len(s) -> T]
  BY <1>1
<1> QED
  BY <1>1, <1>2

\* The dots fly from node to node, or to nothing.
Flying(bag, g) == BagToSet(bag) \subseteq Seq(NodesOf(g) \union {None})

\* Dots need not land because the graph grows.
LEMMA FlyingGrows ==
  ASSUME NEW bag, NEW g, NEW r, Flying(bag, g), NodesOf(g) \subseteq NodesOf(r)
  PROVE  Flying(bag, r)
<1>1. Seq(NodesOf(g) \union {None}) \subseteq Seq(NodesOf(r) \union {None})
  BY SeqGrows
<1> QED
  BY <1>1 DEF Flying

\* A dot that is added flies over the graph, too.
LEMMA AnimateFacts ==
  ASSUME NEW bag, NEW g, NEW r, Flying(bag, r), NEW path \in Seq(NodesOf(r) \union {None})
  PROVE  Flying(AnimateDot(g, path, bag), r)
<1>1. BagToSet(bag (+) SetToBag({path})) = BagToSet(bag) \union {path}
  BY DEF BagToSet, (+), SetToBag
<1> QED
  BY <1>1 DEF AnimateDot, Flying

\* The state of a task: its graph is whole and drawn, and the dots are on it.
TaskOK(task) == Whole(task.g) /\ Flying(task.flying, task.g)

\* findNode finds a node, or nothing.
LEMMA FoundFacts ==
  ASSUME NEW g, NEW type, NEW name
  PROVE  Found(g, type, name) \in NodesOf(g) \union {None}
BY DEF Found, Known, NodesOf

\* What one subscriber leaves of a task.
Subscribed(next, task) == TaskOK(next) /\ NodesOf(task.g) \subseteq NodesOf(next.g)

\* A subscriber leaves the graph, its drawing and the dots as they should be.
LEMMA SubscriberFacts ==
  ASSUME NEW task, TaskOK(task), NEW target \in NodesOf(task.g), NEW s \in Clients \union Short,
         filter \in Texts
  PROVE  Subscribed(AddSubscriber(task, target, s), task)
<1> DEFINE known == Ensure(task.g, "client", s)
           sNode == Found(known, "client", s)
           linked == Update(NewLink(known, target, sNode, "subscription"), filter)
           g == IF HasLink(known, target, sNode) THEN known ELSE linked
           blind == sNode = None /\ filter # NoFilter
           next == AddSubscriber(task, target, s)
<1>0. next = CASE task.g.thrown \/ s \in Short -> task
               [] ~(task.g.thrown \/ s \in Short) /\ known.thrown ->
                    [g |-> known, flying |-> task.flying]
               [] ~(known.thrown \/ s \in Short) /\ (g.thrown \/ blind) ->
                    [g |-> [g EXCEPT !.thrown = TRUE], flying |-> task.flying]
               [] OTHER ->
                    [g |-> g, flying |-> AnimateDot(g, <<target, sNode>>, task.flying)]
  BY DEF AddSubscriber
<1>1. task.g.thrown => known.thrown
  BY DEF Ensure
<1> HIDE DEF next
<1>2. CASE task.g.thrown \/ s \in Short
  <2>1. next = task
    <3> HIDE DEF known, sNode, linked, g, blind
    <3> QED
      BY <1>0, <1>1, <1>2
  <2> QED
    BY <2>1 DEF next, Subscribed
<1>3. CASE ~(task.g.thrown \/ s \in Short)
  <2>1. Grown(known, task.g)
    BY <1>3, EnsureFacts DEF TaskOK, Names
  <2>2. sNode \in NodesOf(known) \union {None}
    BY FoundFacts
  <2> HIDE DEF known, sNode
  <2>3. Whole(known)
        /\ target \in NodesOf(known) /\ NodesOf(task.g) \subseteq NodesOf(known)
    BY <2>1 DEF Grown
  <2>4. /\ Whole(linked) /\ NodesOf(linked) = NodesOf(known)
        /\ linked.thrown = Broken(linked) /\ (sNode = None => Broken(linked))
    BY <2>2, <2>3, LinkFacts
  <2> HIDE DEF linked
  <2>5. Whole(g) /\ NodesOf(g) = NodesOf(known)
    BY <2>3, <2>4
  <2>6. ~known.thrown /\ (g.thrown \/ blind) => Broken(g)
    <3>1. CASE HasLink(known, target, sNode)
      BY <3>1 DEF HasLink, Broken
    <3>2. CASE ~HasLink(known, target, sNode)
      BY <2>4, <3>2
    <3> QED
      BY <3>1, <3>2
  <2> HIDE DEF g, blind
  <2>7. Flying(task.flying, known) /\ Flying(task.flying, g)
    BY <2>3, <2>5, FlyingGrows DEF TaskOK
  <2>8. CASE known.thrown
    <3>1. next = [g |-> known, flying |-> task.flying]
      BY <1>0, <1>3, <2>8
    <3>2. next.g = known /\ next.flying = task.flying
      BY <3>1
    <3>3. Subscribed(next, task)
      BY <2>3, <2>7, <3>2 DEF Subscribed, TaskOK
    <3> QED
      BY <3>3 DEF next
  <2>9. CASE ~known.thrown /\ (g.thrown \/ blind)
    <3> DEFINE r == [g EXCEPT !.thrown = TRUE]
    <3>1. next = [g |-> r, flying |-> task.flying]
      BY <1>0, <1>3, <2>9
    <3>2. Whole(r) /\ NodesOf(r) = NodesOf(g)
      BY <2>5, <2>6, <2>9, ThrownFacts DEF Whole
    <3> HIDE DEF r
    <3>3. next.g = r /\ next.flying = task.flying
      BY <3>1
    <3>4. Flying(task.flying, r)
      BY <2>7, <3>2, FlyingGrows
    <3>5. Subscribed(next, task)
      BY <2>3, <2>5, <3>2, <3>3, <3>4 DEF Subscribed, TaskOK
    <3> QED
      BY <3>5 DEF next
  <2>10. CASE ~known.thrown /\ ~(g.thrown \/ blind)
    <3> DEFINE flying == AnimateDot(g, <<target, sNode>>, task.flying)
    <3>1. next = [g |-> g, flying |-> flying]
      BY <1>0, <1>3, <2>10
    <3>2. Flying(flying, g)
      <4>1. <<target, sNode>> \in Seq(NodesOf(g) \union {None})
        <5>1. target \in NodesOf(g) \union {None} /\ sNode \in NodesOf(g) \union {None}
          BY <2>2, <2>3, <2>5
        <5> QED
          BY <5>1
      <4> QED
        BY <2>7, <4>1, AnimateFacts
    <3> HIDE DEF flying
    <3>3. next.g = g /\ next.flying = flying
      BY <3>1
    <3>4. Subscribed(next, task)
      BY <2>3, <2>5, <3>2, <3>3 DEF Subscribed, TaskOK
    <3> QED
      BY <3>4 DEF next
  <2> QED
    BY <2>8, <2>9, <2>10
<1> QED
  BY <1>2, <1>3

\* The subscribers are taken one after the other.
LEMMA SubscriberStepsFacts ==
  ASSUME NEW t, Len(t.subscribers) \in Nat
  PROVE  /\ SubscriberSteps(t)[0] = [g |-> graph, flying |-> dots]
         /\ \A k \in 1..Len(t.subscribers) : SubscriberSteps(t)[k] =
              AddSubscriber(SubscriberSteps(t)[k - 1], t.target, t.subscribers[k])
<1> DEFINE n == Len(t.subscribers)
           a == [g |-> graph, flying |-> dots]
           Step(task, k) == AddSubscriber(task, t.target, t.subscribers[k])
           Is(f, m) == f[0] = a /\ \A k \in 1..m : f[k] = Step(f[k - 1], k)
           T == {m \in 0..n : \E f : Is(f, m)}
           F(d) == [k \in 0..n |-> IF k = 0 THEN a ELSE Step(d[k - 1], k)]
<1>0. n \in Nat
  OBVIOUS
<1> HIDE DEF n, a, Step
<1>1. 0 \in T
  <2>1. Is([k \in 0..0 |-> a], 0)
    OBVIOUS
  <2> HIDE DEF Is
  <2> QED
    BY <1>0, <2>1
<1>2. ASSUME NEW m \in 1..n, m - 1 \in T PROVE m \in T
  <2>1. PICK f : Is(f, m - 1)
    BY <1>2
  <2> DEFINE h == [k \in 0..m |-> IF k = m THEN Step(f[m - 1], m) ELSE f[k]]
  <2>2. h[0] = a
    BY <1>0, <2>1
  <2>3. ASSUME NEW k \in 1..m PROVE h[k] = Step(h[k - 1], k)
    <3>1. h[k - 1] = f[k - 1]
      BY <1>0
    <3>2. CASE k = m
      BY <1>0, <3>1, <3>2
    <3>3. CASE k # m
      <4>1. k \in 1..(m - 1)
        BY <1>0, <3>3
      <4>2. h[k] = f[k] /\ f[k] = Step(f[k - 1], k)
        BY <1>0, <2>1, <3>3, <4>1
      <4> QED
        BY <3>1, <4>2
    <3> QED
      BY <3>2, <3>3
  <2> HIDE DEF h
  <2>4. Is(h, m)
    BY <2>2, <2>3
  <2> HIDE DEF Is
  <2> QED
    BY <1>0, <2>4
<1> HIDE DEF T
<1>3. n \in T
  <2>1. n \in 0..n
    BY <1>0
  <2> QED
    BY <1>0, <1>1, <1>2, <2>1, Climb
<1>4. PICK f : Is(f, n)
  BY <1>3 DEF T
<1> DEFINE d == [k \in 0..n |-> f[k]]
<1>5. d = F(d)
  <2>1. d[0] = a /\ \A k \in 1..n : d[k] = Step(d[k - 1], k)
    <3>1. \A k \in 1..n : d[k] = f[k] /\ d[k - 1] = f[k - 1]
      BY <1>0
    <3>2. d[0] = f[0]
      BY <1>0
    <3> HIDE DEF d
    <3> QED
      BY <1>4, <3>1, <3>2
  <2>2. d = [k \in 0..n |-> d[k]]
    OBVIOUS
  <2> HIDE DEF d
  <2>3. [k \in 0..n |-> d[k]] = F(d)
    BY <2>1
  <2> HIDE DEF F
  <2> QED
    BY <2>2, <2>3
<1> DEFINE s == SubscriberSteps(t)
<1>6. s = CHOOSE x : x = F(x)
  BY DEF SubscriberSteps, Step, a, n
<1>7. s = F(s)
  <2> HIDE DEF F, d, s
  <2> QED
    BY <1>5, <1>6
<1> HIDE DEF s
<1>8. s[0] = a /\ \A k \in 1..n : s[k] = Step(s[k - 1], k)
  BY <1>0, <1>7
<1> QED
  BY <1>8 DEF s, a, Step, n

----------------------------------------------------------------------------
(* Every step of the page leaves its graph whole.                             *)

\* Each timer and each dot is about nodes that are there.
LaterOK(timers, g) == timers \subseteq [target : NodesOf(g), subscribers : SubscriberLists]

GraphInv ==
  /\ Whole(graph)
  /\ Flying(dots, graph) /\ LaterOK(later, graph)
  /\ filter \in Texts

\* A timer may find the graph grown.
LEMMA LaterGrows ==
  ASSUME NEW timers, NEW g, NEW r, LaterOK(timers, g), NodesOf(g) \subseteq NodesOf(r)
  PROVE  LaterOK(timers, r)
BY DEF LaterOK

\* The end of a task.
LEMMA FinishFacts ==
  ASSUME NEW g, Whole(g), Finish(g), filter' = filter
  PROVE  Whole(graph)' /\ NodesOf(graph') = NodesOf(g)
<1>1. GraphOK(graph') /\ NodesOf(graph') = NodesOf(g) /\ DrawnOK(graph', filter)
  BY ThrownFacts DEF Finish, Whole
<1> QED
  BY <1>1 DEF Whole

\* The node of a name is below the root of its type.
LEMMA NamedFacts ==
  ASSUME NEW type, NEW name \in Path
  PROVE  Named(type, name) # Center /\ Named(type, name)[1] = Root(type)
         /\ Head(Named(type, name)) = Root(type)
<1>1. PICK n, root : n = Named(type, name) /\ root = Root(type)
  OBVIOUS
<1>2. root \in STRING
  <2>1. root \in {"clients", "channels"}
    BY <1>1 DEF Root
  <2> QED
    BY <2>1, GraphVisAssumption
<1>3. <<root>> \in Seq(STRING) /\ name \in Seq(STRING) /\ Len(<<root>>) = 1 /\ <<root>>[1] = root /\ Len(name) \in Nat
  <2>1. name \in Seq(STRING) /\ Len(name) \in Nat
    BY CenterFacts DEF Path
  <2>2. <<root>> \in Seq(STRING) /\ Len(<<root>>) = 1 /\ <<root>>[1] = root
    BY <1>2, OneElement
  <2> QED
    BY <2>1, <2>2
<1>4. n = <<root>> \o name
  BY <1>1 DEF Named
<1>5. n \in Seq(STRING) /\ Len(n) = Len(<<root>>) + Len(name) /\ \A i \in 1..Len(<<root>>) : n[i] = <<root>>[i]
  BY <1>3, <1>4, ConcatFacts
<1>6. n[1] = root /\ Len(n) = 1 + Len(name)
  <2>1. 1 \in 1..Len(<<root>>)
    BY <1>3
  <2> QED
    BY <1>3, <1>5, <2>1
<1>7. n # Center
  BY <1>3, <1>6, CenterFacts
<1>8. Head(n) = n[1]
  BY <1>3, <1>5, <1>6
<1> QED
  BY <1>1, <1>6, <1>7, <1>8

\* The way is made of nodes.
LEMMA WayIsOfNodes ==
  ASSUME NEW g, IsTree(g), NEW c \in NodesOf(g) \ {Center}, NEW h \in NodesOf(g) \ {Center},
         Apart(c, h)
  PROVE  Way(c, h) \in Seq(NodesOf(g))
<1>1. c \in Path /\ h \in Path /\ Len(c) >= 2 /\ Len(h) >= 2 /\ Len(c) \in Nat /\ Len(h) \in Nat
  BY UpIsNode, CenterFacts
<1>2. PICK w : w = Way(c, h)
  OBVIOUS
<1>3. PICK n \in Nat : n = Len(c) + Len(h) - 1
  BY <1>1
<1>4. w \in Seq(Path) /\ Len(w) = n
  BY <1>1, <1>2, <1>3, WayFacts
<1>5. ASSUME NEW i \in 1..n PROVE w[i] \in NodesOf(g)
  <2>1. CASE i # n
    <3>1. i \in 1..Len(c) + Len(h) - 2
      BY <1>1, <1>3, <2>1
    <3> QED
      BY <1>2, <3>1, WayInTree
  <2>2. CASE i = n
    <3>1. PICK j : j = i - 1
      OBVIOUS
    <3>2. j \in 1..Len(c) + Len(h) - 2 /\ j + 1 = i
      BY <1>1, <1>3, <2>2, <3>1
    <3>3. Way(c, h)[j + 1] \in NodesOf(g)
      BY <3>2, WayInTree
    <3> QED
      BY <1>2, <3>2, <3>3
  <2> QED
    BY <2>1, <2>2
<1>6. w = [i \in 1..n |-> w[i]]
  BY <1>4
<1>7. [i \in 1..n |-> w[i]] \in [1..n -> NodesOf(g)]
  BY <1>5
<1>8. [i \in 1..n |-> w[i]] \in Seq(NodesOf(g))
  BY <1>7, FunctionIsSeq
<1> QED
  BY <1>2, <1>6, <1>8

\* A page starts with the center alone, drawn.
LEMMA GraphInitially == Init => GraphInv
<1> SUFFICES ASSUME Init PROVE GraphInv
  OBVIOUS
<1> DEFINE g == [chains |-> [n \in {Center} |-> {}], links |-> {},
                 drawn |-> [n \in {Center} |-> TRUE], drawnFor |-> filter,
                 entered |-> {Center}, thrown |-> FALSE]
<1>1. graph = g /\ later = {} /\ dots = EmptyBag /\ filter \in Texts
  BY DEF Init, Texts
<1>2. /\ NodesOf(g) = {Center} /\ g.links = {} /\ g.chains[Center] = {} /\ g.drawn[Center] = TRUE
      /\ DOMAIN g.drawn = {Center} /\ g.drawnFor = filter /\ g.entered = {Center} /\ g.thrown = FALSE
      /\ g = [chains |-> g.chains, links |-> g.links, drawn |-> g.drawn,
              drawnFor |-> g.drawnFor, entered |-> g.entered, thrown |-> g.thrown]
      /\ g.chains \in [{Center} -> SUBSET Names] /\ g.drawn \in [{Center} -> BOOLEAN]
  BY DEF NodesOf
<1> HIDE DEF g
<1>3. Shape(g)
  BY <1>1, <1>2 DEF Shape
<1>4. IsTree(g)
  <2>1. IsFiniteSet({Center})
    BY FS_Singleton
  <2>2. \A p \in Path : Len(p) >= 2 => ~Above(p, Center)
    BY CenterFacts DEF Above
  <2> QED
    BY <1>2, <2>1, <2>2, CenterFacts DEF IsTree
<1>5. Learned(g) /\ Kept(g)
  BY <1>2 DEF Learned, Kept
<1>6. GraphOK(g)
  BY <1>2, <1>3, <1>4, <1>5 DEF GraphOK
<1>7. DrawnOK(g, filter)
  BY <1>2 DEF DrawnOK, Shown
<1>8. Flying(EmptyBag, g)
  BY DEF Flying, EmptyBag, BagToSet, SetToBag
<1>9. LaterOK({}, g)
  BY DEF LaterOK
<1> QED
  BY <1>1, <1>2, <1>6, <1>7, <1>8, <1>9 DEF GraphInv, Whole

\* An event keeps the graph invariant, wherever an exception cuts it off.
LEMMA SendMessageKeeps ==
  ASSUME GraphInv, NEW s, NEW client \in Clients, NEW channel \in Channels,
         NEW subscribers \in SubscriberLists, SendMessage(s, client, channel, subscribers)
  PROVE  GraphInv'
<1>3. client \in Names /\ channel \in Names /\ client \in Path /\ channel \in Path
  BY NamesArePaths DEF Names
<1>4. PICK g1, g : g1 = Ensure(graph, "client", client) /\ g = Ensure(g1, "channel", channel)
  OBVIOUS
<1>5. Whole(g) /\ NodesOf(graph) \subseteq NodesOf(g)
  <2>1. Whole(graph) /\ filter \in Texts
    BY DEF GraphInv
  <2>2. Grown(g1, graph)
    BY <1>3, <1>4, <2>1, EnsureFacts
  <2>3. Grown(g, g1)
    BY <1>3, <1>4, <2>1, <2>2, EnsureFacts DEF Grown
  <2> QED
    BY <2>2, <2>3 DEF Grown
<1>6. PICK source, target : source = Found(g, "client", client) /\ target = Found(g, "channel", channel)
  OBVIOUS
<1>7. /\ Finish(g) /\ filter' = filter
      /\ IF g.thrown \/ None \in {source, target}
         THEN UNCHANGED <<later, dots>>
         ELSE /\ dots' = AnimateDot(g, FindPath(g, source, target), dots)
              /\ later' = later \union {[target |-> target, subscribers |-> subscribers]}
  BY <1>4, <1>6 DEF SendMessage
<1>8. Whole(graph)' /\ NodesOf(graph') = NodesOf(g)
  BY <1>5, <1>7, FinishFacts
<1>9. Flying(dots, graph') /\ LaterOK(later, graph')
  BY <1>5, <1>8, FlyingGrows, LaterGrows DEF GraphInv
<1>10. Flying(dots', graph') /\ LaterOK(later', graph')
  <2>1. CASE g.thrown \/ None \in {source, target}
    BY <1>7, <1>9, <2>1
  <2>2. CASE ~(g.thrown \/ None \in {source, target})
    <3>1. source = Named("client", client) /\ source \in NodesOf(g)
      BY <1>6, <2>2 DEF Found, Known, NodesOf
    <3>2. target = Named("channel", channel) /\ target \in NodesOf(g)
      BY <1>6, <2>2 DEF Found, Known, NodesOf
    <3>3. source # Center /\ target # Center /\ Apart(source, target)
      BY <1>3, <3>1, <3>2, NamedFacts DEF Apart, Root
    <3>4. IsTree(g) /\ None \notin Path
      BY <1>5, NamesArePaths DEF Whole, GraphOK
    <3>5. FindPath(g, source, target) = Way(source, target)
      BY <3>1, <3>2, <3>3, <3>4, FindPathIsWay
    <3>6. Way(source, target) \in Seq(NodesOf(g))
      BY <3>1, <3>2, <3>3, <3>4, WayIsOfNodes
    <3>7. FindPath(g, source, target) \in Seq(NodesOf(graph') \union {None})
      <4>1. Seq(NodesOf(g)) \subseteq Seq(NodesOf(graph') \union {None})
        BY <1>8, SeqGrows
      <4> QED
        BY <3>5, <3>6, <4>1
    <3>8. Flying(AnimateDot(g, FindPath(g, source, target), dots), graph')
      BY <1>9, <3>7, AnimateFacts
    <3>9. [target |-> target, subscribers |-> subscribers] \in [target : NodesOf(graph'), subscribers : SubscriberLists]
      BY <1>8, <3>2
    <3>10. LaterOK(later \union {[target |-> target, subscribers |-> subscribers]}, graph')
      BY <1>9, <3>9 DEF LaterOK
    <3> QED
      BY <1>7, <2>2, <3>8, <3>10
  <2> QED
    BY <2>1, <2>2
<1> QED
  BY <1>7, <1>8, <1>10 DEF GraphInv

\* The timer of an event keeps the graph invariant, whatever came in between.
LEMMA AddSubscribersKeeps ==
  ASSUME GraphInv, NEW t \in later, AddSubscribers(t)
  PROVE  GraphInv'
<1>1. t.target \in NodesOf(graph) /\ t.subscribers \in Seq(Clients \union Short)
  BY GraphVisAssumption DEF GraphInv, LaterOK
<1>2a. PICK n \in Nat : n = Len(t.subscribers)
  BY <1>1
<1>2b. PICK subscribers, target, s :
        subscribers = t.subscribers /\ target = t.target /\ s = SubscriberSteps(t)
  OBVIOUS
<1>2. n = Len(t.subscribers) /\ subscribers = t.subscribers /\ target = t.target /\ s = SubscriberSteps(t)
  BY <1>2a, <1>2b
<1>3. /\ s[0] = [g |-> graph, flying |-> dots]
      /\ \A k \in 1..n : s[k] = AddSubscriber(s[k - 1], target, subscribers[k])
  BY <1>2, SubscriberStepsFacts
<1>4. \A k \in 1..n : subscribers[k] \in Clients \union Short
  BY <1>1, <1>2
<1> DEFINE OK(k) == TaskOK(s[k]) /\ NodesOf(graph) \subseteq NodesOf(s[k].g)
           T == {k \in 0..n : OK(k)}
<1>5. OK(0)
  <2>1. s[0].g = graph /\ s[0].flying = dots
    BY <1>3
  <2> QED
    BY <2>1 DEF TaskOK, GraphInv
<1>6. ASSUME NEW k \in 1..n, OK(k - 1) PROVE OK(k)
  <2>1. PICK task : task = s[k - 1]
    OBVIOUS
  <2>2. TaskOK(task) /\ NodesOf(graph) \subseteq NodesOf(task.g) /\ target \in NodesOf(task.g)
    BY <1>1, <1>2, <1>6, <2>1
  <2>3. Subscribed(AddSubscriber(task, target, subscribers[k]), task)
    BY <1>4, <2>2, SubscriberFacts DEF GraphInv
  <2>4. s[k] = AddSubscriber(task, target, subscribers[k])
    BY <1>3, <2>1
  <2> QED
    BY <2>2, <2>3, <2>4 DEF Subscribed
<1> HIDE DEF OK
<1>7. 0 \in T /\ \A k \in 1..n : k - 1 \in T => k \in T
  BY <1>5, <1>6
<1>8. OK(n)
  <2> HIDE DEF T
  <2>1. n \in T
    BY <1>7, Climb
  <2> QED
    BY <2>1 DEF T
<1>9. PICK task : task = s[n]
  OBVIOUS
<1>10. TaskOK(task) /\ NodesOf(graph) \subseteq NodesOf(task.g)
  BY <1>8, <1>9 DEF OK
<1>11. Finish(task.g) /\ dots' = task.flying /\ later' = later \ {t} /\ filter' = filter
  BY <1>2, <1>9 DEF AddSubscribers
<1>12. Whole(graph)' /\ NodesOf(graph') = NodesOf(task.g)
  BY <1>10, <1>11, FinishFacts DEF TaskOK
<1>13. Flying(dots', graph')
  <2>1. Flying(task.flying, task.g)
    BY <1>10 DEF TaskOK
  <2>2. Flying(task.flying, graph')
    BY <1>12, <2>1, FlyingGrows
  <2> QED
    BY <1>11, <2>2
<1>14. LaterOK(later', graph')
  <2>1. LaterOK(later, graph')
    BY <1>10, <1>12, LaterGrows DEF GraphInv
  <2> QED
    BY <1>11, <2>1 DEF LaterOK
<1> QED
  BY <1>11, <1>12, <1>13, <1>14 DEF GraphInv

\* A filter that is typed keeps the graph invariant: it draws all nodes anew.
LEMMA FilterInputKeeps ==
  ASSUME GraphInv, NEW f \in Texts, FilterInput(f)
  PROVE  GraphInv'
<1>1. PICK p, r : p = Update(graph, f) /\ r = [p EXCEPT !.thrown = FALSE]
  OBVIOUS
<1>2. Redraws(p, graph, f)
  BY <1>1, UpdateFacts DEF GraphInv, Whole, GraphOK
<1>3. Shape(p) /\ NodesOf(p) = NodesOf(graph) /\ p.chains = graph.chains /\ p.links = graph.links
      /\ p.thrown = Broken(p) /\ Kept(p) /\ DrawnOK(p, f)
  BY <1>2 DEF Redraws, Broken, GraphInv, Whole, GraphOK
<1>4. GraphOK(p)
  <2>1. IsTree(p) /\ Learned(p)
    BY <1>3 DEF GraphInv, Whole, GraphOK, IsTree, Learned
  <2> QED
    BY <1>3, <2>1 DEF GraphOK
<1>6. GraphOK(r) /\ NodesOf(r) = NodesOf(p) /\ DrawnOK(r, f)
  BY <1>1, <1>3, <1>4, ThrownFacts
<1>7. graph' = r /\ filter' = f /\ later' = later /\ dots' = dots
  BY <1>1 DEF FilterInput, Finish
<1>8. Flying(dots, r) /\ LaterOK(later, r)
  BY <1>3, <1>6, FlyingGrows, LaterGrows DEF GraphInv
<1> QED
  BY <1>6, <1>7, <1>8 DEF GraphInv, Whole

\* A dot that arrives keeps the graph invariant.
LEMMA DotArrivesKeeps ==
  ASSUME GraphInv, NEW path, DotArrives(path)
  PROVE  GraphInv'
<1>1. dots' = dots (-) SetToBag({path}) /\ UNCHANGED <<graph, filter, later>>
  BY DEF DotArrives
<1>2. BagToSet(dots (-) SetToBag({path})) \subseteq BagToSet(dots)
  BY DEF BagToSet, (-), SetToBag
<1>3. Flying(dots', graph)
  BY <1>1, <1>2 DEF GraphInv, Flying
<1> QED
  BY <1>1, <1>3 DEF GraphInv, Whole

\* Every step keeps the graph invariant; the feed's do not touch the graph.
LEMMA GraphStep ==
  ASSUME GraphInv, [Next]_vars
  PROVE  GraphInv'
<1>1. ASSUME UNCHANGED graphVars PROVE GraphInv'
  BY <1>1 DEF GraphInv, Whole, graphVars
<1>2. CASE UNCHANGED vars
  BY <1>1, <1>2 DEF vars
<1>3. ASSUME NEW s \in Sources, NEW client \in Clients, NEW channel \in Channels, NEW subs \in SubscriberLists,
             SendMessage(s, client, channel, subs)
      PROVE  GraphInv'
  BY <1>3, SendMessageKeeps
<1>4. ASSUME NEW t \in later, AddSubscribers(t) PROVE GraphInv'
  BY <1>4, AddSubscribersKeeps
<1>5. ASSUME NEW path \in BagToSet(dots), DotArrives(path) PROVE GraphInv'
  BY <1>5, DotArrivesKeeps
<1>6. ASSUME NEW f \in Texts, FilterInput(f) PROVE GraphInv'
  BY <1>6, FilterInputKeeps DEF Texts
<1>7. ASSUME NEW visible \in BOOLEAN, Intersect(visible) PROVE GraphInv'
  BY <1>1, <1>7 DEF Intersect
<1>8. ASSUME NEW s \in Sources, FeedFails(s) PROVE GraphInv'
  BY <1>1, <1>8 DEF FeedFails
<1>9. CASE VisibilityChange
  BY <1>1, <1>9 DEF VisibilityChange
<1>10. CASE Retry
  BY <1>1, <1>10 DEF Retry
<1> QED
  BY <1>2, <1>3, <1>4, <1>5, <1>6, <1>7, <1>8, <1>9, <1>10 DEF Next, Texts

\* Whatever events, timers and filters come in whatever order, and wherever an
\* exception cuts them off, addClient, addChannel and the subscriber links keep the
\* graph a tree of paths whose drawing is up to date and whose chains have learned.
THEOREM GraphKept == Spec => []GraphInv
<1>1. GraphInv /\ [Next]_vars => GraphInv'
  BY GraphStep
<1> QED
  BY <1>1, GraphInitially, PTL DEF Spec

\* Whatever clients, channels and subscriptions turn up in whatever order, the page's
\* variables have their types: every link, timer and dot is about nodes that are
\* there, or about nothing where a node was not found.
THEOREM TypesHold == Spec => []TypeOK
<1>1. ASSUME IInv, GraphInv PROVE TypeOK
  <2>1. /\ eventSource \in Sources \union {None} /\ open \subseteq Sources
        /\ retries \in 0..MaxRetries /\ {isVisible, observed, hidden} \subseteq BOOLEAN
    BY <1>1 DEF IInv, FeedTypes
  <2>2. /\ DOMAIN graph.drawn \union graph.entered \subseteq Nodes /\ graph.drawnFor \in Texts
        /\ \A n \in Nodes : graph.chains[n] \subseteq Clients \union Channels
        /\ graph.links \subseteq [source : Nodes, target : Nodes \union {None}, type : Types]
    BY <1>1 DEF GraphInv, Whole, GraphOK, Shape, NodesOf, Nodes, Names
  <2>3. /\ filter \in Texts
        /\ later \subseteq [target : Nodes, subscribers : SubscriberLists]
        /\ \A path \in BagToSet(dots) : path \in Seq(Nodes \union {None})
    BY <1>1 DEF GraphInv, Texts, Flying, LaterOK, NodesOf, Nodes
  <2> QED
    BY <2>1, <2>2, <2>3 DEF TypeOK, Texts
<1> QED
  BY <1>1, Inductive, GraphKept, PTL

\* findPath takes a dot from any client to any channel up to the server and down
\* again, in every graph that addClient, addChannel and addSubscriber can make.
THEOREM DotsPassTheServer == Spec => []PathsThroughServer
<1>1. ASSUME GraphInv PROVE PathsThroughServer
  <2> SUFFICES ASSUME NEW c \in Nodes \ {Center}, NEW h \in Nodes \ {Center},
                      IsClient(c), ~IsClient(h)
               PROVE  FindPath(graph, c, h) = Way(c, h)
    BY DEF PathsThroughServer
  <2>1. IsTree(graph) /\ c \in NodesOf(graph) \ {Center} /\ h \in NodesOf(graph) \ {Center}
    BY <1>1 DEF GraphInv, Whole, GraphOK, Nodes, NodesOf
  <2>2. c \in Path /\ h \in Path /\ Len(c) >= 2 /\ Len(h) >= 2
    BY <2>1, UpIsNode
  <2>3. Head(c) = c[1] /\ Head(h) = h[1]
    BY <2>2 DEF Path
  <2>4. Apart(c, h)
    BY <2>3 DEF Apart, IsClient
  <2> QED
    BY <2>1, <2>4, NamesArePaths, FindPathIsWay
<1> QED
  BY <1>1, GraphKept, PTL

\* Whatever names were learned before anything was drawn, and wherever an update threw,
\* the screen shows what the filter selects and, but for what has just entered,
\* nothing else; after a subscriber that was not found, that of an earlier filter.
THEOREM ScreenFollowsFilter == Spec => []ScreenShowsFiltered
<1>1. ASSUME GraphInv PROVE ScreenShowsFiltered
  <2>1. Kept(graph) /\ DrawnOK(graph, filter)
    BY <1>1 DEF GraphInv, Whole, GraphOK
  <2>2. ASSUME ~Stuck PROVE Shown(graph, filter)
    BY <2>1, <2>2 DEF DrawnOK, Stuck, Broken
  <2>3. \A n : Selected(n) <=> Picks(graph, filter, n)
    BY DEF Selected, Picks
  <2> QED
    BY <2>1, <2>2, <2>3 DEF Kept, Shown, ScreenShowsFiltered, NodesOf, Nodes
<1> QED
  BY <1>1, GraphKept, PTL
=============================================================================
