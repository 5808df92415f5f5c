---------------------------- MODULE OOCSIGraphVis ----------------------------
(* The network visualisation of oocsi-graphvis.js: a feed of OOCSI_events     *)
(* that is open only while somebody can see the graph, the graph of clients   *)
(* and channels that grows with the events, and the dots that run over it.    *)
(*                                                                            *)
(* A name is a path of components; one of them may be empty ("a//b").  A node *)
(* is known by its qualName, since none is pushed before findNode missed it.  *)
(* Positions, ids, strengths, times to live and the sparklines are left out.  *)
(* A timer may fire at any moment after it was set.                           *)
EXTENDS Integers, Bags, SequencesExt

CONSTANTS Clients,          \* names of clients
          Channels,         \* names of channels
          SubscriberLists,  \* the lists of names an event may carry
          Short,            \* the names of two characters at most
          Filters,          \* what may be typed into the filter, taken apart at slashes
          ChannelFilter,    \* the filter the page was made with, taken apart as well
          Sources,          \* bound: EventSource objects open at once
          None,             \* JavaScript's null and undefined
          MAX_ACTIVE_DOTS,
          MaxRetries,       \* bound: timers of startEventSource set at once
          MaxLater          \* bound: subscriber timers set at once

ASSUME GraphVisAssumption ==
  /\ Clients \union Channels \union Short \subseteq Seq(STRING)
  /\ SubscriberLists \subseteq Seq(Clients \union Short)
  /\ None \notin Sources \union Seq(STRING)
  /\ Filters \union {ChannelFilter} \subseteq Seq(STRING) \ {<<>>}
  /\ {"clients", "channels"} \subseteq STRING   \* which is so, but no prover knows
  /\ {MAX_ACTIVE_DOTS, MaxRetries, MaxLater} \subseteq Nat

VARIABLES
  eventSource, \* the feed the page holds, or None
  open,        \* the feeds that were opened and not closed
  retries,     \* timers that will call startEventSource
  isVisible,   \* what the observer said last
  observed,    \* is there an IntersectionObserver?
  hidden,      \* document.hidden
  graph,       \* what the page knows and shows of it, see below
  filter,      \* clientFilterExpression
  later,       \* timers of sendMessage; equal ones count once
  dots         \* the paths of the dots in flight, activeDots of them

feedVars == <<eventSource, open, retries, isVisible, observed, hidden>>
graphVars == <<graph, filter, later, dots>>
vars == <<feedVars, graphVars>>

\* graph.chains gives each node the names its chains hold; graph.links are
\* records [source, target, type]; graph.drawn tells of each node on the screen
\* whether it can be seen; graph.thrown, whether the present task has thrown.
\* History: graph.drawnFor is the filter of the last drawing that was not cut off,
\* graph.entered are the nodes that came on the screen with it.
Center == <<>>
Root(type) == IF type = "client" THEN "clients" ELSE "channels"
IsClient(n) == n # Center /\ Head(n) = Root("client")
Known(g, n) == n \in DOMAIN g.chains

\* A new EventSource.
Fresh ==
  LET s == CHOOSE s \in Sources \ open : TRUE
  IN Sources \ open # {} /\ eventSource' = s /\ open' = open \union {s}

NoFilter == <<"">>

\* Does the name contain the filter?  "lab/pc" is <<"lab", "pc">>, and "/pc" is
\* <<"", "pc">>: a component that is cut by an end of the filter may be any.
\* Components are compared as wholes, as if none were part of another.
Matches(f, name) ==
  \/ f = NoFilter
  \/ \E at \in 0..Len(name) - Len(f) : \A j \in 1..Len(f) :
       f[j] = name[at + j] \/ (f[j] = "" /\ j \in {1, Len(f)})

\* isNodeFiltered: TRUE if the node is to be seen.
Visible(g, f, n) ==
  f = NoFilter \/ ~IsClient(n) \/ \E name \in g.chains[n] : Matches(f, name)

\* newLink
NewLink(g, source, target, type) ==
  [g EXCEPT !.links = @ \union {[source |-> source, target |-> target, type |-> type]}]

----------------------------------------------------------------------------
(* Mutations: the definition each is named after, with a plausible slip.  The *)
(* specification uses none of them; a property is kept only if one breaks it. *)

\* The nodes above learn the node instead of the client.
LearnNode(g, n, type, name) ==
  IF n # Center /\ type = "client" THEN [g EXCEPT !.chains[n] = @ \union {n}] ELSE g

\* Subscriptions are ways as well.
NearAny(g, n) == {m \in DOMAIN g.chains : \E l \in g.links : {l.source, l.target} = {m, n}}

\* The filter is noted and drawn with the next node.
FilterInputOnly(f) ==
  /\ f # filter
  /\ filter' = f
  /\ UNCHANGED <<feedVars, graph, later, dots>>

\* Any open feed is as good as another: the variable is not looked at.
StartAnyway ==
  IF hidden' \/ ~isVisible'
  THEN UNCHANGED <<eventSource, open>>
  ELSE Fresh

\* A feed that fails is closed, and that is it.
FeedFailsForGood(s) ==
  /\ s \in open
  /\ eventSource' = None
  /\ open' = open \ {eventSource}
  /\ UNCHANGED <<isVisible, observed, hidden, retries, graphVars>>

----------------------------------------------------------------------------
(* The graph.                                                                 *)

HasLink(g, source, target) ==
  \E l \in g.links : l.source = source /\ l.target = target

\* update: nodes on the screen already get their visibility anew, nodes that
\* enter are simply seen.  A link without a target throws: in the look at its
\* nodes if there is a filter, else in d3's force of links, after the drawing.
Update(g, f) ==
  LET broken == \E l \in g.links : l.target = None
      redrawn ==
        [g EXCEPT !.drawn = [n \in DOMAIN g.chains |-> n \in DOMAIN g.drawn => Visible(g, f, n)],
                  !.drawnFor = f,
                  !.entered = DOMAIN g.chains \ DOMAIN g.drawn]
  IN [(IF broken /\ f # NoFilter THEN g ELSE redrawn) EXCEPT !.thrown = broken]

\* target.chains.push(sourceName), if the target is not the center.
Learn(g, n, type, name) ==
  IF n # Center /\ type = "client"
  THEN [g EXCEPT !.chains[n] = @ \union {name}]
  ELSE g

\* One component of addClient or addChannel: its node is found or pushed, and linked
\* with the one before, which learns the name of a client, known or new.
AddComponent(acc, type, name, comp) ==
  LET n == Append(acc.qual, comp)
      g == Learn(acc.g, acc.at, type, name)
      linked == NewLink(g, n, acc.at, type)
      pushed == [linked EXCEPT !.chains =
                   [m \in DOMAIN g.chains \union {n} |-> IF m = n THEN {name} ELSE g.chains[m]]]
  IN IF acc.g.thrown \/ comp = ""
     THEN acc
     ELSE CASE ~Known(g, n) -> [g |-> Update(pushed, filter), qual |-> n, at |-> n]
            [] Known(g, n) /\ HasLink(g, n, acc.at) -> [acc EXCEPT !.g = g, !.qual = n, !.at = n]
            [] OTHER -> [acc EXCEPT !.g = Update(linked, filter), !.qual = n, !.at = n]

\* addClient and addChannel: one component after the other, empty ones skipped.
PathSteps(g, type, name) ==
  LET done[k \in 0..Len(name)] ==
        IF k = 0
        THEN [g |-> g, qual |-> <<Root(type)>>, at |-> Center]
        ELSE AddComponent(done[k - 1], type, name, name[k])
  IN done
AddPath(g, type, name) == PathSteps(g, type, name)[Len(name)].g

\* The node of a name is looked up by the name as it is, and added if it is missing.
Named(type, name) == <<Root(type)>> \o name
Found(g, type, name) == IF Known(g, Named(type, name)) THEN Named(type, name) ELSE None
Ensure(g, type, name) ==
  IF Known(g, Named(type, name)) \/ g.thrown THEN g ELSE AddPath(g, type, name)

Near(g, n) ==
  {m \in DOMAIN g.chains : \E l \in g.links :
     l.type # "subscription" /\ {l.source, l.target} = {m, n}}

\* One round of the search: the neighbours of what was seen get a parent in it.
Explore(g, parentMap) ==
  LET seen == DOMAIN parentMap
      fresh == (UNION {Near(g, n) : n \in seen}) \ seen
  IN [m \in seen \union fresh |->
        IF m \in seen THEN parentMap[m] ELSE CHOOSE n \in seen : m \in Near(g, n)]

Searched(g, source, size) ==
  LET parentMap[k \in 0..size] ==
        IF k = 0 THEN [n \in {source} |-> None] ELSE Explore(g, parentMap[k - 1])
  IN parentMap

StepBack(parentMap, path) ==
  IF parentMap[Head(path)] = None THEN path ELSE <<parentMap[Head(path)]>> \o path
WalkedBack(parentMap, target, size) ==
  LET path[k \in 0..size] ==
        IF k = 0 THEN <<target>> ELSE StepBack(parentMap, path[k - 1])
  IN path

\* findPath: breadth first over all links but subscriptions, parents kept, then
\* back from the target.  Empty if there is no path.
FindPath(g, source, target) ==
  LET size == Cardinality(DOMAIN g.chains)
      parentMap == Searched(g, source, size)[size]
  IN IF target \in DOMAIN parentMap THEN WalkedBack(parentMap, target, size)[size] ELSE <<>>

\* animateDot: a dot that is not dropped flies for a while.
CanAnimate(g, path, flying) ==
  /\ Len(path) >= 2
  /\ \A i \in DOMAIN path : Visible(g, filter, path[i])
  /\ BagCardinality(flying) < MAX_ACTIVE_DOTS
AnimateDot(g, path, flying) ==
  IF CanAnimate(g, path, flying) THEN flying (+) SetToBag({path}) ELSE flying

\* One subscriber of the timer of sendMessage: its node, the link to it, a dot.
\* Names of two characters are skipped.
\* A node that was not found is linked all the same, and looking whether it is
\* to be seen throws if there is a filter.
AddSubscriber(task, target, s) ==
  LET known == Ensure(task.g, "client", s)
      sNode == Found(known, "client", s)
      g == IF HasLink(known, target, sNode)
           THEN known
           ELSE Update(NewLink(known, target, sNode, "subscription"), filter)
      blind == sNode = None /\ filter # NoFilter
  IN CASE task.g.thrown \/ s \in Short -> task
       [] ~(task.g.thrown \/ s \in Short) /\ known.thrown ->
            [g |-> known, flying |-> task.flying]
       [] ~(known.thrown \/ s \in Short) /\ (g.thrown \/ blind) ->
            [g |-> [g EXCEPT !.thrown = TRUE], flying |-> task.flying]
       [] OTHER ->
            [g |-> g, flying |-> AnimateDot(g, <<target, sNode>>, task.flying)]

----------------------------------------------------------------------------
(* Events: sendMessage, its timer, the dots.                                  *)

\* The next task starts afresh.
Finish(g) == graph' = [g EXCEPT !.thrown = FALSE]

\* An event of an open feed.  What throws before the dot drops the rest of the
\* event, the timer of its subscribers too; the handler of the feed ignores it.
SendMessage(s, client, channel, subscribers) ==
  /\ s \in open
  /\ Matches(ChannelFilter, channel)
  /\ Cardinality(later) < MaxLater
  /\ LET g == Ensure(Ensure(graph, "client", client), "channel", channel)
         source == Found(g, "client", client)
         target == Found(g, "channel", channel)
     IN /\ Finish(g)
        /\ IF g.thrown \/ None \in {source, target}
           THEN UNCHANGED <<later, dots>>
           ELSE /\ dots' = AnimateDot(g, FindPath(g, source, target), dots)
                /\ later' = later \union {[target |-> target, subscribers |-> subscribers]}
  /\ UNCHANGED <<feedVars, filter>>

SubscriberSteps(t) ==
  LET done[k \in 0..Len(t.subscribers)] ==
        IF k = 0
        THEN [g |-> graph, flying |-> dots]
        ELSE AddSubscriber(done[k - 1], t.target, t.subscribers[k])
  IN done

\* The timer, once the dot has arrived.
AddSubscribers(t) ==
  /\ t \in later
  /\ later' = later \ {t}
  /\ LET task == SubscriberSteps(t)[Len(t.subscribers)]
     IN Finish(task.g) /\ dots' = task.flying
  /\ UNCHANGED <<feedVars, filter>>

DotArrives(path) ==
  /\ BagIn(path, dots)
  /\ dots' = dots (-) SetToBag({path})
  /\ UNCHANGED <<feedVars, graph, filter, later>>

\* The filter widget: the expression, then update.
FilterInput(f) ==
  /\ f # filter
  /\ filter' = f
  /\ Finish(Update(graph, f))
  /\ UNCHANGED <<feedVars, later, dots>>

----------------------------------------------------------------------------
(* The feed.                                                                  *)

\* startEventSource and stopEventSource, in the state the handler has set.
Start ==
  IF eventSource # None \/ hidden' \/ ~isVisible'
  THEN UNCHANGED <<eventSource, open>>
  ELSE Fresh
Stop ==
  /\ eventSource' = None
  /\ open' = open \ {eventSource}

\* The callback of the IntersectionObserver.
Intersect(visible) ==
  /\ observed
  /\ isVisible' = visible
  /\ UNCHANGED <<observed, hidden, retries, graphVars>>
  /\ IF visible THEN Start ELSE Stop

\* The visibilitychange listener.
VisibilityChange ==
  /\ hidden' = ~hidden
  /\ UNCHANGED <<isVisible, observed, retries, graphVars>>
  /\ CASE hidden' -> Stop
       [] ~hidden' /\ isVisible -> Start
       [] OTHER -> UNCHANGED <<eventSource, open>>

\* onerror of a feed: it is closed, and started anew after a while.  A timer that
\* is set is never cleared.
FeedFails(s) ==
  /\ s \in open
  /\ Stop
  /\ IF isVisible /\ ~hidden
     THEN retries < MaxRetries /\ retries' = retries + 1
     ELSE UNCHANGED retries
  /\ UNCHANGED <<isVisible, observed, hidden, graphVars>>

Retry ==
  /\ retries > 0
  /\ retries' = retries - 1
  /\ UNCHANGED <<isVisible, observed, hidden, graphVars>>
  /\ Start

----------------------------------------------------------------------------
\* update() draws the center; without an observer the feed starts at once.
Init ==
  /\ hidden \in BOOLEAN
  /\ observed \in BOOLEAN
  /\ isVisible = ~observed
  /\ \/ (observed \/ hidden) /\ eventSource = None /\ open = {}
     \/ ~observed /\ ~hidden /\ eventSource \in Sources /\ open = {eventSource}
  /\ retries = 0
  /\ filter \in Filters \union {NoFilter}
  /\ graph = [chains |-> [n \in {Center} |-> {}], links |-> {},
              drawn |-> [n \in {Center} |-> TRUE], drawnFor |-> filter,
              entered |-> {Center}, thrown |-> FALSE]
  /\ later = {}
  /\ dots = EmptyBag

Next ==
  \/ \E s \in Sources, client \in Clients, channel \in Channels, subs \in SubscriberLists :
       SendMessage(s, client, channel, subs)
  \/ \E t \in later : AddSubscribers(t)
  \/ \E path \in BagToSet(dots) : DotArrives(path)
  \/ \E f \in Filters \union {NoFilter} : FilterInput(f)
  \/ \E visible \in BOOLEAN : Intersect(visible)
  \/ \E s \in Sources : FeedFails(s)
  \/ VisibilityChange \/ Retry

Spec == Init /\ [][Next]_vars

\* Timers fire.
FairSpec == Spec /\ WF_vars(Retry)

----------------------------------------------------------------------------
(* Safety.                                                                    *)

Nodes == DOMAIN graph.chains
Types == {"client", "channel", "subscription"}

TypeOK ==
  /\ eventSource \in Sources \union {None}
  /\ open \subseteq Sources
  /\ retries \in 0..MaxRetries
  /\ {isVisible, observed, hidden} \subseteq BOOLEAN
  /\ DOMAIN graph.drawn \union graph.entered \subseteq Nodes
  /\ \A n \in Nodes : graph.chains[n] \subseteq Clients \union Channels
  /\ graph.links \subseteq [source : Nodes, target : Nodes \union {None}, type : Types]
  /\ {filter, graph.drawnFor} \subseteq Filters \union {NoFilter}
  /\ later \subseteq [target : Nodes, subscribers : SubscriberLists]
  /\ \A path \in BagToSet(dots) : path \in Seq(Nodes \union {None})

\* However the observer, visibility, failures and retry timers meet, the page has
\* no feed open but the one it can close: a second one would count every event twice.
OneFeed == open = {eventSource} \ {None}

\* Nobody is sent events for a graph that is off screen or in a hidden page, also
\* if a retry timer fires then (SYS-2 gating in the source).
FeedOnlyIfSeen == open # {} => isVisible /\ ~hidden

\* No retry is lost: a page that is seen and has no feed has a timer that opens it,
\* even if the page was hidden and shown again while the timer ran.
RetryPending == isVisible /\ ~hidden /\ eventSource = None => retries > 0

\* However scrolling, hiding, failures and timers interleave, the page has its one
\* feed exactly when it is seen, or a timer that opens it.
FeedFollowsPage == OneFeed /\ FeedOnlyIfSeen /\ RetryPending

\* The one way from a client to a channel: up to the center, and down.
Way(client, channel) ==
  [i \in 1..Len(client) - 1 |-> SubSeq(client, 1, Len(client) + 1 - i)]
    \o <<Center>> \o [i \in 1..Len(channel) - 1 |-> SubSeq(channel, 1, i + 1)]

\* Whatever order clients, channels and subscriptions came in, and although adding
\* may have been cut off by an exception, findPath takes a dot from any client to
\* any channel through the server, never along a subscription.
PathsThroughServer ==
  \A c, h \in Nodes \ {Center} :
    IsClient(c) /\ ~IsClient(h) => FindPath(graph, c, h) = Way(c, h)

\* A link without a target stops the drawing for as long as there is a filter.
Stuck == filter # NoFilter /\ \E l \in graph.links : l.target = None

\* Is the node to be seen, as far as every name that selects it has been drawn?
\* A name with an empty component pushes no node of its own, so that the chains may
\* learn it without an update: a filter of one component finds another name there
\* that selects the node, one with a slash need not.
Selected(n) ==
  \/ filter = NoFilter \/ ~IsClient(n)
  \/ \E name \in graph.chains[n] :
       Matches(filter, name) /\ ("" \in Range(name) => Len(filter) = 1)

\* Although addClient teaches the nodes above a name before anything is drawn, and an
\* update may throw half-way, the screen shows what the filter selects and, but
\* for the nodes that entered with the last drawing, nothing else.  Once a
\* subscriber was not found the screen stays as it was drawn for an earlier
\* filter, until the filter is emptied.
ScreenShowsFiltered ==
  /\ \A n \in DOMAIN graph.drawn \ graph.entered :
       graph.drawn[n] => Visible(graph, graph.drawnFor, n)
  /\ ~Stuck =>
       /\ graph.drawnFor = filter
       /\ \A n \in Nodes : Selected(n) => n \in DOMAIN graph.drawn /\ graph.drawn[n]

----------------------------------------------------------------------------
(* Liveness.                                                                  *)

\* A graph that stays in sight gets its feed back after a failure.
FeedResumes == isVisible /\ ~hidden ~> eventSource # None \/ ~isVisible \/ hidden
=============================================================================
