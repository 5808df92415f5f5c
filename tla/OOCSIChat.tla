------------------------------ MODULE OOCSIChat ------------------------------
(* The chat widget of oocsi-chat.js on one page, on top of the JavaScript     *)
(* client: what it has joined, shows and counts, while the socket comes and   *)
(* goes.                                                                      *)
(*                                                                            *)
(* The client (OOCSIWebClient models it) is its socket, its handlers and what *)
(* waitForSocket holds back.  Every join subscribes another function, so that *)
(* handlers are counted.  Of a message the model keeps where it was sent, by  *)
(* what user name, and what the widget makes of it.  Wording, layout, and the *)
(* case that the client is not loaded, are left out; so is isConnected, which *)
(* is set but never read.                                                     *)
EXTENDS Integers, Sequences

CONSTANTS Channels, \* channels one may join
          Names,    \* user names this user may type
          Users,    \* user names of messages: somebody else may have the same
          None,     \* JavaScript's null
          MaxJoins, \* bound: functions subscribed to one channel
          MaxInbox, \* bound: messages under way to the page
          MaxUnread \* bound: unread messages

ASSUME ChatAssumption ==
  /\ None \notin Channels \union Users
  /\ Names \subseteq Users
  /\ MaxJoins \in Nat \ {0}
  /\ {MaxInbox, MaxUnread} \subseteq Nat

\* What a message is to the widget: a text, or a <JOIN> or <LEAVE>.  Raw data of
\* others it treats as a text of somebody with another name.  (That of the page's own
\* scripts, which it skips, is left out.)
Messages == [channel : Channels, kind : {"text", "notice"}, username : Users]

VARIABLES
  socket,     \* "none", "connecting", "open" or "closed"
  handle,     \* has connect been called, so that there is a handle?
  hello,      \* the channel that the function given to connect announces, or None
  handlers,   \* per channel the number of functions subscribed
  subscribes, \* per channel the number of subscribe calls that wait for the socket
  joins,      \* channels with a <JOIN> that waits; equal ones count once
  hidden,     \* document.hidden
  retry,      \* is reconnectTimer set?
  subscribed, \* channels the server knows this socket subscribed to
  inbox,      \* messages under way to the page
  channel, username,           \* currentChannel, currentUsername
  cookieChannel, cookieName,   \* what the cookies hold
  isOpen, unread,
  listed,     \* channels whose messages are in the list
  announced,  \* history: channels whose last notice of this page is a <JOIN>
  stale,      \* history: channels left while the socket was down, or while a
              \* subscribe for them was waiting
  excused,    \* history: channels left whose <LEAVE> could not be said, or was
              \* followed by a <JOIN> that had waited or that a message to the
              \* handle brought about
  missed      \* history: messages of others that came since one last looked

timerVars == <<hidden, retry>>
clientVars == <<socket, handle, hello, handlers, subscribes, joins, timerVars>>
serverVars == <<subscribed, inbox, announced>>
userVars == <<channel, username, cookieChannel, cookieName>>
viewVars == <<isOpen, unread, listed, missed>>
exceptions == <<stale, excused>>
vars == <<clientVars, serverVars, userVars, viewVars, exceptions>>

NoHandlers == [c \in Channels |-> 0]

ClientTypes ==
  /\ socket \in {"none", "connecting", "open", "closed"}
  /\ hello \in Channels \union {None}
  /\ handlers \in [Channels -> 0..MaxJoins]
  /\ subscribes \in [Channels -> 0..MaxJoins]
  /\ joins \subseteq Channels
ServerTypes ==
  /\ subscribed \union announced \union stale \union excused \subseteq Channels
  /\ inbox \in Seq(Messages)
UserTypes ==
  /\ {channel, cookieChannel} \subseteq Channels \union {None}
  /\ {username, cookieName} \subseteq Names \union {None}
ViewTypes ==
  /\ listed \subseteq Channels
  /\ unread \in 0..(MaxUnread + MaxJoins)
  /\ missed \in 0..MaxUnread

Flags == {handle, isOpen, hidden, retry} \subseteq BOOLEAN

TypeOK == ClientTypes /\ ServerTypes /\ UserTypes /\ ViewTypes /\ Flags

----------------------------------------------------------------------------
(* Mutations: the definition each is named after, with a plausible slip.  The *)
(* specification uses none of them; a property is kept only if one breaks it. *)

\* Closing the window shows it read, opening it does not.
ToggleKeepsUnread ==
  /\ isOpen' = ~isOpen
  /\ missed' = IF isOpen' THEN 0 ELSE missed
  /\ UNCHANGED <<unread, listed>>

\* The page leaves, but its function stays.
LeaveOnlySays ==
  IF socket = "open"
  THEN /\ announced' = announced \ {channel}
       /\ subscribed' = subscribed \ {channel}
       /\ UNCHANGED handlers
  ELSE UNCHANGED <<announced, subscribed, handlers>>

\* One function is removed, found or not.
LeaveRemovesOne ==
  IF socket = "open"
  THEN /\ announced' = announced \ {channel}
       /\ subscribed' = subscribed \ {channel}
       /\ handlers' = [handlers EXCEPT ![channel] = @ - 1]
  ELSE UNCHANGED <<announced, subscribed, handlers>>

\* The <LEAVE> is forgotten.
LeaveSilently ==
  IF socket = "open"
  THEN /\ subscribed' = subscribed \ {channel}
       /\ handlers' = [handlers EXCEPT ![channel] = 0]
       /\ UNCHANGED announced
  ELSE UNCHANGED <<announced, subscribed, handlers>>

\* What cannot be sent at once is dropped.
SubscribeIfOpen(c) ==
  IF socket = "open"
  THEN /\ handlers' = [handlers EXCEPT ![c] = @ + 1]
       /\ subscribed' = subscribed \union {c}
       /\ UNCHANGED subscribes
  ELSE UNCHANGED <<handlers, subscribed, subscribes>>

----------------------------------------------------------------------------
(* The client, as the widget calls it.                                        *)

Live == socket \in {"connecting", "open"}

\* send of a <JOIN>: kept while the socket connects, dropped if it is closed.
SendJoin(c) ==
  /\ joins' = IF socket = "connecting" THEN joins \union {c} ELSE joins
  /\ announced' = IF socket = "open" THEN announced \union {c} ELSE announced

\* subscribe: kept while the socket connects; the function is added in any case.
Subscribe(c) ==
  IF socket = "connecting"
  THEN /\ subscribes' = [subscribes EXCEPT ![c] = @ + 1]
       /\ UNCHANGED <<handlers, subscribed>>
  ELSE /\ handlers' = [handlers EXCEPT ![c] = @ + 1]
       /\ subscribed' = IF socket = "open" THEN subscribed \union {c} ELSE subscribed
       /\ UNCHANGED subscribes

\* connectToChannel.  The function given to connect becomes the handler of the
\* page's own handle: it runs when a message to the handle comes, not when the
\* socket opens.  A page that was shown before may have a socket and no handle.
ConnectToChannel(c) ==
  IF handle \/ Live
  THEN /\ SendJoin(c)
       /\ Subscribe(c)
       /\ UNCHANGED <<socket, handle, hello, retry>>
  ELSE /\ socket' = "connecting"
       /\ retry' = FALSE
       /\ handle' = TRUE
       /\ hello' = c
       /\ subscribes' = [subscribes EXCEPT ![c] = @ + 1]
       /\ UNCHANGED <<handlers, joins, subscribed, announced>>

Room(c) == handlers[c] + subscribes[c] < MaxJoins

----------------------------------------------------------------------------
(* The user, who sees the page.                                               *)

\* toggleWindow
Toggle ==
  /\ isOpen' = ~isOpen
  /\ unread' = IF isOpen' THEN 0 ELSE unread
  /\ missed' = IF isOpen' THEN 0 ELSE missed
  /\ UNCHANGED listed

\* ensureUsername: asks for a name unless there is one; None is a cancelled prompt.
EnsureUsername(name) ==
  IF username = None
  THEN username' = name /\ cookieName' = IF name = None THEN cookieName ELSE name
  ELSE UNCHANGED <<username, cookieName>>

\* openChat: a name, then a channel, then the window; a cancelled prompt ends it.
OpenChat(name, c) ==
  /\ ~hidden
  /\ EnsureUsername(name)
  /\ \/ /\ channel = None /\ c # None /\ username' # None
        /\ Room(c)
        /\ channel' = c /\ cookieChannel' = c
        /\ ConnectToChannel(c)
        /\ Toggle
        /\ excused' = excused \ {c}
     \/ /\ channel # None \/ c = None \/ username' = None
        /\ IF channel # None /\ username' # None THEN Toggle ELSE UNCHANGED viewVars
        /\ UNCHANGED <<clientVars, subscribed, announced, channel, cookieChannel, excused>>
  /\ UNCHANGED <<hidden, inbox, stale>>

\* changeUsername
ChangeUsername(name) ==
  /\ ~hidden
  /\ username' = name /\ cookieName' = name
  /\ UNCHANGED <<clientVars, serverVars, channel, cookieChannel, viewVars, exceptions>>

\* The first half of disconnect: a <LEAVE>, and no function any more, if the
\* socket is open.
Leave ==
  IF socket = "open"
  THEN /\ announced' = announced \ {channel}
       /\ subscribed' = subscribed \ {channel}
       /\ handlers' = [handlers EXCEPT ![channel] = 0]
  ELSE UNCHANGED <<announced, subscribed, handlers>>

\* The second half: the widget forgets the channel.
Forget ==
  /\ channel' = None
  /\ cookieChannel' = None
  /\ isOpen' = FALSE
  /\ unread' = 0 /\ missed' = 0
  /\ listed' = {}

Disconnect ==
  /\ ~hidden
  /\ IF channel # None
     THEN /\ Leave
          /\ stale' = IF socket = "open" /\ subscribes[channel] = 0
                      THEN stale \ {channel} ELSE stale \union {channel}
          /\ excused' = IF channel \in joins \/ (socket # "open" /\ channel \in announced)
                        THEN excused \union {channel} ELSE excused \ {channel}
     ELSE UNCHANGED <<announced, subscribed, handlers, exceptions>>
  /\ Forget
  /\ UNCHANGED <<socket, handle, hello, subscribes, joins, timerVars, inbox, username, cookieName>>

\* sendMessage: its own text is listed at once; the server may send it back.
SendMessage(echo) ==
  /\ ~hidden
  /\ channel # None /\ username # None
  /\ socket = "open"
  /\ listed' = listed \union {channel}
  /\ IF echo /\ channel \in subscribed
     THEN /\ Len(inbox) < MaxInbox
          /\ inbox' = Append(inbox, [channel |-> channel, kind |-> "text", username |-> username])
     ELSE UNCHANGED inbox
  /\ UNCHANGED <<clientVars, subscribed, announced, userVars, isOpen, unread, missed, exceptions>>

\* The page goes (beforeunload says <LEAVE> if it can) and comes back with what
\* the cookies hold, if they have not expired: nobody reads them in between.  Its
\* handle is another one, so history starts anew.
Reload ==
  /\ cookieChannel' \in {cookieChannel, None} /\ channel' = cookieChannel'
  /\ cookieName' \in {cookieName, None} /\ username' = cookieName'
  /\ isOpen' = FALSE /\ unread' = 0 /\ missed' = 0 /\ listed' = {}
  /\ handlers' = NoHandlers /\ joins' = {}
  /\ subscribed' = {} /\ inbox' = <<>> /\ announced' = {} /\ stale' = {} /\ excused' = {}
  /\ handle' = (channel' # None)
  /\ hello' = channel'
  /\ socket' = IF channel' = None THEN "none" ELSE "connecting"
  /\ subscribes' = [c \in Channels |-> IF c = channel' THEN 1 ELSE 0]
  /\ retry' = FALSE /\ UNCHANGED hidden

----------------------------------------------------------------------------
(* The socket, and what waits for it.                                         *)

\* A script of the page itself connects first, with a function of its own.
PageConnects ==
  /\ ~handle /\ ~Live
  /\ handle' = TRUE /\ socket' = "connecting" /\ retry' = FALSE
  /\ UNCHANGED <<hello, handlers, subscribes, joins, hidden, serverVars, userVars, viewVars, exceptions>>

\* onOpen subscribes whatever has a handler.
Opens ==
  /\ socket = "connecting"
  /\ socket' = "open"
  /\ subscribed' = {c \in Channels : handlers[c] > 0}
  /\ UNCHANGED <<handle, hello, handlers, subscribes, joins, timerVars, inbox, announced,
                 userVars, viewVars, exceptions>>

\* A hidden page arms no timer.
Fails ==
  /\ Live
  /\ socket' = "closed"
  /\ subscribed' = {} /\ inbox' = <<>>
  /\ retry' = ~hidden
  /\ UNCHANGED <<handle, hello, handlers, subscribes, joins, hidden, announced,
                 userVars, viewVars, exceptions>>

Reconnects ==
  /\ retry
  /\ socket' = "connecting"
  /\ retry' = FALSE
  /\ UNCHANGED <<handle, hello, handlers, subscribes, joins, hidden, serverVars,
                 userVars, viewVars, exceptions>>

\* visibilitychange, connect called or not: without it the server is the default one.
VisibilityChange ==
  /\ hidden' = ~hidden
  /\ retry' = (retry \/ (hidden /\ ~Live))
  /\ UNCHANGED <<socket, handle, hello, handlers, subscribes, joins, serverVars,
                 userVars, viewVars, exceptions>>

\* waitForSocket: each call polls on its own.
PollSubscribe(c) ==
  /\ socket # "connecting" /\ subscribes[c] > 0
  /\ subscribes' = [subscribes EXCEPT ![c] = @ - 1]
  /\ handlers' = [handlers EXCEPT ![c] = @ + 1]
  /\ subscribed' = IF socket = "open" THEN subscribed \union {c} ELSE subscribed
  /\ UNCHANGED <<socket, handle, hello, joins, timerVars, inbox, announced, userVars, viewVars, exceptions>>

PollJoin(c) ==
  /\ socket # "connecting" /\ c \in joins
  /\ joins' = joins \ {c}
  /\ announced' = IF socket = "open" THEN announced \union {c} ELSE announced
  /\ UNCHANGED <<socket, handle, hello, handlers, subscribes, timerVars, subscribed, inbox,
                 userVars, viewVars, exceptions>>

----------------------------------------------------------------------------
(* Messages.                                                                  *)

OthersSend(m) ==
  /\ m.channel \in subscribed
  /\ Len(inbox) < MaxInbox
  /\ inbox' = Append(inbox, m)
  /\ UNCHANGED <<clientVars, subscribed, announced, userVars, viewVars, exceptions>>

\* A message to the handle itself runs the function that connect was given: it
\* announces its channel, left or not.
MessageToHandle ==
  /\ socket = "open" /\ hello # None
  /\ SendJoin(hello)
  /\ excused' = IF hello = channel THEN excused ELSE excused \union {hello}
  /\ UNCHANGED <<socket, handle, hello, handlers, subscribes, timerVars, subscribed, inbox,
                 userVars, viewVars, stale>>

\* What the function does with a message: what is under one's own name is skipped,
\* and texts are counted.
Foreign(m) == m.username # username
Counts(m) == m.kind # "notice" /\ Foreign(m) /\ ~isOpen

\* Each function subscribed to the channel gets the message.
Receive ==
  /\ inbox # <<>>
  /\ LET m == Head(inbox)
     IN /\ Counts(m) => missed < MaxUnread /\ unread < MaxUnread
        /\ listed' = IF Foreign(m) /\ handlers[m.channel] > 0
                     THEN listed \union {m.channel} ELSE listed
        /\ unread' = IF Counts(m) THEN unread + handlers[m.channel] ELSE unread
        /\ missed' = IF Counts(m) /\ m.channel = channel /\ handlers[m.channel] > 0
                     THEN missed + 1 ELSE missed
  /\ inbox' = Tail(inbox)
  /\ UNCHANGED <<clientVars, subscribed, announced, userVars, isOpen, exceptions>>

----------------------------------------------------------------------------
Init ==
  /\ socket = "none" /\ handle = FALSE /\ hello = None
  /\ handlers = NoHandlers /\ subscribes = NoHandlers /\ joins = {}
  /\ subscribed = {} /\ inbox = <<>> /\ announced = {} /\ stale = {} /\ excused = {}
  /\ hidden \in BOOLEAN /\ retry = FALSE
  /\ channel = None /\ cookieChannel = None
  /\ username \in Names \union {None} /\ cookieName = username
  /\ isOpen = FALSE /\ unread = 0 /\ missed = 0 /\ listed = {}

Next ==
  \/ \E name \in Names \union {None}, c \in Channels \union {None} : OpenChat(name, c)
  \/ \E name \in Names : ChangeUsername(name)
  \/ \E echo \in BOOLEAN : SendMessage(echo)
  \/ \E c \in Channels : PollSubscribe(c) \/ PollJoin(c)
  \/ \E m \in Messages : OthersSend(m)
  \/ Disconnect \/ Reload \/ PageConnects
  \/ Opens \/ Fails \/ Reconnects \/ VisibilityChange \/ MessageToHandle \/ Receive

Spec == Init /\ [][Next]_vars

\* Timers fire, a server that is there accepts, and the browser runs its tasks.
FairSpec ==
  /\ Spec
  /\ WF_vars(Reconnects) /\ WF_vars(Opens) /\ WF_vars(Receive)
  /\ \A c \in Channels : WF_vars(PollSubscribe(c))

----------------------------------------------------------------------------
(* Safety.                                                                    *)

\* A channel that has a function, or will get one, is the one joined, or one that
\* was left in one of two ways "Disconnect and leave channel?" does not cover: while
\* the socket was down, or while a subscribe for it was waiting.  After any other
\* disconnect nothing of the channel comes back, not even by a reconnect.
FunctionsAreOfChannel ==
  \A c \in Channels : handlers[c] + subscribes[c] > 0 => c \in {channel} \union stale

\* The list shows messages of the channel joined only, with the same exception.
ListIsOfChannel == listed \subseteq {channel} \union stale

\* What one has left stays left: it is not heard, and not shown.
LeftIsLeft == FunctionsAreOfChannel /\ ListIsOfChannel

\* Joining, losing the socket, reconnecting and joining again leave one function per
\* channel, so that no message is shown or counted twice.
OneFunctionPerChannel ==
  \A c \in Channels \ stale : handlers[c] + subscribes[c] <= 1

\* The badge counts the messages one missed: all since one last looked, each once,
\* and none of a channel that was left.
UnreadIsMissed == stale = {} => unread = missed

\* No message counts twice, by a second function or a badge that was not reset.
CountedOnce == OneFunctionPerChannel /\ UnreadIsMissed

\* Whom the others believe to be here is here, or has left in a way that a <LEAVE>
\* does not cover: it could not be said, a <JOIN> was still waiting then, or a message
\* to the handle made the function given to connect say <JOIN> afterwards.  A channel
\* left in the open with none of these is believed left, the first one too.
AnnouncedIsMember == announced \subseteq {channel} \union excused

----------------------------------------------------------------------------
(* Liveness.                                                                  *)

\* Once the page stays, and stays visible, and the socket no longer fails, the server
\* knows of the channel one has joined: whether one joined before, while or after the
\* socket connected, and also if it failed while the page was hidden.
JoinedIsSubscribed ==
  <>[]~hidden /\ <>[][~Fails /\ ~Reload]_vars =>
    (channel # None ~> channel = None \/ channel \in subscribed)
=============================================================================
