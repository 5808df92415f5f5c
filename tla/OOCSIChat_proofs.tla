--------------------------- MODULE OOCSIChat_proofs ---------------------------
(* Safety of OOCSIChat, for any channels, names and users and any bounds.     *)
EXTENDS OOCSIChat, TLAPS

Closures(c) == handlers[c] + subscribes[c]

\* What bounds the functions of a channel.
RoomKept == \A c \in Channels : Closures(c) <= MaxJoins

\* A <JOIN> that waits for the socket is for the channel joined, or the channel was
\* left in the meantime.
JoinsAreOfChannel == joins \subseteq {channel} \union excused

\* Only who has called connect has given it a function.
HelloHasHandle == hello # None => handle

Rest ==
  /\ FunctionsAreOfChannel
  /\ ListIsOfChannel
  /\ OneFunctionPerChannel
  /\ UnreadIsMissed
  /\ AnnouncedIsMember
  /\ RoomKept
  /\ JoinsAreOfChannel
  /\ HelloHasHandle

IInv == TypeOK /\ Rest

LEMMA Bounds == MaxJoins \in Nat /\ MaxJoins > 0 /\ MaxUnread \in Nat /\ None \notin Channels
  BY ChatAssumption

LEMMA Initially == Init => IInv
<1> SUFFICES ASSUME Init PROVE IInv
  OBVIOUS
<1> USE Bounds
<1>1. NoHandlers \in [Channels -> 0..MaxJoins] /\ \A c \in Channels : NoHandlers[c] = 0
  BY DEF NoHandlers
<1>2. TypeOK
  <2>1. inbox \in Seq(Messages)
    BY DEF Init
  <2>2. unread \in 0..(MaxUnread + MaxJoins) /\ missed \in 0..MaxUnread
    BY DEF Init
  <2>3. handlers \in [Channels -> 0..MaxJoins] /\ subscribes \in [Channels -> 0..MaxJoins]
    BY <1>1 DEF Init
  <2>4. /\ socket \in {"none", "connecting", "open", "closed"}
        /\ handle \in BOOLEAN /\ isOpen \in BOOLEAN
        /\ hello \in Channels \union {None}
        /\ subscribed \union joins \union listed \union announced \union stale \union excused \subseteq Channels
        /\ {hidden, retry} \subseteq BOOLEAN
        /\ {channel, cookieChannel} \subseteq Channels \union {None}
        /\ {username, cookieName} \subseteq Names \union {None}
    BY DEF Init
  <2> QED
    BY <2>1, <2>2, <2>3, <2>4 DEF TypeOK, ClientTypes, ServerTypes, UserTypes, ViewTypes, Flags
<1>3. \A c \in Channels : Closures(c) = 0
  <2> SUFFICES ASSUME NEW c \in Channels PROVE Closures(c) = 0
    OBVIOUS
  <2>1. handlers[c] = 0 /\ subscribes[c] = 0
    BY <1>1 DEF Init
  <2> QED
    BY <2>1 DEF Closures
<1>4. Rest
  BY <1>3
     DEF Init, Rest, FunctionsAreOfChannel, ListIsOfChannel, OneFunctionPerChannel, UnreadIsMissed,
         AnnouncedIsMember, RoomKept, JoinsAreOfChannel, HelloHasHandle, Closures
<1> QED
  BY <1>2, <1>4 DEF IInv

----------------------------------------------------------------------------
(* The user.                                                                  *)

\* A user name is one that may be typed, or none.
LEMMA UsernameFacts ==
  ASSUME TypeOK, NEW name \in Names \union {None}, EnsureUsername(name)
  PROVE  {username', cookieName'} \subseteq Names \union {None}
  BY DEF EnsureUsername, TypeOK, UserTypes

\* Joining, with or without connecting first, gives one channel one more function.
LEMMA ConnectFacts ==
  ASSUME IInv, NEW c \in Channels, Room(c), ConnectToChannel(c)
  PROVE  /\ socket' \in {"none", "connecting", "open", "closed"} /\ handle' \in {handle, TRUE}
         /\ hello' \in {hello, c} /\ (hello' # None => handle')
         /\ handlers' \in [Channels -> 0..MaxJoins] /\ subscribes' \in [Channels -> 0..MaxJoins]
         /\ \A d \in Channels : Closures(d)' = IF d = c THEN Closures(d) + 1 ELSE Closures(d)
         /\ joins' \subseteq joins \union {c}
         /\ announced' \subseteq announced \union {c}
         /\ subscribed' \subseteq subscribed \union {c}
         /\ retry' \in {retry, FALSE}
<1> DEFINE More == [handlers EXCEPT ![c] = @ + 1]
           Waits == [subscribes EXCEPT ![c] = @ + 1]
<1>1. /\ socket \in {"none", "connecting", "open", "closed"}
      /\ handlers \in [Channels -> 0..MaxJoins] /\ subscribes \in [Channels -> 0..MaxJoins]
      /\ handlers[c] + subscribes[c] < MaxJoins /\ MaxJoins \in Nat
  BY ChatAssumption DEF IInv, TypeOK, ClientTypes, Room
<1>2. /\ More \in [Channels -> 0..MaxJoins] /\ Waits \in [Channels -> 0..MaxJoins]
      /\ \A d \in Channels : /\ More[d] = IF d = c THEN handlers[d] + 1 ELSE handlers[d]
                             /\ Waits[d] = IF d = c THEN subscribes[d] + 1 ELSE subscribes[d]
  BY <1>1
<1>3. \/ handlers' = More /\ subscribes' = subscribes
      \/ handlers' = handlers /\ subscribes' = Waits
  BY DEF ConnectToChannel, Subscribe
<1>4. \A d \in Channels : Closures(d)' = IF d = c THEN Closures(d) + 1 ELSE Closures(d)
  BY <1>1, <1>2, <1>3 DEF Closures
<1>5. handlers' \in [Channels -> 0..MaxJoins] /\ subscribes' \in [Channels -> 0..MaxJoins]
  BY <1>1, <1>2, <1>3
<1>6. joins' \subseteq joins \union {c} /\ announced' \subseteq announced \union {c}
  BY DEF ConnectToChannel, SendJoin
<1>7. subscribed' \subseteq subscribed \union {c} /\ hello' \in {hello, c}
  BY DEF ConnectToChannel, Subscribe
<1>8. socket' \in {"none", "connecting", "open", "closed"}
  BY <1>1 DEF ConnectToChannel
<1>9. handle' \in {handle, TRUE} /\ (hello' # None => handle')
  BY DEF ConnectToChannel, IInv, TypeOK, Flags, Rest, HelloHasHandle
<1>10. retry' \in {retry, FALSE}
  BY DEF ConnectToChannel
<1> QED
  BY <1>4, <1>5, <1>6, <1>7, <1>8, <1>9, <1>10

\* openChat joins only if there is no channel, so that one function is all there is.
LEMMA OpenChatKeeps ==
  ASSUME IInv, NEW name \in Names \union {None}, NEW c \in Channels \union {None},
         OpenChat(name, c)
  PROVE  IInv'
<1> USE Bounds
<1>1. {username', cookieName'} \subseteq Names \union {None} /\ UNCHANGED <<inbox, stale, hidden>>
  BY UsernameFacts DEF OpenChat, IInv
<1>2. TypeOK /\ Rest
  BY DEF IInv
<1>3. ASSUME channel = None, c # None, Room(c), ConnectToChannel(c), Toggle,
             channel' = c, cookieChannel' = c, excused' = excused \ {c}
      PROVE  IInv'
  <2>1. c \in Channels
    BY <1>3
  <2>2. /\ socket' \in {"none", "connecting", "open", "closed"} /\ handle' \in {handle, TRUE}
        /\ hello' \in {hello, c} /\ (hello' # None => handle') /\ retry' \in {retry, FALSE}
        /\ handlers' \in [Channels -> 0..MaxJoins] /\ subscribes' \in [Channels -> 0..MaxJoins]
        /\ \A d \in Channels : Closures(d)' = IF d = c THEN Closures(d) + 1 ELSE Closures(d)
        /\ joins' \subseteq joins \union {c}
        /\ announced' \subseteq announced \union {c}
        /\ subscribed' \subseteq subscribed \union {c}
    BY <1>3, <2>1, ConnectFacts
  <2>3. /\ isOpen' \in BOOLEAN /\ listed' = listed
        /\ unread' \in {unread, 0} /\ missed' \in {missed, 0}
        /\ unread = missed => unread' = missed'
    BY <1>3 DEF Toggle
  <2>4. TypeOK'
    <3>1. ClientTypes'
      BY <1>1, <1>2, <1>3, <2>1, <2>2, <2>3 DEF TypeOK, ClientTypes
    <3>2. ServerTypes'
      BY <1>1, <1>2, <1>3, <2>1, <2>2, <2>3 DEF TypeOK, UserTypes, ServerTypes
    <3>3. UserTypes'
      BY <1>1, <1>2, <1>3, <2>1, <2>2, <2>3 DEF TypeOK, UserTypes
    <3>4. ViewTypes'
      BY <1>1, <1>2, <1>3, <2>1, <2>2, <2>3 DEF TypeOK, ViewTypes
    <3>5. Flags'
      BY <1>1, <1>2, <1>3, <2>1, <2>2, <2>3 DEF TypeOK, Flags
    <3> QED
      BY <3>1, <3>2, <3>3, <3>4, <3>5 DEF TypeOK
  <2>5. \A d \in Channels \ stale : Closures(d) = 0
    <3> SUFFICES ASSUME NEW d \in Channels \ stale PROVE Closures(d) = 0
      OBVIOUS
    <3>1. ~(handlers[d] + subscribes[d] > 0)
      BY <1>2, <1>3 DEF Rest, FunctionsAreOfChannel
    <3>2. handlers[d] \in Nat /\ subscribes[d] \in Nat
      BY <1>2 DEF TypeOK, ClientTypes
    <3> QED
      BY <3>1, <3>2 DEF Closures
  <2>6. FunctionsAreOfChannel' /\ OneFunctionPerChannel'
    BY <1>1, <1>3, <2>2, <2>5 DEF FunctionsAreOfChannel, OneFunctionPerChannel, Closures
  <2>7. RoomKept'
    <3>1. Closures(c) < MaxJoins /\ Closures(c) \in Nat
      BY <1>2, <1>3, <2>1 DEF Room, Closures, TypeOK, ClientTypes
    <3>2. \A d \in Channels : Closures(d)' <= MaxJoins
      BY <1>2, <2>2, <3>1 DEF Rest, RoomKept
    <3> QED
      BY <3>2 DEF RoomKept
  <2>8. (ListIsOfChannel /\ AnnouncedIsMember /\ JoinsAreOfChannel)'
    <3>1. /\ listed \union announced \union joins \subseteq Channels
          /\ listed \subseteq stale /\ joins \subseteq excused /\ announced \subseteq excused
      BY <1>2, <1>3
         DEF Rest, TypeOK, ClientTypes, ServerTypes, ViewTypes, ListIsOfChannel,
             AnnouncedIsMember, JoinsAreOfChannel
    <3> QED
      BY <1>1, <1>3, <2>2, <2>3, <3>1
         DEF ListIsOfChannel, AnnouncedIsMember, JoinsAreOfChannel
  <2>9. UnreadIsMissed' /\ HelloHasHandle'
    BY <1>1, <1>2, <2>2, <2>3 DEF Rest, UnreadIsMissed, HelloHasHandle
  <2> QED
    BY <2>4, <2>6, <2>7, <2>8, <2>9 DEF IInv, Rest
<1>4. ASSUME Toggle \/ UNCHANGED viewVars,
             UNCHANGED <<clientVars, subscribed, announced, channel, cookieChannel, excused>>
      PROVE  IInv'
  <2>1. /\ isOpen' \in BOOLEAN /\ listed' = listed
        /\ unread' \in {unread, 0} /\ missed' \in {missed, 0}
        /\ unread = missed => unread' = missed'
    BY <1>2, <1>4 DEF Toggle, viewVars, TypeOK, Flags
  <2>2. TypeOK'
    <3>1. ClientTypes'
      BY <1>1, <1>2, <1>4, <2>1 DEF TypeOK, ClientTypes, clientVars, timerVars
    <3>2. ServerTypes'
      BY <1>1, <1>2, <1>4, <2>1 DEF TypeOK, UserTypes, ServerTypes, clientVars, timerVars
    <3>3. UserTypes'
      BY <1>1, <1>2, <1>4, <2>1 DEF TypeOK, UserTypes, clientVars, timerVars
    <3>4. ViewTypes'
      BY <1>1, <1>2, <1>4, <2>1 DEF TypeOK, ViewTypes, clientVars, timerVars
    <3>5. Flags'
      BY <1>1, <1>2, <1>4, <2>1 DEF TypeOK, Flags, clientVars, timerVars
    <3> QED
      BY <3>1, <3>2, <3>3, <3>4, <3>5 DEF TypeOK
  <2>3. Rest'
    BY <1>1, <1>2, <1>4, <2>1
       DEF Rest, clientVars, timerVars, FunctionsAreOfChannel, ListIsOfChannel, OneFunctionPerChannel,
           UnreadIsMissed, AnnouncedIsMember, RoomKept, JoinsAreOfChannel, HelloHasHandle, Closures
  <2> QED
    BY <2>2, <2>3 DEF IInv
<1> QED
  BY <1>3, <1>4 DEF OpenChat

\* Of a channel that is left with the socket open and no subscribe waiting, nothing is
\* left; any other is stale.  What others may still believe is excused.
LEMMA DisconnectKeeps == ASSUME IInv, Disconnect PROVE IInv'
<1> USE Bounds
<1>1. TypeOK /\ Rest
  BY DEF IInv
<1>2. /\ channel' = None /\ cookieChannel' = None /\ isOpen' = FALSE
      /\ unread' = 0 /\ missed' = 0 /\ listed' = {}
      /\ UNCHANGED <<socket, handle, hello, subscribes, joins, inbox, username, cookieName>>
      /\ UNCHANGED <<hidden, retry>>
  BY DEF Disconnect, Forget, timerVars
<1>6. excused' \subseteq Channels /\ announced' \union joins \subseteq excused' \union {channel'}
  <2>1. excused \subseteq Channels /\ announced \union joins \subseteq excused \union {channel}
    BY <1>1 DEF TypeOK, ServerTypes, Rest, AnnouncedIsMember, JoinsAreOfChannel
  <2>2. CASE channel # None
    <3>1. channel \in Channels
      BY <1>1, <2>2 DEF TypeOK, UserTypes
    <3>2. announced' = IF socket = "open" THEN announced \ {channel} ELSE announced
      BY <2>2 DEF Disconnect, Leave
    <3>3. excused' = IF channel \in joins \/ (socket # "open" /\ channel \in announced)
                     THEN excused \union {channel} ELSE excused \ {channel}
      BY <2>2 DEF Disconnect
    <3> QED
      BY <2>1, <3>1, <3>2, <3>3
  <2>3. CASE channel = None
    BY <1>2, <2>1, <2>3 DEF Disconnect, exceptions
  <2> QED
    BY <2>2, <2>3
<1>3. CASE channel # None /\ socket = "open"
  <2>1. channel \in Channels
    BY <1>1, <1>3 DEF TypeOK, UserTypes
  <2>2. /\ announced' = announced \ {channel}
        /\ subscribed' = subscribed \ {channel}
        /\ handlers' = [handlers EXCEPT ![channel] = 0]
    BY <1>3 DEF Disconnect, Leave
  <2>3. handlers' \in [Channels -> 0..MaxJoins]
    <3>1. handlers \in [Channels -> 0..MaxJoins] /\ 0 \in 0..MaxJoins
      BY <1>1 DEF TypeOK, ClientTypes
    <3> QED
      BY <2>2, <3>1
  <2>4. CASE subscribes[channel] = 0
    <3>1. stale' = stale \ {channel}
      BY <1>3, <2>4 DEF Disconnect
    <3>2. TypeOK'
      <4>1. ClientTypes'
        BY <1>1, <1>2, <2>2, <2>3, <3>1 DEF TypeOK, ClientTypes
      <4>2. ServerTypes'
        BY <1>1, <1>2, <1>6, <2>2, <2>3, <3>1 DEF TypeOK, UserTypes, ServerTypes
      <4>3. UserTypes'
        BY <1>1, <1>2, <2>2, <2>3, <3>1 DEF TypeOK, UserTypes
      <4>4. ViewTypes'
        BY <1>1, <1>2, <2>2, <2>3, <3>1 DEF TypeOK, ViewTypes
      <4>5. Flags'
        BY <1>1, <1>2, <2>2, <2>3, <3>1 DEF TypeOK, Flags
      <4> QED
        BY <4>1, <4>2, <4>3, <4>4, <4>5 DEF TypeOK
    <3>3. \A d \in Channels : Closures(d)' = IF d = channel THEN 0 ELSE Closures(d)
      BY <1>1, <1>2, <2>1, <2>2, <2>4 DEF Closures, TypeOK, ClientTypes
    <3>4. (FunctionsAreOfChannel /\ OneFunctionPerChannel /\ RoomKept)'
      BY <1>1, <1>2, <3>1, <3>3
         DEF Rest, FunctionsAreOfChannel, OneFunctionPerChannel, RoomKept, Closures
    <3>5. (ListIsOfChannel /\ AnnouncedIsMember /\ JoinsAreOfChannel)'
      BY <1>1, <1>2, <1>6, <2>2, <2>4, <3>1
         DEF Rest, ListIsOfChannel, AnnouncedIsMember, JoinsAreOfChannel
    <3>6. (UnreadIsMissed /\ HelloHasHandle)'
      BY <1>1, <1>2 DEF Rest, UnreadIsMissed, HelloHasHandle
    <3> QED
      BY <3>2, <3>4, <3>5, <3>6 DEF IInv, Rest
  <2>5. CASE subscribes[channel] # 0
    <3>1. stale' = stale \union {channel}
      BY <1>3, <2>5 DEF Disconnect
    <3>2. TypeOK'
      <4>1. ClientTypes'
        BY <1>1, <1>2, <2>1, <2>2, <2>3, <3>1 DEF TypeOK, ClientTypes
      <4>2. ServerTypes'
        BY <1>1, <1>2, <1>6, <2>1, <2>2, <2>3, <3>1 DEF TypeOK, UserTypes, ServerTypes
      <4>3. UserTypes'
        BY <1>1, <1>2, <2>1, <2>2, <2>3, <3>1 DEF TypeOK, UserTypes
      <4>4. ViewTypes'
        BY <1>1, <1>2, <2>1, <2>2, <2>3, <3>1 DEF TypeOK, ViewTypes
      <4>5. Flags'
        BY <1>1, <1>2, <2>1, <2>2, <2>3, <3>1 DEF TypeOK, Flags
      <4> QED
        BY <4>1, <4>2, <4>3, <4>4, <4>5 DEF TypeOK
    <3>3. \A d \in Channels : Closures(d)' <= Closures(d) /\ Closures(d)' \in Nat /\ Closures(d) \in Nat
      BY <1>1, <1>2, <2>1, <2>2 DEF Closures, TypeOK, ClientTypes
    <3>4. (FunctionsAreOfChannel /\ OneFunctionPerChannel /\ RoomKept)'
      BY <1>1, <1>2, <3>1, <3>3
         DEF Rest, FunctionsAreOfChannel, OneFunctionPerChannel, RoomKept, Closures
    <3>5. (ListIsOfChannel /\ AnnouncedIsMember /\ JoinsAreOfChannel)'
      BY <1>1, <1>2, <1>6, <2>2, <3>1
         DEF Rest, ListIsOfChannel, AnnouncedIsMember, JoinsAreOfChannel
    <3>6. (UnreadIsMissed /\ HelloHasHandle)'
      BY <1>1, <1>2 DEF Rest, UnreadIsMissed, HelloHasHandle
    <3> QED
      BY <3>2, <3>4, <3>5, <3>6 DEF IInv, Rest
  <2> QED
    BY <2>4, <2>5
<1>4. CASE channel # None /\ socket # "open"
  <2>1. stale' = stale \union {channel} /\ UNCHANGED <<announced, subscribed, handlers>>
    BY <1>4 DEF Disconnect, Leave
  <2>2. TypeOK'
    <3>1. ClientTypes'
      BY <1>1, <1>2, <1>4, <2>1 DEF TypeOK, ClientTypes
    <3>2. ServerTypes'
      BY <1>1, <1>2, <1>6, <1>4, <2>1 DEF TypeOK, UserTypes, ServerTypes
    <3>3. UserTypes'
      BY <1>1, <1>2, <1>4, <2>1 DEF TypeOK, UserTypes
    <3>4. ViewTypes'
      BY <1>1, <1>2, <1>4, <2>1 DEF TypeOK, ViewTypes
    <3>5. Flags'
      BY <1>1, <1>2, <1>4, <2>1 DEF TypeOK, Flags
    <3> QED
      BY <3>1, <3>2, <3>3, <3>4, <3>5 DEF TypeOK
  <2>3. Rest'
    BY <1>1, <1>2, <1>6, <2>1
       DEF Rest, FunctionsAreOfChannel, ListIsOfChannel, OneFunctionPerChannel,
           UnreadIsMissed, AnnouncedIsMember, RoomKept, JoinsAreOfChannel, HelloHasHandle, Closures
  <2> QED
    BY <2>2, <2>3 DEF IInv
<1>5. CASE channel = None
  <2>1. UNCHANGED <<announced, subscribed, handlers, stale, excused>>
    BY <1>5 DEF Disconnect, exceptions
  <2>2. TypeOK'
    <3>1. ClientTypes'
      BY <1>1, <1>2, <2>1 DEF TypeOK, ClientTypes
    <3>2. ServerTypes'
      BY <1>1, <1>2, <1>6, <2>1 DEF TypeOK, UserTypes, ServerTypes
    <3>3. UserTypes'
      BY <1>1, <1>2, <2>1 DEF TypeOK, UserTypes
    <3>4. ViewTypes'
      BY <1>1, <1>2, <2>1 DEF TypeOK, ViewTypes
    <3>5. Flags'
      BY <1>1, <1>2, <2>1 DEF TypeOK, Flags
    <3> QED
      BY <3>1, <3>2, <3>3, <3>4, <3>5 DEF TypeOK
  <2>3. Rest'
    BY <1>1, <1>2, <1>5, <1>6, <2>1
       DEF Rest, FunctionsAreOfChannel, ListIsOfChannel, OneFunctionPerChannel,
           UnreadIsMissed, AnnouncedIsMember, RoomKept, JoinsAreOfChannel, HelloHasHandle, Closures
  <2> QED
    BY <2>2, <2>3 DEF IInv
<1> QED
  BY <1>3, <1>4, <1>5

\* What the invariants are about does not change in most steps.
Kept == <<handlers, subscribes, channel, listed, unread, missed, stale>>
LEMMA RestUnchanged ==
  ASSUME IInv, UNCHANGED Kept, hello' = hello, handle => handle',
         joins' \subseteq joins, excused \subseteq excused',
         announced' \subseteq announced \union joins \union {channel} \union excused'
  PROVE  Rest'
<1>1. Rest /\ (handle => handle')
  BY DEF IInv, TypeOK, Flags
<1>2. (FunctionsAreOfChannel /\ ListIsOfChannel /\ OneFunctionPerChannel /\ UnreadIsMissed)'
  BY <1>1 DEF Rest, Kept, FunctionsAreOfChannel, ListIsOfChannel, OneFunctionPerChannel,
         UnreadIsMissed
<1>3. (AnnouncedIsMember /\ JoinsAreOfChannel)'
  BY <1>1 DEF Rest, Kept, AnnouncedIsMember, JoinsAreOfChannel
<1>4. (RoomKept /\ HelloHasHandle)'
  BY <1>1 DEF Rest, Kept, RoomKept, HelloHasHandle, Closures
<1> QED
  BY <1>2, <1>3, <1>4 DEF Rest

LEMMA ChangeUsernameKeeps == ASSUME IInv, NEW name \in Names, ChangeUsername(name) PROVE IInv'
<1>1. /\ username' = name /\ cookieName' = name
      /\ UNCHANGED <<socket, handle, hello, handlers, subscribes, joins>>
      /\ UNCHANGED <<subscribed, inbox, announced, channel, cookieChannel>>
      /\ UNCHANGED <<isOpen, unread, listed, missed, stale, excused, hidden, retry>>
  BY DEF ChangeUsername, clientVars, timerVars, exceptions, serverVars, viewVars
<1>2. TypeOK
  BY DEF IInv
<1>3. TypeOK'
  <2>1. ClientTypes'
    BY <1>1, <1>2 DEF TypeOK, ClientTypes
  <2>2. ServerTypes'
    BY <1>1, <1>2 DEF TypeOK, UserTypes, ServerTypes
  <2>3. UserTypes'
    BY <1>1, <1>2 DEF TypeOK, UserTypes
  <2>4. ViewTypes'
    BY <1>1, <1>2 DEF TypeOK, ViewTypes
  <2>5. Flags'
    BY <1>1, <1>2 DEF TypeOK, Flags
  <2> QED
    BY <2>1, <2>2, <2>3, <2>4, <2>5 DEF TypeOK
<1>4. Rest'
  BY <1>1, RestUnchanged DEF Kept
<1> QED
  BY <1>3, <1>4 DEF IInv

\* What is listed at once is of the channel one has joined.
LEMMA SendMessageKeeps == ASSUME IInv, NEW echo \in BOOLEAN, SendMessage(echo) PROVE IInv'
<1>1. TypeOK /\ Rest /\ channel \in Channels /\ username \in Names
  BY DEF IInv, SendMessage, TypeOK, UserTypes
<1>2. /\ listed' = listed \union {channel}
      /\ UNCHANGED <<socket, handle, hello, handlers, subscribes, joins>>
      /\ UNCHANGED <<subscribed, announced, channel, username, cookieChannel, cookieName>>
      /\ UNCHANGED <<isOpen, unread, missed, stale, excused, hidden, retry>>
  BY DEF SendMessage, clientVars, timerVars, exceptions, userVars
<1>3. inbox' \in Seq(Messages)
  <2>1. [channel |-> channel, kind |-> "text", username |-> username] \in Messages
    BY <1>1, ChatAssumption DEF Messages
  <2>2. inbox \in Seq(Messages)
    BY <1>1 DEF TypeOK, ServerTypes
  <2>3. \/ inbox' = inbox
        \/ inbox' = Append(inbox, [channel |-> channel, kind |-> "text", username |-> username])
    BY DEF SendMessage
  <2> QED
    BY <2>1, <2>2, <2>3
<1>4. TypeOK'
  <2>1. ClientTypes'
    BY <1>1, <1>2, <1>3 DEF TypeOK, ClientTypes
  <2>2. ServerTypes'
    BY <1>1, <1>2, <1>3 DEF TypeOK, UserTypes, ServerTypes
  <2>3. UserTypes'
    BY <1>1, <1>2, <1>3 DEF TypeOK, UserTypes
  <2>4. ViewTypes'
    BY <1>1, <1>2, <1>3 DEF TypeOK, ViewTypes
  <2>5. Flags'
    BY <1>1, <1>2, <1>3 DEF TypeOK, Flags
  <2> QED
    BY <2>1, <2>2, <2>3, <2>4, <2>5 DEF TypeOK
<1>5. Rest'
  BY <1>1, <1>2
     DEF Rest, FunctionsAreOfChannel, ListIsOfChannel, OneFunctionPerChannel,
        UnreadIsMissed, AnnouncedIsMember, RoomKept, JoinsAreOfChannel, HelloHasHandle, Closures
<1> QED
  BY <1>4, <1>5 DEF IInv

\* A page that comes back has one function waiting, for the channel of its cookie.
LEMMA ReloadKeeps == ASSUME IInv, Reload PROVE IInv'
<1> USE Bounds
<1>1. /\ {cookieChannel', channel'} \subseteq Channels \union {None} /\ hello' = channel'
      /\ {cookieName', username'} \subseteq Names \union {None}
  BY DEF IInv, TypeOK, UserTypes, Reload
<1>2. /\ isOpen' = FALSE /\ unread' = 0 /\ missed' = 0 /\ listed' = {}
      /\ handlers' = NoHandlers /\ joins' = {}
      /\ subscribed' = {} /\ inbox' = <<>> /\ announced' = {} /\ stale' = {} /\ excused' = {}
      /\ subscribes' = [c \in Channels |-> IF c = channel' THEN 1 ELSE 0]
      /\ retry' = FALSE /\ hidden' = hidden
  BY DEF Reload
<1>3. handle' \in BOOLEAN /\ (hello' # None => handle')
  BY DEF Reload
<1>4. socket' \in {"none", "connecting", "open", "closed"}
  BY DEF Reload
<1>5. handlers' \in [Channels -> 0..MaxJoins] /\ subscribes' \in [Channels -> 0..MaxJoins]
  BY <1>2 DEF NoHandlers
<1>6. inbox' \in Seq(Messages)
  BY <1>2
<1>7. ASSUME NEW c \in Channels
      PROVE  handlers'[c] = 0 /\ subscribes'[c] \in {0, 1} /\ (subscribes'[c] = 1 <=> c = channel')
  BY <1>2, <1>7 DEF NoHandlers
<1>8. TypeOK'
  <2>1. ClientTypes'
    BY <1>1, <1>2, <1>3, <1>4, <1>5, <1>6 DEF TypeOK, ClientTypes
  <2>2. ServerTypes'
    BY <1>1, <1>2, <1>3, <1>4, <1>5, <1>6 DEF TypeOK, UserTypes, ServerTypes
  <2>3. UserTypes'
    BY <1>1, <1>2, <1>3, <1>4, <1>5, <1>6 DEF TypeOK, UserTypes
  <2>4. ViewTypes'
    BY <1>1, <1>2, <1>3, <1>4, <1>5, <1>6 DEF TypeOK, ViewTypes
  <2>5. Flags'
    <3>1. handle' \in BOOLEAN /\ isOpen' \in BOOLEAN
      BY <1>2, <1>3
    <3>2. hidden' \in BOOLEAN /\ retry' \in BOOLEAN
      BY <1>2 DEF IInv, TypeOK, Flags
    <3> QED
      BY <3>1, <3>2 DEF Flags
  <2> QED
    BY <2>1, <2>2, <2>3, <2>4, <2>5 DEF TypeOK
<1>9. (FunctionsAreOfChannel /\ OneFunctionPerChannel /\ RoomKept)'
  BY <1>7 DEF FunctionsAreOfChannel, OneFunctionPerChannel, RoomKept, Closures
<1>10. (ListIsOfChannel /\ UnreadIsMissed /\ AnnouncedIsMember /\ JoinsAreOfChannel)'
  BY <1>2 DEF ListIsOfChannel, UnreadIsMissed, AnnouncedIsMember, JoinsAreOfChannel
<1>11. HelloHasHandle'
  BY <1>3 DEF HelloHasHandle
<1> QED
  BY <1>8, <1>9, <1>10, <1>11 DEF IInv, Rest

----------------------------------------------------------------------------
(* The socket, what waits for it, and messages.                               *)

\* The socket comes and goes; what the server knows of it changes with it.
LEMMA SocketKeeps ==
  ASSUME IInv, PageConnects \/ Opens \/ Fails \/ Reconnects \/ VisibilityChange
  PROVE  IInv'
<1>1. TypeOK
  BY DEF IInv
<1>2. /\ socket' \in {"none", "connecting", "open", "closed"}
      /\ handle' \in {handle, TRUE}
      /\ subscribed' \subseteq Channels
      /\ inbox' \in {inbox, <<>>}
      /\ UNCHANGED <<hello, handlers, subscribes, joins, announced, stale, excused>>
      /\ {hidden', retry'} \subseteq BOOLEAN
      /\ UNCHANGED <<channel, username, cookieChannel, cookieName>>
      /\ UNCHANGED <<isOpen, unread, listed, missed>>
  <2> USE <1>1 DEF TypeOK, ServerTypes, Flags, serverVars, timerVars, exceptions, userVars, viewVars
  <2>1. CASE PageConnects
    BY <2>1 DEF PageConnects
  <2>2. CASE Opens
    BY <2>2 DEF Opens
  <2>3. CASE Fails
    BY <2>3 DEF Fails
  <2>4. CASE Reconnects
    BY <2>4 DEF Reconnects, ClientTypes
  <2>5. CASE VisibilityChange
    BY <2>5 DEF VisibilityChange, ClientTypes
  <2> QED
    BY <2>1, <2>2, <2>3, <2>4, <2>5
<1>3. inbox' \in Seq(Messages)
  <2>1. inbox \in Seq(Messages) /\ <<>> \in Seq(Messages)
    BY <1>1 DEF TypeOK, ServerTypes
  <2> QED
    BY <1>2, <2>1
<1>4. TypeOK'
  <2>1. ClientTypes'
    BY <1>1, <1>2, <1>3 DEF TypeOK, ClientTypes
  <2>2. ServerTypes'
    BY <1>1, <1>2, <1>3 DEF TypeOK, UserTypes, ServerTypes
  <2>3. UserTypes'
    BY <1>1, <1>2, <1>3 DEF TypeOK, UserTypes
  <2>4. ViewTypes'
    BY <1>1, <1>2, <1>3 DEF TypeOK, ViewTypes
  <2>5. Flags'
    BY <1>1, <1>2, <1>3 DEF TypeOK, Flags
  <2> QED
    BY <2>1, <2>2, <2>3, <2>4, <2>5 DEF TypeOK
<1>5. handle => handle'
  BY <1>1, <1>2 DEF TypeOK, Flags
<1>6. Rest'
  BY <1>2, <1>5, RestUnchanged DEF Kept
<1> QED
  BY <1>4, <1>6 DEF IInv

\* A function that waited is subscribed: there are as many as before.
LEMMA PollSubscribeKeeps == ASSUME IInv, NEW c \in Channels, PollSubscribe(c) PROVE IInv'
<1> USE Bounds
<1>1. TypeOK /\ Rest
  BY DEF IInv
<1>2. /\ handlers \in [Channels -> 0..MaxJoins] /\ subscribes \in [Channels -> 0..MaxJoins]
      /\ subscribes[c] > 0 /\ handlers[c] + subscribes[c] <= MaxJoins
      /\ subscribes' = [subscribes EXCEPT ![c] = @ - 1]
      /\ handlers' = [handlers EXCEPT ![c] = @ + 1]
  BY <1>1 DEF PollSubscribe, TypeOK, ClientTypes, Rest, RoomKept, Closures
<1>3. handlers' \in [Channels -> 0..MaxJoins] /\ subscribes' \in [Channels -> 0..MaxJoins]
  <2>1. handlers[c] + 1 \in 0..MaxJoins /\ subscribes[c] - 1 \in 0..MaxJoins
    BY <1>2
  <2> QED
    BY <1>2, <2>1
<1>4. \A d \in Channels : handlers'[d] + subscribes'[d] = handlers[d] + subscribes[d]
  BY <1>2
<1>5. /\ subscribed' \subseteq subscribed \union {c}
      /\ UNCHANGED <<socket, handle, hello, joins, inbox, announced, stale, excused>>
      /\ UNCHANGED <<hidden, retry>>
      /\ UNCHANGED <<channel, username, cookieChannel, cookieName>>
      /\ UNCHANGED <<isOpen, unread, listed, missed>>
  BY DEF PollSubscribe, timerVars, exceptions, userVars, viewVars
<1>6. TypeOK'
  <2>1. ClientTypes'
    BY <1>1, <1>3, <1>5 DEF TypeOK, ClientTypes
  <2>2. ServerTypes'
    BY <1>1, <1>3, <1>5 DEF TypeOK, UserTypes, ServerTypes
  <2>3. UserTypes'
    BY <1>1, <1>3, <1>5 DEF TypeOK, UserTypes
  <2>4. ViewTypes'
    BY <1>1, <1>3, <1>5 DEF TypeOK, ViewTypes
  <2>5. Flags'
    BY <1>1, <1>3, <1>5 DEF TypeOK, Flags
  <2> QED
    BY <2>1, <2>2, <2>3, <2>4, <2>5 DEF TypeOK
<1>7. (FunctionsAreOfChannel /\ OneFunctionPerChannel /\ RoomKept)'
  BY <1>1, <1>4, <1>5
     DEF Rest, FunctionsAreOfChannel, OneFunctionPerChannel, RoomKept, Closures
<1>8. (ListIsOfChannel /\ UnreadIsMissed /\ AnnouncedIsMember /\ JoinsAreOfChannel /\ HelloHasHandle)'
  BY <1>1, <1>5
     DEF Rest, ListIsOfChannel, UnreadIsMissed, AnnouncedIsMember, JoinsAreOfChannel, HelloHasHandle
<1> QED
  BY <1>6, <1>7, <1>8 DEF IInv, Rest

\* A <JOIN> that waited is sent, as is the one of the function given to connect;
\* neither adds a channel that is not accounted for.
LEMMA JoinKeeps ==
  ASSUME IInv, MessageToHandle \/ \E c \in Channels : PollJoin(c)
  PROVE  IInv'
<1>1. TypeOK
  BY DEF IInv
<1>2. /\ joins' \subseteq joins
      /\ announced' \subseteq announced \union joins \union {channel} \union excused'
      /\ announced' \subseteq Channels /\ excused' \subseteq Channels /\ excused \subseteq excused'
      /\ UNCHANGED <<socket, handle, hello, handlers, subscribes, subscribed, inbox, stale>>
      /\ UNCHANGED <<channel, username, cookieChannel, cookieName>>
      /\ UNCHANGED <<isOpen, unread, listed, missed, hidden, retry>>
  <2> USE <1>1 DEF TypeOK, ServerTypes, ClientTypes, timerVars, exceptions, userVars, viewVars
  <2>1. CASE MessageToHandle
    BY <2>1 DEF MessageToHandle, SendJoin
  <2>2. ASSUME NEW c \in Channels, PollJoin(c)
        PROVE  /\ joins' \subseteq joins
               /\ announced' \subseteq announced \union joins \union {channel} \union excused'
               /\ announced' \subseteq Channels /\ excused' \subseteq Channels /\ excused \subseteq excused'
               /\ UNCHANGED <<socket, handle, hello, handlers, subscribes, subscribed, inbox, stale>>
               /\ UNCHANGED <<channel, username, cookieChannel, cookieName>>
               /\ UNCHANGED <<isOpen, unread, listed, missed, hidden, retry>>
    BY <2>2 DEF PollJoin
  <2> QED
    BY <2>1, <2>2
<1>3. TypeOK'
  <2>1. ClientTypes'
    BY <1>1, <1>2 DEF TypeOK, ClientTypes
  <2>2. ServerTypes'
    BY <1>1, <1>2 DEF TypeOK, UserTypes, ServerTypes
  <2>3. UserTypes'
    BY <1>1, <1>2 DEF TypeOK, UserTypes
  <2>4. ViewTypes'
    BY <1>1, <1>2 DEF TypeOK, ViewTypes
  <2>5. Flags'
    BY <1>1, <1>2 DEF TypeOK, Flags
  <2> QED
    BY <2>1, <2>2, <2>3, <2>4, <2>5 DEF TypeOK
<1>4. Rest'
  BY <1>2, RestUnchanged DEF Kept
<1> QED
  BY <1>3, <1>4 DEF IInv

LEMMA OthersSendKeeps == ASSUME IInv, NEW m \in Messages, OthersSend(m) PROVE IInv'
<1>1. TypeOK
  BY DEF IInv
<1>2. /\ inbox' = Append(inbox, m)
      /\ UNCHANGED <<socket, handle, hello, handlers, subscribes, joins>>
      /\ UNCHANGED <<subscribed, announced, channel, username, cookieChannel, cookieName>>
      /\ UNCHANGED <<isOpen, unread, listed, missed, stale, excused, hidden, retry>>
  BY DEF OthersSend, clientVars, timerVars, exceptions, userVars, viewVars
<1>3. inbox' \in Seq(Messages)
  <2>1. inbox \in Seq(Messages)
    BY <1>1 DEF TypeOK, ServerTypes
  <2> QED
    BY <1>2, <2>1
<1>4. TypeOK'
  <2>1. ClientTypes'
    BY <1>1, <1>2, <1>3 DEF TypeOK, ClientTypes
  <2>2. ServerTypes'
    BY <1>1, <1>2, <1>3 DEF TypeOK, UserTypes, ServerTypes
  <2>3. UserTypes'
    BY <1>1, <1>2, <1>3 DEF TypeOK, UserTypes
  <2>4. ViewTypes'
    BY <1>1, <1>2, <1>3 DEF TypeOK, ViewTypes
  <2>5. Flags'
    BY <1>1, <1>2, <1>3 DEF TypeOK, Flags
  <2> QED
    BY <2>1, <2>2, <2>3, <2>4, <2>5 DEF TypeOK
<1>5. Rest'
  BY <1>2, RestUnchanged DEF Kept
<1> QED
  BY <1>4, <1>5 DEF IInv

\* A message counts if it has a function, and then it is of the channel joined,
\* which has one: badge and history grow alike.
LEMMA ReceiveKeeps == ASSUME IInv, Receive PROVE IInv'
<1> USE Bounds
<1>1. TypeOK /\ Rest
  BY DEF IInv
<1>2. PICK m \in Messages :
        /\ Counts(m) => missed < MaxUnread /\ unread < MaxUnread
        /\ listed' = IF Foreign(m) /\ handlers[m.channel] > 0
                     THEN listed \union {m.channel} ELSE listed
        /\ unread' = IF Counts(m) THEN unread + handlers[m.channel] ELSE unread
        /\ missed' = IF Counts(m) /\ m.channel = channel /\ handlers[m.channel] > 0
                     THEN missed + 1 ELSE missed
  <2>1. inbox \in Seq(Messages) /\ inbox # <<>>
    BY <1>1 DEF Receive, TypeOK, ServerTypes
  <2>2. Head(inbox) \in Messages
    BY <2>1
  <2> QED
    BY <2>2 DEF Receive
<1>3. /\ UNCHANGED <<socket, handle, hello, handlers, subscribes, joins>>
      /\ UNCHANGED <<subscribed, announced, channel, username, cookieChannel, cookieName>>
      /\ UNCHANGED <<isOpen, stale, excused, hidden, retry>>
  BY DEF Receive, clientVars, timerVars, exceptions, userVars
<1>4. inbox' \in Seq(Messages)
  <2>1. inbox \in Seq(Messages) /\ inbox # <<>> /\ inbox' = Tail(inbox)
    BY <1>1 DEF Receive, TypeOK, ServerTypes
  <2> QED
    BY <2>1
<1>5. m.channel \in Channels
  BY DEF Messages
<1>6. /\ handlers[m.channel] \in 0..MaxJoins /\ subscribes[m.channel] \in 0..MaxJoins
      /\ unread \in 0..(MaxUnread + MaxJoins) /\ missed \in 0..MaxUnread
      /\ listed \subseteq Channels
  BY <1>1, <1>5 DEF TypeOK, ClientTypes, ViewTypes
<1>7. /\ unread' \in 0..(MaxUnread + MaxJoins) /\ missed' \in 0..MaxUnread
      /\ listed' \subseteq Channels
  <2>1. CASE Counts(m)
    BY <1>2, <1>5, <1>6, <2>1
  <2>2. CASE ~Counts(m)
    BY <1>2, <1>5, <1>6, <2>2
  <2> QED
    BY <2>1, <2>2
<1>8. TypeOK'
  <2>1. ClientTypes'
    BY <1>1, <1>3, <1>4, <1>7 DEF TypeOK, ClientTypes
  <2>2. ServerTypes'
    BY <1>1, <1>3, <1>4, <1>7 DEF TypeOK, UserTypes, ServerTypes
  <2>3. UserTypes'
    BY <1>1, <1>3, <1>4, <1>7 DEF TypeOK, UserTypes
  <2>4. ViewTypes'
    BY <1>1, <1>3, <1>4, <1>7 DEF TypeOK, ViewTypes
  <2>5. Flags'
    BY <1>1, <1>3, <1>4, <1>7 DEF TypeOK, Flags
  <2> QED
    BY <2>1, <2>2, <2>3, <2>4, <2>5 DEF TypeOK
<1>9. handlers[m.channel] > 0 => m.channel \in {channel} \union stale
  BY <1>1, <1>5, <1>6 DEF Rest, FunctionsAreOfChannel
<1>10. ListIsOfChannel'
  BY <1>1, <1>2, <1>3, <1>9 DEF Rest, ListIsOfChannel
<1>11. UnreadIsMissed'
  <2> SUFFICES ASSUME stale = {} PROVE unread' = missed'
    BY <1>3 DEF UnreadIsMissed
  <2>1. unread = missed
    BY <1>1 DEF Rest, UnreadIsMissed
  <2>2. handlers[m.channel] \in {0, 1} /\ (handlers[m.channel] > 0 => m.channel = channel)
    BY <1>1, <1>5, <1>6, <1>9 DEF Rest, OneFunctionPerChannel
  <2> QED
    BY <1>2, <1>6, <2>1, <2>2
<1>12. (FunctionsAreOfChannel /\ OneFunctionPerChannel /\ RoomKept)'
  BY <1>1, <1>3 DEF Rest, FunctionsAreOfChannel, OneFunctionPerChannel, RoomKept, Closures
<1>13. (AnnouncedIsMember /\ JoinsAreOfChannel /\ HelloHasHandle)'
  BY <1>1, <1>3 DEF Rest, AnnouncedIsMember, JoinsAreOfChannel, HelloHasHandle
<1> QED
  BY <1>8, <1>10, <1>11, <1>12, <1>13 DEF IInv, Rest

LEMMA StutterKeeps == ASSUME IInv, UNCHANGED vars PROVE IInv'
<1>1. TypeOK
  BY DEF IInv
<1>2. /\ UNCHANGED <<socket, handle, hello, handlers, subscribes, joins, inbox>>
      /\ UNCHANGED <<subscribed, announced, channel, username, cookieChannel, cookieName>>
      /\ UNCHANGED <<isOpen, unread, listed, missed, stale, excused, hidden, retry>>
  BY DEF vars, clientVars, timerVars, exceptions, serverVars, userVars, viewVars
<1>3. TypeOK'
  <2>1. ClientTypes'
    BY <1>1, <1>2 DEF TypeOK, ClientTypes
  <2>2. ServerTypes'
    BY <1>1, <1>2 DEF TypeOK, UserTypes, ServerTypes
  <2>3. UserTypes'
    BY <1>1, <1>2 DEF TypeOK, UserTypes
  <2>4. ViewTypes'
    BY <1>1, <1>2 DEF TypeOK, ViewTypes
  <2>5. Flags'
    BY <1>1, <1>2 DEF TypeOK, Flags
  <2> QED
    BY <2>1, <2>2, <2>3, <2>4, <2>5 DEF TypeOK
<1>4. Rest'
  BY <1>2, RestUnchanged DEF Kept
<1> QED
  BY <1>3, <1>4 DEF IInv

----------------------------------------------------------------------------
LEMMA Inductive == Spec => []IInv
<1>1. IInv /\ [Next]_vars => IInv'
  BY OpenChatKeeps, DisconnectKeeps, ChangeUsernameKeeps, SendMessageKeeps, ReloadKeeps,
     SocketKeeps, PollSubscribeKeeps, JoinKeeps, OthersSendKeeps, ReceiveKeeps, StutterKeeps
     DEF Next
<1> QED
  BY <1>1, Initially, PTL DEF Spec

\* Every variable keeps its type, for any channels, names and bounds.
THEOREM TypeCorrect == Spec => []TypeOK
  BY Inductive, PTL DEF IInv

\* After disconnect nothing of the channel is heard or shown again, unless the socket
\* was down or a subscribe for it was waiting.
THEOREM LeftStaysLeft == Spec => []LeftIsLeft
  BY Inductive, PTL DEF IInv, Rest, LeftIsLeft

\* A channel has one function at most, and unreadCount is the number of messages
\* missed, as long as no channel was left while the socket was down or a subscribe
\* for it was waiting: such a channel may have two.
THEOREM MessagesCountOnce == Spec => []CountedOnce
  BY Inductive, PTL DEF IInv, Rest, CountedOnce

\* Whom the others last saw <JOIN> is in the channel, or has left it without being
\* able to say <LEAVE>, while a <JOIN> was waiting, or before a message to the handle
\* made the function given to connect announce it again.
THEOREM AnnouncedAreMembers == Spec => []AnnouncedIsMember
  BY Inductive, PTL DEF IInv, Rest
=============================================================================
