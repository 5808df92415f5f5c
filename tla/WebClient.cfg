\* A page with one channel, and up to two sockets at a time.
CONSTANTS
  Sockets = {s1, s2}
  Channels = {ch}
  Me = me
  Server = srv
  Default = dflt
  None = none
SPECIFICATION FairSpec
INVARIANTS
  TypeOK
  OneLiveSocket
  NoLostReconnect
  SubscriptionsKept
  FirstFrameIsHandle
PROPERTIES
  ComesBack
