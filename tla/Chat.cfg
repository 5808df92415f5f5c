\* Two channels to join, leave and join again, and somebody of another name.
CONSTANTS
  Channels = {ch, dh}
  Names = {ann}
  Users = {ann, bob}
  None = None
  MaxJoins = 2
  MaxInbox = 1
  MaxUnread = 1
SPECIFICATION FairSpec
INVARIANTS
  TypeOK
  LeftIsLeft
  CountedOnce
  AnnouncedIsMember
PROPERTIES
  JoinedIsSubscribed
