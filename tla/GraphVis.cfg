\* Three clients, one channel, two filters; two retries, one dot and one timer at a time.
CONSTANTS
  Clients <- MCClients
  Channels <- MCChannels
  SubscriberLists <- MCSubscriberLists
  Short <- MCShort
  Filters <- MCFilters
  ChannelFilter <- MCChannelFilter
  Sources = {e1, e2}
  None = None
  MAX_ACTIVE_DOTS = 1
  MaxRetries = 2
  MaxLater = 1
SPECIFICATION FairSpec
INVARIANTS
  TypeOK
  FeedFollowsPage
  PathsThroughServer
  ScreenShowsFiltered
PROPERTIES
  FeedResumes
