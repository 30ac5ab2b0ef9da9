SPECIFICATION FeedFairSpec
CONSTANTS
  tab = tab
  Browser = {tab}
  Cap = 2
  StaleAfter = 1
  Revalidate = 2
INVARIANTS
  FeedContiguous
PROPERTIES
  DroppedShowsStale
  ExpiredSessionsEnd
