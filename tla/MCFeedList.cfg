SPECIFICATION FeedSpec
CONSTANTS
  tab = tab
  Browser = {tab}
  Cap = 2
  StaleAfter = 1
  Revalidate = 2
INVARIANTS
  ListTrue
