SPECIFICATION FairSpec
CHECK_DEADLOCK FALSE
CONSTANTS
  zrun = zrun
  plugin = plugin
  None = None
  Fetchers <- MCFetchers
  Content <- MCContent
  Limit = 2
  Attempts <- MCAttempts
INVARIANTS
  TypeOK
  FollowedFaithfully
  PublishedWhole
PROPERTIES
  SlotComesBack
