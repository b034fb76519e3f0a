CONSTANTS
  Writers = {w1, w2}
  Items = {"p", "t"}
  Under <- MCUnder
  BufferCap = 1
  ChannelCap = 1
  RaceGap = 32
  MaxStamp = 3
  MaxLoads = 1
  SyncMixes <- MCSyncMixes
  MaxStarts = 3
  CockpitMixes <- MCCockpitMixes
  PRs = {1, 2}
  MaxReviews = 2
  PullMixes <- MCPullMixes
SPECIFICATION Spec

INVARIANTS TypeOK ExitSavesFinished
PROPERTIES DiskCatchesUp NoSilentGap ClientCatchesUp CreateIsAlone StopReclaims RunningComesUp DoneIsMerged MergedIsDone FeedbackIsHeard ConflictComesBack
CHECK_DEADLOCK FALSE
