SPECIFICATION LocalSpec
CONSTANTS
  Releases <- MCReleases
  Requests <- MCRequests
  Windows <- MCWindows
  Typings <- MCTypings
  Chains <- MCChains
  CorefMode = "all"
  MaxSubwords = 7
  MarkerBudget = 16
  TextLength = 5
  TurnLength = 2
  MaxWords = 2
  t1 = t1
  t2 = t2
  t3 = t3
  Calls <- MCCalls
  Threads <- MCCalls
  None = None
  Nil = Nil
  Jobs <- MCJobs
  ShardOf <- MCShardOf
  Capacity = 1
  Requested <- MCRequested
  Builds <- MCBuilds
  Values <- MCValues
  Urls = {"http://host"}
  Width = 8
INVARIANTS
  ReadsWereRequested
  MarkersFollowSpeakers
  TextIsMapped
  DecodingIsBest
  CascadeIsGlobal
  MentionsAreGrouped
  AcceptedOptionsLoad
  BuiltOnce
  ProvidersAsAsked
  ForeignChunksAreSkipped
  RowsStayTheirs
  PaddingIsInert
  PagesAreRead
CHECK_DEADLOCK FALSE
