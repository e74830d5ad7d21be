SPECIFICATION RemoteSpec
CONSTANTS
  short = short
  fits = fits
  long = long
  cls = cls
  x = x
  y = y
  z = z
  sep = sep
  Texts <- MCTexts
  Tokens <- MCTokens
  Chars <- MCChars
  TokensOf <- MCTokensOf
  MaxInputTokens = 4
  Dimensions = 1
  Widths <- MCWidths
  Limits <- MCLimits
  MaxTexts = 3
  None = None
  NotAnInteger = NotAnInteger
  Loaders = {l1, l2}
  RemoteKeys = {"k1", "k2"}
  TaskOf <- MCTask
  BreakerIds = {b1, b2, b3, b4, b5}
  Ttl = 4
  Interval = 1
  LoadLimit = 1
  Nobody = Nobody
  Prompts <- MCPrompts
  Documents <- MCDocuments
  MaxBatch = 3
  Absent = Absent
  Nothing = Nothing
  Pages = 2
  Budgets <- SmallBudgets
INVARIANTS
  OneVectorEach
  InputsAreBounded
  NoLengthRejection
  RejectionsAreFinal
  OneBreakerPerKey
  PromptIsWhole
  VectorsStayAligned
  BudgetKept
  CeilingHolds
  TrailExplains
  VlmIsVerified
CHECK_DEADLOCK FALSE
