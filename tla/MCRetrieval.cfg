SPECIFICATION RetrievalSpec
CONSTANTS
  Publications = 2
  ReadFaults = 1
  Handles = 4
  Absent = Absent
  SymbolName <- MCSymbolName
  Unresolved = 0
  Graphs <- MCGraphs
  BranchSymbols <- MCBranchSymbols
  Changes <- MCChanges
  Rounds = 50
  PathDepth = 2
  HubThreshold = 2
  FewAffected = 2
  ManyAffected = 3
  Evidence = {1, 2, 3, 4}
  SpanOf <- MCSpanOf
  ScoreOf <- MCScoreOf
  CostOf <- MCCostOf
  Implementation = {1, 3}
  NamedEvidence = {2}
  MinBudget = 3
  MaxBudget = 8
  DefaultBudget = 6
  NoBudget = NoBudget
  q = q
  r = r
  Question = {q, r}
  NoQuestion = NoQuestion
  Passes <- MCPasses
  LongestAnswer = 3
  Limits = {1, 3}
  Budgets = {0, 5, 8, NoBudget}
  Heading = 1
  Defined <- MCDefined
  EndsIn <- MCEndsIn
  Indexes <- MCIndexes
  Target = "s"
  NoHint = "none"
  Unlinked = 0
  EdgeLimit = 1
  Reindexings = 2
INVARIANTS
  LoadedWhole
  NoStaleLoad
  CommunitiesHonest
  ContextHonest
  EditHonest
CHECK_DEADLOCK FALSE
