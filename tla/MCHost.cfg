SPECIFICATION HostSpec
CONSTANTS
  u1 = u1
  u2 = u2
  v1 = v1
  v2 = v2
  w1 = w1
  w2 = w2
  Proc = {"p", "q", "r"}
  Foreign = "r"
  TokensPerProc = 2
  Token <- MCTokens
  PidOf <- MCOwner
  HostOf <- LastApart
  MaxAttempts = 2
  CrashSteps <- AnyStep
  Reusable = {"p"}
  None = None
  Legacy = Legacy
  Commit = {1, 2}
  Kinds = {"branch", "remote", "pr"}
  Faults = 3
  NoCommit = NoCommit
  Branches = {"main", "dev"}
  Changed = 3
  Folder <- MCFolder
  SourceFile <- MCFile
  ParentOf <- MCParent
  PathTo <- MCPathTo
  Project = "project"
  Bases = {"notes"}
  Hidden = {"notes"}
  Building = {"build.c"}
  Matched <- MCMatched
  Restricted = {"lib"}
  Excluded = {"x.gen"}
  Included <- MCIncluded
  SizeOf <- MCSizeOf
  MaxFileSize = 2
  MaxDepth = 1
  MaxFilesPerDirectory = 3
  Disks <- MCDisks
  Comings = 2
  Main = "main"
  Linked = {"tree"}
  HostMode = {"codex", "opencode"}
  LegacyMode = "opencode"
  Session = {"main", "tree"}
  RootOf <- MCRootOf
  ModeOf <- MCModeOf
  Name = {"n"}
  HandWritten <- MCHandWritten
  Missing = Missing
  Broken = Broken
  Unset = Unset
  Nothing = Nothing
  Layouts <- MCLayouts
  Edits = 1
  Writes = 1
  s = s
  t = t
  Chunk = {ca, cb}
  Text <- MCText
  MaxId = 3
  Failures = 1
  Absent = Absent
SYMMETRY Exchanged
INVARIANTS
  LeaseExclusive
  LiveLeaseInPlace
  CrashRemembered
  WriterKnowsCrashes
  NothingLeftBehind
  ImpactHonest
  NoChangeLost
  SelectionHonest
  IndexInherited
  StoresSound
  KeywordsExact
PROPERTIES
  LeaseRefined
  EditKeepsRest
CHECK_DEADLOCK FALSE
