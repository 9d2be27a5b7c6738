SPECIFICATION IndexSpec
CONSTANTS
  p1 = p1
  p2 = p2
  Proc = {p1, p2}
  File = {f, g}
  Text = {x, y}
  Branch = {m, d}
  Shared = Shared
  Absent = Absent
  None = None
  Worlds <- SoundWorlds
  Events = 3
  c1 = c1
  c2 = c2
  c3 = c3
  s1 = s1
  FoundChunk = {c1, c2, c3}
  FoundSymbol = {s1}
  CodeItem = {c1, c2, s1}
  Named = {c1, s1}
  FoundBranch = {"main", "dev"}
  Default = "default"
  Contents <- MCContents
  Overfetch = 1
  Limit = 1
  Indexings = 3
  Global = FALSE
  Hit = {1, 2, 3, 4}
  FileOf <- MCFileOf
  NameOf <- MCNameOf
  BandOf <- MCBandOf
  Duplicates <- MCDuplicates
  ExactHit = {4}
  RrfK = 2
  MaxScore = 2
  Longest = 3
  Pool = 4
  HeadSize = 3
  ApiHead = 3
SYMMETRY Symmetric
INVARIANTS
  CurrentMeansIndexed
  ArtifactsAgree
  SearchHonest
  RankingKeeps
PROPERTIES
  UncheckedRunIndexes
CHECK_DEADLOCK FALSE
