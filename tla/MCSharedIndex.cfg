SPECIFICATION Spec
CONSTANTS
  Project <- MCProject
  File <- MCFile
  Root <- MCRoot
  Scope <- MCScope
  Version = {1, 2}
  Names <- MCNames
  CallsIn <- MCCalls
  LanguageOf <- MCLanguage
  CaseInsensitive <- MCInsensitive
  Fold <- MCFold
  NoSymbol = NoSymbol
  MaxDepth = 3
  Edits = 2
  Failing = 1
  Worlds <- AllWorlds
INVARIANTS
  GraphClosed
  IndexedWhole
  StrategyHonest
  ShortestPaths
PROPERTIES
  ForeignKept
