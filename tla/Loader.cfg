CONSTANTS
  Pids = {1, 2, 3}
  MaxTargets = 2
  AddrSpace = 12
  BlockSize = 2
  MaxModules = 5
  Nrs = {0, 1}
  Stacks <- SomeStacks
  None = None
  AnyNr = AnyNr
  Child = 2
  LoaderPid = 1
  Libs = {"la", "lb"}
  LibcNamed = {}
  Layouts <- OneLayout
  LoadBase = 4
  Builds <- Rebuilt
  LibcRules <- Rules1
  SysSites <- Sites
  CfiEntries <- MainCfi
  Configs <- AllConfigs
  SafeNrs = {0, 1}
  MaxDiscovered = 1
  MaxWatched = 3
SPECIFICATION FairSpec
INVARIANTS
  TypeOK
  
  ModulesAgree
  
  
PROPERTIES
  LoaderEnds
  
  
CHECK_DEADLOCK FALSE
