SPECIFICATION Spec
CONSTANTS
  Paths <- MCPaths
  Watched <- MCPaths
  Keys <- MCPaths
  KeyOf <- MCKeyOf
  Known <- MCKnown
  ListsAfter <- MCOrder
  Contents = {v1, v2, bad}
  Valid = {v1, v2}
  Absent = absent
  NoTimer = notimer
  NoDB = nodb
  MaxChanges = 2
  QuietStart = TRUE
  RecreateRace = FALSE
INVARIANTS
  TypeOK
  NoLostChange
  StaysShut
PROPERTIES
  DropOnlyIfGone
  DrivesRegistry
  Converges
  CloseReleases
  GoroutinesEnd
CHECK_DEADLOCK FALSE
