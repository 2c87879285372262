SPECIFICATION Spec
CONSTANTS
  Paths <- MCKnown
  Watched <- MCKnown
  Keys <- MCKnown
  KeyOf <- OneKeyOf
  Known <- MCKnown
  ListsAfter <- OneOrder
  Contents = {v1, v2, bad}
  Valid = {v1, v2}
  Absent = absent
  NoTimer = notimer
  NoDB = nodb
  MaxChanges = 3
  QuietStart = TRUE
  RecreateRace = TRUE
PROPERTY
  Converges
CHECK_DEADLOCK FALSE
