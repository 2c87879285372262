SPECIFICATION Spec
CONSTANTS
  Paths <- Spellings
  Watched <- Spellings
  Keys <- MCKnown
  KeyOf <- SpellingKeyOf
  Known <- MCKnown
  ListsAfter <- SpellingOrder
  Contents = {v1, v2, bad}
  Valid = {v1, v2}
  Absent = absent
  NoTimer = notimer
  NoDB = nodb
  MaxChanges = 1
  QuietStart = TRUE
  RecreateRace = FALSE
PROPERTY
  EventsSettle
CHECK_DEADLOCK FALSE
