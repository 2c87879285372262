SPECIFICATION GeoSpec
CONSTANTS
  Paths <- Spellings
  Watched <- Spellings
  Keys = {"edition.mmdb"}
  KeyOf <- MCKeyOf
  Known = {"edition.mmdb"}
  Database = "edition.mmdb"
  Lower = "edition.mmdb"
  ListsAfter <- MCOrder
  Contents <- MCContents
  Valid <- MCValid
  Foreign = foreign
  damaged = damaged
  Absent = absent
  NoTimer = notimer
  NoDB = nodb
  Documented <- MCDocumented
  Sells <- MCSells
  Credentialed = {"maxmind", "ip2location"}
  LastVersion = 2
  MaxMishaps = 2
  MaxChanges = 1
  QuietStart = TRUE
  RecreateRace = FALSE
INVARIANTS
  GeoTypeOK
  NoLostChange
PROPERTIES
  NeverOlder
  FinallyCurrent
  Converges
CHECK_DEADLOCK FALSE
