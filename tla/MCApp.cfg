SPECIFICATION Spec
CONSTANTS
  Apps = {a1, a2, a3}
  Databases = {city}
  Settings <- Options4
  NoApp = noapp
  NoDB = nodb
INVARIANTS
  TypeOK
  GoneIsReleased
  ReleasedIsQuiet
  UpdaterWatched
  ServedUntilStopped
  AtMostTwo
PROPERTY
  LoadsEnd
CHECK_DEADLOCK FALSE
