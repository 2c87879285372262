SPECIFICATION Spec
CONSTANTS
  city = city
  asn = asn
  v1 = v1
  v2 = v2
  bad = bad
  Databases = {city, asn}
  Versions = {v1, v2, bad}
  Undecodable = {bad}
  Readers = {r1}
  NoDB = nodb
  Decoded <- MCDecoded
  Depth <- MCDepth
  RecordOf <- MCRecordOf
  Fields <- FlatRecords
  Keys <- MCKeys
  Conditions <- MCConditions
  NoMap = nomap
  NotRead = notread
  Unknown = unknown
  NoMatch = nomatch
  MaxChanges = 2
INVARIANTS
  TypeOK
  OneInstant
  VerdictOfOneInstant
  MatchedAsShown
  ShownAsStored
PROPERTY
  PlaceholdersStay
