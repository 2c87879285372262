SPECIFICATION Safety
CONSTANTS
  Databases = {city, asn}
  Versions = {v1}
  Undecodable = {}
  Readers = {r1, r2}
  Writers = {w1, w2}
  Closer = caddy
  Nobody = nobody
  None = none
  NoDB = nodb
  MaxLoads = 2
SYMMETRY OpsSymmetry
INVARIANTS
  NoUseAfterClose
  NoReaderLeak
  NoNilMapWrite
