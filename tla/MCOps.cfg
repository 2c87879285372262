SPECIFICATION Spec
CONSTANTS
  Databases = {city, asn}
  Versions = {v1, v2}
  Undecodable = {v2}
  Readers = {r1}
  Writers = {w1}
  Closer = caddy
  Nobody = nobody
  None = none
  NoDB = nodb
  MaxLoads = 2
INVARIANT
  TypeOK
PROPERTIES
  WritersReturn
  CloseReturns
  ImplementsRegistry
