SPECIFICATION Spec
CONSTANTS
  u1 = u1
  u2 = u2
  city = city
  asn = asn
  Damaged = damaged
  Never = never
  Gone = gone
  NoFile = nofile
  NoJob = nojob
  Updaters = {u1}
  Files = {city, asn}
  VendorOf <- TwoVendors
  Credentialed = {"maxmind", "ip2location"}
  Frequency = 2
  Timeout <- SameTimeout
  Month = 2
  LastVersion = 2
  MaxTime = 3
  PublishAnytime = {"maxmind"}
  BadPayloads = {"maxmind"}
INVARIANT
  TypeOK
PROPERTIES
  UnchangedIsCurrent
  WrittenAsAsked
  StopReturns
CHECK_DEADLOCK FALSE
