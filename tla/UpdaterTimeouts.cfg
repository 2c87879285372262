SPECIFICATION Spec
CONSTANTS
  u1 = u1
  u2 = u2
  city = city
  asn = asn
  Damaged = damaged
  Never = never
  Gone = gone
  NoFile = nofile
  NoJob = nojob
  Updaters = {u1, u2}
  Files = {city}
  VendorOf <- OneIP2Location
  Credentialed = {"maxmind", "ip2location"}
  Frequency = 2
  Timeout <- ShorterTimeout
  Month = 2
  LastVersion = 2
  MaxTime = 3
  PublishAnytime = {}
  BadPayloads = {}
PROPERTY
  LiveTempsKept
CHECK_DEADLOCK FALSE
