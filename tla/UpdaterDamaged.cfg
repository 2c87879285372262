SPECIFICATION Spec
CONSTANTS
  u1 = u1
  u2 = u2
  city = city
  asn = asn
  Damaged = damaged
  Never = never
  Gone = gone
  NoFile = nofile
  NoJob = nojob
  Updaters = {u1}
  Files = {city}
  VendorOf <- OneDBIP
  Credentialed = {"maxmind", "ip2location"}
  Frequency = 2
  Timeout <- SameTimeout
  Month = 2
  LastVersion = 2
  MaxTime = 4
  PublishAnytime = {}
  BadPayloads = {"dbip"}
PROPERTY
  NextCycleRetries
CHECK_DEADLOCK FALSE
