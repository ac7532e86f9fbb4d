\* Three addresses share two entries: full cache, evictions and expiry.
CONSTANTS
  CacheSize = 2
  Timeout = 2
  Addrs <- MCAddrs
  Macs = {m1, m2}
  NoMac = NoMac
  MaxClock = 7
SPECIFICATION Spec
SYMMETRY Symmetry
INVARIANTS LatestHeard 
\* The clock is bounded.
CHECK_DEADLOCK FALSE
