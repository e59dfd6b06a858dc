CONSTANTS
  k1 = k1
  k2 = k2
  a1 = a1
  a2 = a2
  r1 = r1
  r2 = r2
  h1 = h1
  h2 = h2
  NoKey = NoKey
  NoAddr = NoAddr
  Keys = {k1, k2}
  Addrs = {a1, a2}
  Pool <- PoolShared
  Legacy <- LegacyNone
  Replicas = {r1}
  Handlers = {h1, h2}
  Home <- OneProcess
  Skew <- SkewNone
  Lease = 2
  Debounce = 1
  DefaultLease = 2
  MaxDelay = 0
  Faults = {"db"}
  MaxClock = 3
SPECIFICATION FairSpec
INVARIANTS TypeOK CacheInverse AnswersInRange ExhaustedOnlyWhenFull
PROPERTIES ImplementsLeaseTable RequestsReturn
