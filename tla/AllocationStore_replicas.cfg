CONSTANTS
  k1 = k1
  k2 = k2
  a1 = a1
  a2 = a2
  r1 = r1
  r2 = r2
  h1 = h1
  h2 = h2
  NoKey = NoKey
  NoAddr = NoAddr
  Keys = {k1, k2}
  Addrs = {a1, a2}
  Pool <- PoolShared
  Legacy <- LegacyOne
  Replicas = {r1, r2}
  Handlers = {h1, h2}
  Home <- TwoProcesses
  Skew <- SkewNone
  Lease = 3
  Debounce = 1
  DefaultLease = 3
  MaxDelay = 0
  Faults = {"crash"}
  MaxClock = 4


SYMMETRY ProcessSymmetry
SPECIFICATION Spec
INVARIANTS AnswersAgree Reserved Coherent
