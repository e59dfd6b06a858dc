CONSTANTS
  LDH <- LDHLabels
  Lower <- LowerCase
  Nodes = {"s1"}
  Names <- MCNames
  Policies = {"both", "other"}
  Entries <- MCEntries
  Egresses = {"e1", "e2"}
  Assigned <- MCAssigned
  Ports = {80}
  Flows = {"f1"}
  TTL = 1
  Leases = {1, 2, 3}
  Debounce = 1
  MaxDelay = 1
  Faults = {"identity", "db", "restart"}
SPECIFICATION Spec
INVARIANTS ReachesNameAsked FlowsReauthorized AnswersAreReachable
