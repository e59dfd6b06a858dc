CONSTANTS
  LDH <- LDHLabels
  Lower <- LowerCase
  Entries <- MCEntries
  Names <- MCNames
  Gateways <- MCGateways
  Ports = {80, 443}
  MaxEntries = 3
SPECIFICATION Spec
INVARIANTS ResourceOverrideWins
