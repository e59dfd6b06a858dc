CONSTANTS
  Names = {n1, n2, n3}
  Policies <- Layouts
  Top = 9
  Handlers = {"h1", "h2"}
  Faults = {"crash"}
SYMMETRY NameSymmetry
SPECIFICATION Spec
INVARIANTS TypeOK OneAddressPerName ExhaustedOnlyWhenUsed
PROPERTIES ReusedOnlyIfWrappedOrShared
