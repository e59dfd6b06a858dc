CONSTANTS
  Names = {n1, n2, n3}
  Policies <- Descending
  Top = 5
  Handlers = {"h1"}
  Faults = {}
SPECIFICATION Spec
PROPERTIES NeverReused
