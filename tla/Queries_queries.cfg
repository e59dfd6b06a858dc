CONSTANTS
  InAddr <- InAddrLabel
  Arpa <- ArpaLabel
  MaxLabel = 3
  TagsLabel <- TagsLast
  Options <- LabelOptions
  Messages <- AllMessages
  Inventories <- Tailnets
  Mappings <- SomeMappings
  Outcomes <- ServiceOutcomes
  Synthetic = 9
SPECIFICATION Spec
INVARIANTS ReadsTheGrammar PrivateNamesStayHere PTRNamesAddressAsked TagNamesResolve
