CONSTANTS
  Slots = 2
  Handlers = {"h1", "h2", "h3"}
  Buffers = {"b1", "b2", "b3"}
  Clients = {"c1", "c2"}
  Questions = {"tagsA", "ordinary"}
  Asked <- TwoClients
  MaxHung = 1
  MaxRequests = 3
SPECIFICATION FairSpec
INVARIANTS TypeOK OwnAnswer HandlersBounded
PROPERTIES ReaderProceeds
CHECK_DEADLOCK FALSE
