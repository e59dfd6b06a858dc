CONSTANTS
  LDH <- Labels
  Lower <- LowerId
  Commands <- AllCommands
  NodeAttrs <- MoreAttrs
  DNSConfigs <- Advertised
  ResolvConfs <- ResolvConfOrNone
  Statuses <- Tailnets
  IPs <- Addresses
  MagicDNS <- Magic
  Policies <- FlowPolicies
  Name <- TheName
  Port = 443
  Chunks <- TwoDown
  Window = 1
SPECIFICATION FairSpec
INVARIANTS AcceptedConfigRuns NoSynWithoutReceiver SystemMeansHost  DownloadComplete
PROPERTIES FlowsEnd NothingLeaks
