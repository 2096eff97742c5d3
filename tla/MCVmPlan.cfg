SPECIFICATION MCSpec
CONSTANTS
  AgentCounts = {13, 70, 500}
  Limits = {1, 4}
  ThirdOctet = 254
  VcpusPerAgent = 2
  NumaNodes <- MCNumaNodes
  HostCpus = 10
  BindByAgent = TRUE
INVARIANTS ManifestIsWhole PinningIsFair GuestAddressesUnique
