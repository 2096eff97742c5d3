SPECIFICATION MCSpec
CONSTANTS
  AgentCounts = {128}
  Limits = {1}
  ThirdOctet = 0
  VcpusPerAgent = 2
  NumaNodes <- MCNumaNodes
  HostCpus = 10
  BindByAgent = TRUE
INVARIANT MacsUnique
