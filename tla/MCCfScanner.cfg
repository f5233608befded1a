CONSTANTS
  W = 4
  LongPrefix = 2
  PriorityRanges <- MCPriority
  BlockedRanges <- MCBlocked
  DefaultIpv6 <- MCDefaultIpv6
  ApiRanges <- MCApi
  PrioritySamples = 2
  Samples = 1
  MinPriority = 2
  OutputCount = 2
  Ipv6Count = 2
  Latencies = {1, 3}
  Timeout = 5
SPECIFICATION CfSpec
CHECK_DEADLOCK FALSE
INVARIANTS BestAreKept OnlyHostsOfRanges
PROPERTY CfScanEnds
