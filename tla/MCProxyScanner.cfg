CONSTANTS
  Ips = {"a", "b", "c"}
  Lines <- MCLines
  Domains <- MCDomains
  Providers = {"OVH"}
  Isp <- MCIsp
  Codes = {"DE", "US", "wide"}
  Clip <- MCClip
  Scores = {10}
  Window = 2
  Permits = 1
  RiskHosts = 2
SPECIFICATION ProxySpec
CHECK_DEADLOCK FALSE
INVARIANTS EachCountedOnce RiskIsRationed PublishedIsWhole
PROPERTY ProxyScanEnds
