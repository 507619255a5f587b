CONSTANTS
  h1 = h1
  h2 = h2
  pa = pa
  pb = pb
  pr = pr
  pq = pq
  ra = ra
  rx = rx
  rb = rb
  rn = rn
  s1 = s1
  s2 = s2
  web = web
  ip1 = ip1
  ip2 = ip2
  like = like
  cidr = cidr
  Hosts <- MCHosts
  DnsHosts <- MCDnsHosts
  Paths <- MCPaths
  Regexps <- MCRegexps
  Svcs <- MCSvcs
  Items <- MCItems
  IpLike <- MCIpLike
  Addresses <- MCAddresses
  Networks <- MCNetworks
  Requests <- MCRequests
  Prefixed <- MCPrefixed
  Matched <- MCMatched
  Length <- MCLength
  Numbers <- MCNumbers
  Names <- MCNames
  Unnamed = Unnamed
  None = None
  Objects <- MCObjects
  Clusters <- MCClusters
SPECIFICATION Spec
INVARIANT PortExposed
CHECK_DEADLOCK FALSE
