CONSTANTS
  i1 = i1
  i2 = i2
  h1 = h1
  h2 = h2
  h3 = h3
  s1 = s1
  s2 = s2
  o1 = o1
  o2 = o2
  Ings <- MCIngs
  Hosts <- MCHosts
  DnsHosts <- MCDnsHosts
  Secrets <- MCSecrets
  Own <- MCOwn
  Gens <- MCGens
  Specs <- MCSpecs
  Issued <- MCIssued
  Listed <- MCListed
  First <- MCFirst
  None = None
  Empty = Empty
  MaxChanges = 2
  MaxFaults = 1
  SlowTimers = TRUE
SPECIFICATION FairSpec
INVARIANTS TypeOK OwnPair GoodSecretsAccepted FilesServed
PROPERTY Converges
CHECK_DEADLOCK FALSE
