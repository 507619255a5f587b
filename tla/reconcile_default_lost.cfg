CONSTANTS
  i1 = i1
  i2 = i2
  f1 = f1
  f2 = f2
  s1 = s1
  s2 = s2
  h1 = h1
  h2 = h2
  Ings <- MCIngs
  FileOf <- MCFileOf
  Svcs <- MCSvcs
  UpstreamOf <- MCOwn
  Hosts <- MCOneHost
  Specs <- MCDefaultSpecs
  Listed <- MCNoneListed
  None = None
  Image = Image
  Blank = Blank
  MaxChanges = 3
  MaxFaults = 0
SPECIFICATION Spec
INVARIANT DefaultServed
CHECK_DEADLOCK FALSE
