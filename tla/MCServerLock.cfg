SPECIFICATION Spec
CONSTANTS
  s1 = s1
  s2 = s2
  s3 = s3
  Servers <- MCServers
  Skew <- MCSkew
  MaxSkew = 1
  MaxInterval = 3
  FirstTime = 1
  LastTime = 7
INVARIANTS
  LockInv
  GrantsSpaced
  OneHolderPerVersion
