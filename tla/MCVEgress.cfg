SPECIFICATION Spec
CONSTANTS
  None = None
  i1 = i1
  p1 = p1
  o1 = o1
  Images <- MCImages
  Configs <- MCConfigs
  Hashes <- MCConfigs
  Digest <- MCDigest
  Pods <- MCPods
  Options <- MCOptions
  Names <- MCNames
  UserSpecs <- MCSpecs
  Number <- MCNumber
  Egress <- MCEgress
  MaxTlnDBs = 2
  MaxEdits = 1
CHECK_DEADLOCK FALSE
INVARIANT FollowersReachLeader
