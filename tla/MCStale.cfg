SPECIFICATION Spec
CONSTANTS
  None = None
  i1 = i1
  i2 = i2
  c1 = c1
  c2 = c2
  p1 = p1
  p2 = p2
  o1 = o1
  o2 = o2
  Images <- MCImages
  Configs <- MCConfigs
  Hashes <- MCConfigs
  Digest <- MCDigest
  Pods <- MCPods
  Options <- MCOptions
  UserSpecs <- FollowerEdits
  ExtVersions = {}
  MonitoringInstalled = FALSE
  ScaleTo = {}
  Lagging = {"FollowerStatefulSet", "ConfigMap", "PodDisruptionBudget"}
  MaxInstances = 1
  MaxEdits = 1
  MaxFaults = 0
  Seconds = 1
INVARIANT QuiescentChildren
INVARIANT QuiescentStatus
CHECK_DEADLOCK FALSE
