CONSTANTS
  v1 = v1
  v2 = v2
  Versions <- MCVersions
  MaxReplicas = 3
  InstallReplicas = {2}
  MaxPods = 3
  MaxPolls = 2
SPECIFICATION Spec
PROPERTIES
  GateTimesOutOnlyWhenUnhealthy
