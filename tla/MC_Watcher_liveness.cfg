CONSTANTS
  n1 = n1
  n2 = n2
  Names <- MCNames
  MaxRV = 3
  Provisioner = "hostpath"
SPECIFICATION FairSpec
PROPERTIES
  OrphanVolumeReclaimed
