CONSTANTS
  NumReplicas = 3
  ClustersPerSb = 2
  VersionMod = 4
  v1 = v1
  v2 = v2
  Vals <- MC_Vals
  FormatVal <- MC_FormatVal
  Blank = Blank
  None = None
  MaxCrashes = 1
SPECIFICATION Spec
PROPERTY CallsUseVerified
