CONSTANTS
  N = 4
  Names <- MC_ShortNames
  StoredName <- MC_ShortStoredName
  Handles <- MC_Handles
  NoFile = NoFile
  None = None
  MaxDepth = 3
  RenameDirs = FALSE
  FileParents = FALSE
SPECIFICATION Spec
INVARIANT DataVerifies
