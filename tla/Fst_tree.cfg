CONSTANTS
  N = 4
  Names <- MC_Names
  StoredName <- MC_StoredName
  Handles <- MC_Handles
  NoFile = NoFile
  None = None
  MaxDepth = 3
  RenameDirs = FALSE
  FileParents = FALSE
SPECIFICATION Spec
INVARIANT TypeOK FstIsTree FilesReachable OpenFilesStayLive
PROPERTY FailedCallsChangeNothing
VIEW TreeView
