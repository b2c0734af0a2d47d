CONSTANTS
  FileIdx <- MC_OneFile
  NumHandles = 1
  NumClusters = 3
  ClusterSize = 2
  MaxFileSize = 3
  Vals = {1}
  WordSize = 8
  ReadCounts <- MC_ReadCounts
  WriteCounts <- MC_WriteCounts
  SeekOffsets <- MC_SeekOffsets
  NoFile = NoFile
  LAST = LAST
  UNUSED = UNUSED
  None = None
SPECIFICATION Spec
INVARIANT WritesSurviveClose
