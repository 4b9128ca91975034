CONSTANTS
  Names <- MCNames
  XdsNames <- MCXdsNames
  xdsName <- MCxdsName
  Revs = {0, 1, 2}
  Configs <- MCConfigs
  Unbuildable <- MCUnbuildable
  Truncated <- MCTruncated
  Invalid = Invalid
  Absent = Absent
  Nil = Nil
  InitFiles <- StartGood
  Edits <- ReplaceRds
  MaxEdits = 1
  MaxHups = 1
  MaxEvents = 4
SPECIFICATION FairSpec
PROPERTY WatchedEditsReachCache
CHECK_DEADLOCK FALSE
