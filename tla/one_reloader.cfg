CONSTANTS
  Names <- MCNames
  XdsNames <- MCXdsNames
  xdsName <- MCxdsName
  Revs = {0, 1, 2}
  Configs <- MCConfigs
  Unbuildable <- MCUnbuildable
  Truncated <- MCTruncated
  Invalid = Invalid
  Absent = Absent
  Nil = Nil
  InitFiles <- StartAny
  Edits <- AllEdits
  MaxEdits = 2
  MaxHups = 0
  MaxEvents = 3
SPECIFICATION FairSpec
INVARIANTS IdleServesTable QuietServesFiles
PROPERTIES ServedNeverRegresses WatchedEditsReachCache
CHECK_DEADLOCK FALSE
