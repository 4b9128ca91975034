CONSTANTS
  Names <- MCNames
  XdsNames <- MCXdsNames
  xdsName <- MCxdsName
  Revs = {0, 1, 2}
  Configs <- MCConfigs
  Unbuildable <- MCUnbuildable
  Truncated <- MCTruncated
  Invalid = Invalid
  Absent = Absent
  Nil = Nil
  InitFiles <- StartGood
  Edits <- RdsEdits
  MaxEdits = 2
  MaxHups = 1
  MaxEvents = 2
SPECIFICATION FairSpec
PROPERTY HupRepairs
CHECK_DEADLOCK FALSE
