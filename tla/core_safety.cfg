CONSTANTS
  Names <- MCNames
  XdsNames <- MCXdsNames
  xdsName <- MCxdsName
  Revs = {0, 1, 2}
  Configs <- MCConfigs
  Unbuildable <- MCUnbuildable
  Truncated <- MCTruncated
  Invalid = Invalid
  Absent = Absent
  Nil = Nil
  InitFiles <- StartAny
  Edits <- ListEdits
  MaxEdits = 2
  MaxHups = 1
  MaxEvents = 4
SPECIFICATION Spec
INVARIANTS TypeOK ServedConsistent VersionNamesContent NilNeverSnapshotted
PROPERTY ImplementsService
CHECK_DEADLOCK FALSE
