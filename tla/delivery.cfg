CONSTANTS
  Names = {"web-api"}
  XdsNames = {"web_api"}
  xdsName <- MCxdsName
  Revs = {1, 2, 3}
  Configs <- MCConfigs
  Unbuildable = {}
  Truncated <- MCTruncated
  Invalid = Invalid
  Absent = Absent
  Nil = Nil
  Subs = {"cds", "rds"}
  Rejected <- MCRejected
  MaxVersion <- MCMaxVersion
  MaxPublish = 3
  MaxFaults = 2
SPECIFICATION FairDSpec
INVARIANTS DTypeOK OpenWatchCurrent StaleOnlyAfterRestart
PROPERTY EnvoyCatchesUp
CHECK_DEADLOCK FALSE
