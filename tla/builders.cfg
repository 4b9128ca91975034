CONSTANTS
  Names <- MCNames
  XdsNames <- MCXdsNames
  xdsName <- MCxdsName
  Files <- MCFiles
  Statuses <- MCStatuses
  ParseUint <- MCParseUint
  NotANumber = NotANumber
  LbPolicies = {"round-robin", "least-request", "least-reqest", "random"}
  MaxStatuses = 4
  Regions = {"asia", "europe"}
  Zones = {"a", "b"}
  InstanceWeights = {0, 50}
  MaxInstances = 4
  TargetWeights = {0, 1, 50, 100, 101, 1023}
  Word = 1024
  RetryPolicies = {"", "off", "retry1", "retry5", "retry10"}
  MaxTargets = 3
  Domains = {"api", "www"}
  Paths = {"/v1", "/v2"}
  Headers = {"canary"}
  Under <- MCUnder
SPECIFICATION Spec
INVARIANTS ClusterValid ConfiguredAccepted OthersRejected EndpointsValid GroupsPartition TotalMatches RequestsReachInstances
CHECK_DEADLOCK FALSE
