--------------------------- MODULE RouteDiscovery ---------------------------
(***************************************************************************)
(* What loadRds accepts and what rds.create builds: virtual hosts, their   *)
(* routes in the order of the file, the weighted clusters that a route     *)
(* refers to, and the retry policy.  Names of hosts and routes and the     *)
(* timeouts are copied and left out.                                       *)
(***************************************************************************)
EXTENDS Naming, Naturals, SequencesExt

CONSTANTS
  Word,          \* number of values of a Go uint32
  RetryPolicies  \* values of retry-policy; "" when the key is missing

ASSUME RouteAssumption == Word \in Nat \ {0}

(* A matcher of a header stands for its name and value.                    *)
RDSClusterConfig ==
  [prefix : STRING, headers : Seq(STRING),
   target : Seq([name : Names, weight : 0 .. (Word - 1)])]

(* An entry that parses. *)
RDSConfig ==
  [domain : Seq(STRING), cluster : Seq(RDSClusterConfig), retry : RetryPolicies]

VARIABLES
  rdsConfig,   \* the entries of rds.yaml
  routeConfig  \* the RouteConfiguration made of them, or <<>>

rdsVars == <<rdsConfig, routeConfig>>

RdsInit(file) == rdsConfig = file /\ routeConfig = <<>>

-----------------------------------------------------------------------------
(* loadRds: the domains of a host differ, and v.Struct follows the nested  *)
(* Action, whose retry policy must be given, but not the slices, so no tag *)
(* of a target is ever looked at.                                          *)
loadRds(file) == \A v \in ToSet(file) : IsInjective(v.domain) /\ v.retry # ""

retryPolicy(retry) ==
  CASE retry = "retry1" -> [retryOn |-> TRUE, numRetries |-> 1]
    [] retry = "retry5" -> [retryOn |-> TRUE, numRetries |-> 5]
    [] OTHER -> [retryOn |-> FALSE, numRetries |-> 0]

(* Mutant of clusterTotalWeight: the sum is kept in one byte.              *)
clusterTotalWeightByte(targets) ==
  LET weight[n \in 0 .. Len(targets)] ==
        IF n = 0 THEN 0 ELSE (weight[n - 1] + targets[n].weight) % 256
  IN weight[Len(targets)]

(* clusterTotalWeight: a sum of uint32. *)
clusterTotalWeight(targets) ==
  LET weight[n \in 0 .. Len(targets)] ==
        IF n = 0 THEN 0 ELSE (weight[n - 1] + targets[n].weight) % Word
  IN weight[Len(targets)]

(* "ref: cds.clusterConfig". *)
cluster(target) ==
  [name |-> Xds("example_xds_cluster", target.name), weight |-> target.weight]

(* Mutant of clusterHeaders: the headers are left out. *)
clusterHeadersNone(c) == {}

(* All of them must match. *)
clusterHeaders(c) == ToSet(c.headers)

route(c, action) ==
  [prefix |-> c.prefix,
   headers |-> clusterHeaders(c),
   clusters |-> [k \in DOMAIN c.target |-> cluster(c.target[k])],
   totalWeight |-> clusterTotalWeight(c.target),
   retryPolicy |-> retryPolicy(action)]

(* Mutant of virtualRoutes: the routes are prepended. *)
virtualRoutesReversed(list, action) == Reverse([k \in DOMAIN list |-> route(list[k], action)])

virtualRoutes(list, action) == [k \in DOMAIN list |-> route(list[k], action)]

virtualHosts(configs) ==
  [k \in DOMAIN configs |->
     [domains |-> configs[k].domain,
      routes |-> virtualRoutes(configs[k].cluster, configs[k].retry)]]

(* "ref: lds.routeSpecifier". *)
routeConfiguration(configs) ==
  [name |-> "example_xds_route_config", virtualHosts |-> virtualHosts(configs)]

rdsCreate ==
  /\ routeConfig' = routeConfiguration(rdsConfig)
  /\ UNCHANGED rdsConfig

-----------------------------------------------------------------------------
Routes == UNION {ToSet(v.routes) : v \in ToSet(routeConfig.virtualHosts)}

SumOfWeights(list) ==
  LET sum[n \in 0 .. Len(list)] == IF n = 0 THEN 0 ELSE sum[n - 1] + list[n].weight
  IN sum[Len(list)]

(* Weights that the tags of RDSClusterWeightConfig allow. *)
Tagged(list) == \A c \in ToSet(list) : c.weight <= 100

(* Envoy splits the traffic of a route as its weights say only if they add *)
(* up to the total: they do, as long as the weights obey their tags (the   *)
(* sum of clusterTotalWeight has the width of a uint32).                   *)
TotalMatches ==
  routeConfig # <<>> =>
    \A r \in Routes : Tagged(r.clusters) => r.totalWeight = SumOfWeights(r.clusters)
=============================================================================
