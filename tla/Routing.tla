------------------------------ MODULE Routing ------------------------------
(***************************************************************************)
(* From a request to instances.  Envoy finds the endpoints of a request by *)
(* following names through resources that four builders made, each for     *)
(* itself, out of four files.  The builders agree on these names only by   *)
(* the comments "ref: ..." in their code.                                  *)
(*                                                                         *)
(* The rules by which the snapshot and Envoy look resources up are theirs, *)
(* seen from how the builders use them.                                    *)
(***************************************************************************)
EXTENDS Builders

CONSTANTS
  Domains,  \* hosts that requests name
  Paths,    \* their paths
  Headers,  \* matchers of headers
  Under     \* Under[p]: the paths with prefix p

Requests == [domain : Domains, path : Paths, headers : SUBSET Headers]

(* The first of the entries that hit, or a default. *)
First(list, hits, default) == IF hits = {} THEN default ELSE list[Min(hits)]

-----------------------------------------------------------------------------
(* The entries of a list that have a name.  The snapshot holds one         *)
(* resource per name: the last one replaces the others                     *)
(* (IndexResourcesByName).                                                 *)
ByName(list, name) == {k \in DOMAIN list : list[k].name = name}

(* The virtual host of the request's domain, and the first of its routes   *)
(* that matches.                                                           *)
RouteOf(q) ==
  LET hosts == routeConfig.virtualHosts
      routes == First(hosts, {k \in DOMAIN hosts : q.domain \in ToSet(hosts[k].domains)},
                      [routes |-> <<>>]).routes
  IN First(routes, {k \in DOMAIN routes : /\ q.path \in Under[routes[k].prefix]
                                          /\ routes[k].headers \subseteq q.headers},
           [clusters |-> <<>>])

(* The instances behind a cluster; none if it or its assignment is missing. *)
InstancesOf(name) ==
  LET cs == ByName(clusters, name)
      as == ByName(assignments, clusters[Max(cs)].service)
  IN IF cs = {} \/ as = {} THEN {}
     ELSE UNION {{e.id : e \in ToSet(g.endpoints)} : g \in ToSet(assignments[Max(as)].endpoints)}

(* Where Envoy takes a request: for each weighted cluster, the weight and  *)
(* the instances.                                                          *)
Destination(q) ==
  IF listener.manager.routeConfigName # routeConfig.name THEN <<>>
  ELSE LET targets == RouteOf(q).clusters
       IN [k \in DOMAIN targets |-> [weight |-> targets[k].weight,
                                     instances |-> InstancesOf(targets[k].name)]]

-----------------------------------------------------------------------------
(* The same, read off the files.  Names that differ in "-" and "_" only    *)
(* are one name, and the last entry of a file with that name counts.       *)
Same(list, n) == {k \in DOMAIN list : xdsName[list[k].name] = xdsName[n]}

WrittenTargets(q) ==
  LET rules == First(rdsConfig, {k \in DOMAIN rdsConfig : q.domain \in ToSet(rdsConfig[k].domain)},
                     [cluster |-> <<>>]).cluster
  IN First(rules, {k \in DOMAIN rules : /\ q.path \in Under[rules[k].prefix]
                                        /\ ToSet(rules[k].headers) \subseteq q.headers},
           [target |-> <<>>]).target

WrittenInstances(n) ==
  LET entries == Same(edsConfig, n)
  IN IF Same(cdsConfig, n) = {} \/ entries = {} THEN {}
     ELSE {ins.id : ins \in ToSet(edsConfig[Max(entries)].instances)}

WrittenDestination(q) ==
  LET targets == WrittenTargets(q)
  IN [k \in DOMAIN targets |-> [weight |-> targets[k].weight,
                                instances |-> WrittenInstances(targets[k].name)]]

(* Envoy takes a route configuration whose hosts share no domain and whose *)
(* weights add up to the totals, which are not 0.                          *)
Acceptable ==
  /\ \A j, k \in DOMAIN rdsConfig :
       j # k => ToSet(rdsConfig[j].domain) \cap ToSet(rdsConfig[k].domain) = {}
  /\ \A r \in Routes : r.totalWeight >= 1 /\ r.totalWeight = SumOfWeights(r.clusters)

(* A request reaches, with the weights of rds.yaml, the instances that     *)
(* eds.yaml gives the clusters of the first rule that matches it, through  *)
(* names that listener, route, cluster and endpoint builders make each for *)
(* itself (xdsName and the "ref:" comments).  A target that cds.yaml or    *)
(* eds.yaml does not have leads nowhere and disturbs no other.             *)
RequestsReachInstances ==
  pc = "done" /\ Acceptable => \A q \in Requests : Destination(q) = WrittenDestination(q)
=============================================================================
