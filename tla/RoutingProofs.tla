---------------------------- MODULE RoutingProofs ----------------------------
(***************************************************************************)
(* Proof that requests reach the instances that the files name: Envoy's    *)
(* way through the names of four resources, step by step beside the way    *)
(* through the files.                                                      *)
(***************************************************************************)
EXTENDS BuildersProofs

(* All four resources have been built. *)
Built ==
  /\ cdsConfig \in Seq(CDSConfig) /\ edsConfig \in Seq(EDSConfig) /\ rdsConfig \in Seq(RDSConfig)
  /\ clusters = BuiltClusters
  /\ routeConfig = routeConfiguration(rdsConfig)
  /\ AssignedInv /\ Len(assignments) = Len(edsConfig)
  /\ listener.manager.routeConfigName = routeSpecifier

(* When the builders are done the resources are those of the files.        *)
LEMMA DoneBuilt == ASSUME BuildersInv, pc = "done" PROVE Built
BY DEF Built, BuildersInv, BuiltInv, EInv

(* First is the member at the least index.                                 *)
LEMMA FirstIs ==
  ASSUME NEW list, NEW hits \in SUBSET DOMAIN list, NEW default,
         NEW N \in Nat, DOMAIN list = 1 .. N, hits # {}
  PROVE  Min(hits) \in hits /\ First(list, hits, default) = list[Min(hits)]
<1>1. hits \in SUBSET Nat
  OBVIOUS
<1>2. Min(hits) \in hits
  BY <1>1, MinIs
<1> QED
  BY <1>2 DEF First

-----------------------------------------------------------------------------
(* The targets of a request. *)

Clusters(targets) == [j \in DOMAIN targets |-> cluster(targets[j])]

(* A route matches what its rule matches.                                  *)
LEMMA RouteFields ==
  \A c, action : /\ route(c, action).prefix = c.prefix
                 /\ route(c, action).headers = ToSet(c.headers)
                 /\ route(c, action).clusters = Clusters(c.target)
BY DEF route, clusterHeaders, Clusters

(* The rule that Envoy selects has the targets that the files select.      *)
LEMMA TargetsAre ==
  ASSUME Built, NEW q
  PROVE  /\ RouteOf(q).clusters = Clusters(WrittenTargets(q))
         /\ \A j \in DOMAIN WrittenTargets(q) : WrittenTargets(q)[j].name \in Names
<1> DEFINE hosts == routeConfig.virtualHosts
           hostHits == {k \in DOMAIN hosts : q.domain \in ToSet(hosts[k].domains)}
           routes == First(hosts, hostHits, [routes |-> <<>>]).routes
           routeHits == {k \in DOMAIN routes : /\ q.path \in Under[routes[k].prefix]
                                               /\ routes[k].headers \subseteq q.headers}
           fileHits == {k \in DOMAIN rdsConfig : q.domain \in ToSet(rdsConfig[k].domain)}
           rules == First(rdsConfig, fileHits, [cluster |-> <<>>]).cluster
           ruleHits == {k \in DOMAIN rules : /\ q.path \in Under[rules[k].prefix]
                                             /\ ToSet(rules[k].headers) \subseteq q.headers}
<1>1. /\ RouteOf(q) = First(routes, routeHits, [clusters |-> <<>>])
      /\ WrittenTargets(q) = First(rules, ruleHits, [target |-> <<>>]).target
  BY DEF RouteOf, WrittenTargets
<1>2. /\ hosts = [k \in DOMAIN rdsConfig |->
                    [domains |-> rdsConfig[k].domain,
                     routes |-> virtualRoutes(rdsConfig[k].cluster, rdsConfig[k].retry)]]
      /\ rdsConfig \in Seq(RDSConfig)
  BY DEF Built, routeConfiguration, virtualHosts
<1> HIDE DEF hosts
<1>3. hostHits = fileHits
  BY <1>2
<1>4. /\ rules \in Seq(RDSClusterConfig)
      /\ DOMAIN routes = DOMAIN rules
      /\ \E action : \A n \in DOMAIN rules : routes[n] = route(rules[n], action)
  <2>1. CASE fileHits = {}
    <3>1. routes = <<>> /\ rules = <<>>
      BY <1>3, <2>1 DEF First
    <3> HIDE DEF rules, routes
    <3>2. rules \in Seq(RDSClusterConfig)
      BY <3>1
    <3>3. DOMAIN routes = {} /\ DOMAIN rules = {}
      BY <3>1
    <3> QED
      BY <3>2, <3>3
  <2>2. CASE fileHits # {}
    <3>1. DOMAIN rdsConfig = 1 .. Len(rdsConfig) /\ Len(rdsConfig) \in Nat /\ DOMAIN hosts = DOMAIN rdsConfig
      BY <1>2
    <3>2. fileHits \in SUBSET DOMAIN rdsConfig
      OBVIOUS
    <3> DEFINE k == Min(fileHits)
    <3>3. k \in fileHits /\ rules = rdsConfig[k].cluster
      <4> HIDE DEF fileHits
      <4> QED
        BY <2>2, <3>1, <3>2, FirstIs
    <3>4. routes = hosts[k].routes
      <4> HIDE DEF fileHits, hostHits
      <4> QED
        BY <1>3, <2>2, <3>1, <3>2, FirstIs
    <3> HIDE DEF k
    <3>5. k \in DOMAIN rdsConfig
      BY <3>3
    <3>6. routes = virtualRoutes(rules, rdsConfig[k].retry)
      BY <1>2, <3>3, <3>4, <3>5
    <3>7. rules \in Seq(RDSClusterConfig)
      <4>1. rdsConfig[k] \in RDSConfig
        BY <1>2, <3>5
      <4> HIDE DEF rules
      <4> QED
        BY <3>3, <4>1 DEF RDSConfig
    <3> HIDE DEF rules, routes
    <3>8. DOMAIN routes = DOMAIN rules
      BY <3>6 DEF virtualRoutes
    <3>9. \A n \in DOMAIN rules : routes[n] = route(rules[n], rdsConfig[k].retry)
      BY <3>6 DEF virtualRoutes
    <3> QED
      BY <3>7, <3>8, <3>9 DEF rules, routes
  <2> QED
    BY <2>1, <2>2
<1> HIDE DEF rules, routes
<1>5. PICK action : \A n \in DOMAIN rules : routes[n] = route(rules[n], action)
  BY <1>4
<1>6. routeHits = ruleHits
  <2>1. ASSUME NEW n \in DOMAIN rules
        PROVE  routes[n].prefix = rules[n].prefix /\ routes[n].headers = ToSet(rules[n].headers)
    BY <1>5, RouteFields
  <2> QED
    BY <1>4, <2>1
<1>7. CASE ruleHits = {}
  <2>1. RouteOf(q).clusters = <<>> /\ WrittenTargets(q) = <<>>
    BY <1>1, <1>6, <1>7 DEF First
  <2> QED
    BY <2>1 DEF Clusters
<1>8. CASE ruleHits # {}
  <2>1. DOMAIN rules = 1 .. Len(rules) /\ Len(rules) \in Nat
    BY <1>4
  <2>2. ruleHits \in SUBSET DOMAIN rules
    OBVIOUS
  <2> DEFINE n == Min(ruleHits)
  <2>3. n \in ruleHits /\ WrittenTargets(q) = rules[n].target
    <3> HIDE DEF ruleHits
    <3> QED
      BY <1>1, <1>8, <2>1, <2>2, FirstIs
  <2>4. RouteOf(q) = routes[n]
    <3> HIDE DEF ruleHits, routeHits
    <3> QED
      BY <1>1, <1>4, <1>6, <1>8, <2>1, <2>2, FirstIs
  <2> HIDE DEF n
  <2>5. n \in DOMAIN rules
    BY <2>3
  <2>6. RouteOf(q).clusters = Clusters(rules[n].target)
    BY <1>5, <2>4, <2>5, RouteFields
  <2>7. rules[n] \in RDSClusterConfig
    BY <1>4, <2>5
  <2> DEFINE T == [name : Names, weight : 0 .. (Word - 1)]
             targets == rules[n].target
  <2>8. targets \in Seq(T)
    BY <2>7 DEF RDSClusterConfig
  <2>9. ASSUME NEW j \in DOMAIN targets PROVE targets[j].name \in Names
    <3>1. targets[j] \in T
      <4> HIDE DEF T, targets
      <4> QED
        BY <2>8
    <3> QED
      BY <3>1
  <2> QED
    BY <2>3, <2>6, <2>9
<1> QED
  BY <1>7, <1>8

-----------------------------------------------------------------------------
(* The instances of a target. *)

Ids(list) == {x.id : x \in ToSet(list)}

(* The groups of an entry hold its instances and no others. *)
LEMMA IdsAre ==
  ASSUME NEW e \in EDSConfig, NEW groups \in Seq(Group), Right(e, groups)
  PROVE  UNION {Ids(g.endpoints) : g \in ToSet(groups)} = Ids(e.instances)
<1>1. e.instances \in Seq(EDSInstanceConfig)
  BY DEF EDSConfig
<1>2. CASE e.policy = "normal"
  <2>1. groups[1].endpoints = lbEndpoints(e.instances) /\ Len(groups) = 1
    BY <1>2 DEF Right
  <2>2. ToSet(groups) = {groups[1]}
    BY <2>1 DEF ToSet
  <2>3. Ids(lbEndpoints(e.instances)) = Ids(e.instances)
    BY <1>1, LbEndpointsAre DEF Ids
  <2> QED
    BY <2>1, <2>2, <2>3
<1>3. CASE e.policy # "normal"
  <2>1. /\ {g.locality : g \in ToSet(groups)} = LocalitiesOf(e.instances)
        /\ \A g \in ToSet(groups) : g.endpoints = lbEndpoints(At(e.instances, g.locality))
    BY <1>3 DEF Right, PartOf
  <2>2. ASSUME NEW g \in ToSet(groups)
        PROVE  Ids(g.endpoints) = {ins.id : ins \in {x \in ToSet(e.instances) : Locality(x) = g.locality}}
    <3>1. /\ At(e.instances, g.locality) \in Seq(EDSInstanceConfig)
          /\ ToSet(At(e.instances, g.locality)) = {x \in ToSet(e.instances) : Locality(x) = g.locality}
      BY <1>1, AtIs
    <3>2. Ids(lbEndpoints(At(e.instances, g.locality))) = Ids(At(e.instances, g.locality))
      BY <3>1, LbEndpointsAre DEF Ids
    <3>3. Ids(g.endpoints) = Ids(At(e.instances, g.locality))
      BY <2>1, <3>2
    <3> QED
      BY <3>1, <3>3 DEF Ids
  <2>3. ASSUME NEW ins \in ToSet(e.instances)
        PROVE  \E g \in ToSet(groups) : ins.id \in Ids(g.endpoints)
    <3>1. PICK g \in ToSet(groups) : g.locality = Locality(ins)
      BY <2>1 DEF LocalitiesOf
    <3> QED
      BY <2>2, <3>1
  <2>4. ASSUME NEW g \in ToSet(groups), NEW id \in Ids(g.endpoints) PROVE id \in Ids(e.instances)
    BY <2>2 DEF Ids
  <2>5. ASSUME NEW id \in Ids(e.instances) PROVE \E g \in ToSet(groups) : id \in Ids(g.endpoints)
    BY <2>3 DEF Ids
  <2> QED
    BY <2>4, <2>5
<1> QED
  BY <1>2, <1>3

(* Behind a cluster name are the instances of the last entry of that name. *)
LEMMA InstancesAre ==
  ASSUME Built, NEW n \in Names
  PROVE  InstancesOf(Xds("example_xds_cluster", n)) = WrittenInstances(n)
<1> DEFINE name == Xds("example_xds_cluster", n)
           cs == ByName(clusters, name)
           as == ByName(assignments, clusters[Max(cs)].service)
           cFile == Same(cdsConfig, n)
           eFile == Same(edsConfig, n)
<1>1. /\ InstancesOf(name) = IF cs = {} \/ as = {} THEN {}
                             ELSE UNION {Ids(g.endpoints) : g \in ToSet(assignments[Max(as)].endpoints)}
      /\ WrittenInstances(n) = IF cFile = {} \/ eFile = {} THEN {}
                               ELSE Ids(edsConfig[Max(eFile)].instances)
  BY DEF InstancesOf, WrittenInstances, Ids
<1>2. /\ cdsConfig \in Seq(CDSConfig) /\ edsConfig \in Seq(EDSConfig) /\ assignments \in Seq(Assignment)
      /\ Len(assignments) = Len(edsConfig)
      /\ \A k \in DOMAIN assignments : /\ assignments[k].name = Xds("example_xds_eds", edsConfig[k].name)
                                       /\ Right(edsConfig[k], assignments[k].endpoints)
  BY DEF Built, AssignedInv
<1>3. /\ DOMAIN clusters = DOMAIN cdsConfig
      /\ \A k \in DOMAIN cdsConfig :
           /\ clusters[k].name = <<"example_xds_cluster", xdsName[cdsConfig[k].name]>>
           /\ clusters[k].service = <<"example_xds_eds", xdsName[cdsConfig[k].name]>>
  BY DEF Built, BuiltClusters, clusterConfig, edsServiceName, Xds
<1>4. cs = cFile
  <2>1. \A k \in DOMAIN cdsConfig : clusters[k].name = name <=> xdsName[cdsConfig[k].name] = xdsName[n]
    BY <1>3 DEF Xds
  <2> QED
    BY <1>3, <2>1 DEF ByName, Same
<1>5. ASSUME cFile # {} PROVE as = eFile
  <2> DEFINE m == Max(cs)
  <2>1. cFile \in SUBSET (1 .. Len(cdsConfig)) /\ Len(cdsConfig) \in Nat
    BY <1>2 DEF Same
  <2>2. m \in cFile
    <3> HIDE DEF cFile, cs
    <3> QED
      BY <1>4, <1>5, <2>1, MaxIs
  <2> HIDE DEF m
  <2>3. m \in DOMAIN cdsConfig /\ xdsName[cdsConfig[m].name] = xdsName[n]
    BY <2>2 DEF Same
  <2>4. clusters[m].service = <<"example_xds_eds", xdsName[n]>>
    BY <1>3, <2>3
  <2>5. as = ByName(assignments, <<"example_xds_eds", xdsName[n]>>)
    BY <2>4 DEF m
  <2>6. DOMAIN assignments = DOMAIN edsConfig
    BY <1>2
  <2>7. \A k \in DOMAIN edsConfig : assignments[k].name = <<"example_xds_eds", xdsName[n]>>
                                      <=> xdsName[edsConfig[k].name] = xdsName[n]
    BY <1>2, <2>6 DEF Xds
  <2> HIDE DEF as
  <2> QED
    BY <2>5, <2>6, <2>7 DEF ByName, Same
<1>6. ASSUME eFile # {}
      PROVE  UNION {Ids(g.endpoints) : g \in ToSet(assignments[Max(eFile)].endpoints)}
               = Ids(edsConfig[Max(eFile)].instances)
  <2> DEFINE m == Max(eFile)
  <2>1. eFile \in SUBSET (1 .. Len(edsConfig)) /\ Len(edsConfig) \in Nat
    BY <1>2 DEF Same
  <2>2. m \in eFile
    <3> HIDE DEF eFile
    <3> QED
      BY <1>6, <2>1, MaxIs
  <2> HIDE DEF m
  <2>3. m \in DOMAIN edsConfig /\ m \in DOMAIN assignments
    BY <1>2, <2>2 DEF Same
  <2>4. edsConfig[m] \in EDSConfig /\ assignments[m] \in Assignment
    BY <1>2, <2>3
  <2>5. assignments[m].endpoints \in Seq(Group)
    BY <2>4 DEF Assignment
  <2> QED
    BY <1>2, <2>3, <2>4, <2>5, IdsAre DEF m
<1> HIDE DEF cs, as, cFile, eFile
<1> QED
  BY <1>1, <1>4, <1>5, <1>6

-----------------------------------------------------------------------------
(* Whatever the four files are, a request that Envoy takes with the        *)
(* resources built of them reaches the instances, with the weights, that   *)
(* the files give it.                                                      *)
THEOREM RequestsReach == Spec => []RequestsReachInstances
<1>1. ASSUME BuildersInv, pc = "done", NEW q \in Requests
      PROVE  Destination(q) = WrittenDestination(q)
  <2>1. Built
    BY <1>1, DoneBuilt
  <2> DEFINE targets == WrittenTargets(q)
             shown == RouteOf(q).clusters
  <2>2. listener.manager.routeConfigName = routeConfig.name
    BY <2>1 DEF Built, routeConfiguration, routeSpecifier
  <2>3. Destination(q) = [k \in DOMAIN shown |-> [weight |-> shown[k].weight,
                                                  instances |-> InstancesOf(shown[k].name)]]
    BY <2>2 DEF Destination
  <2>4. shown = Clusters(targets) /\ \A j \in DOMAIN targets : targets[j].name \in Names
    BY <2>1, TargetsAre
  <2> HIDE DEF shown, targets
  <2>5. DOMAIN shown = DOMAIN targets
    BY <2>4 DEF Clusters
  <2>6. ASSUME NEW k \in DOMAIN targets
        PROVE  shown[k].weight = targets[k].weight
               /\ InstancesOf(shown[k].name) = WrittenInstances(targets[k].name)
    <3>1. shown[k].weight = targets[k].weight
          /\ shown[k].name = Xds("example_xds_cluster", targets[k].name)
      BY <2>4 DEF Clusters, cluster
    <3>2. targets[k].name \in Names
      BY <2>4
    <3> QED
      BY <2>1, <3>1, <3>2, InstancesAre
  <2> QED
    BY <2>3, <2>5, <2>6 DEF WrittenDestination, targets
<1>2. BuildersInv => RequestsReachInstances
  BY <1>1 DEF RequestsReachInstances
<1> QED
  BY <1>2, BuildersInvariance, PTL
=============================================================================
