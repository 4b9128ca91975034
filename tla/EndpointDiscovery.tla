------------------------- MODULE EndpointDiscovery -------------------------
(***************************************************************************)
(* What eds.create makes of the entries of eds.yaml: one load assignment   *)
(* per entry, its instances grouped by region and zone.  The groups are    *)
(* kept in Go maps, whose iteration order is arbitrary, so every order of  *)
(* regions and of zones is a behaviour.                                    *)
(*                                                                         *)
(* An instance is an id for its address (copied as it is), its region,     *)
(* zone and weight.                                                        *)
(***************************************************************************)
EXTENDS Naming, Naturals, SequencesExt

CONSTANTS
  Regions,  \* region names
  Zones     \* zone names, which regions may share

EDSInstanceConfig == [id : Nat, region : Regions, zone : Zones, weight : Nat]

(* An entry that loadEds accepts. *)
EDSConfig == [name : Names, policy : {"normal", "locality", "other"},
              instances : Seq(EDSInstanceConfig)]

VARIABLES
  edsConfig,   \* the entries of eds.yaml
  edsPc,       \* "entry", "region" or "zone": the loop that is running
  byRegion,    \* the map of instancesByRegion
  regions,     \* its keys not yet visited
  region,      \* the key being visited
  byZone,      \* the map of instancesByZone for that region
  zones,       \* its keys not yet visited
  endpoints,   \* the LocalityLbEndpoints appended for this entry so far
  assignments  \* the ClusterLoadAssignments of the entries so far

edsVars ==
  <<edsConfig, edsPc, byRegion, regions, region, byZone, zones, endpoints, assignments>>

NoLocality == [region |-> "", zone |-> ""]

EdsInit(file) ==
  /\ edsConfig = file
  /\ edsPc = "entry"
  /\ byRegion = <<>>
  /\ regions = {}
  /\ region = ""
  /\ byZone = <<>>
  /\ zones = {}
  /\ endpoints = <<>>
  /\ assignments = <<>>

(* The entry being built, and whether there is none left. *)
Entry == edsConfig[Len(assignments) + 1]
EdsDone == edsPc = "entry" /\ Len(assignments) = Len(edsConfig)

-----------------------------------------------------------------------------
(* instancesByRegion and instancesByZone: append to the slice under the    *)
(* key, or enter a new slice.                                              *)
Enter(m, v, ins) ==
  [k \in DOMAIN m \cup {v} |-> IF k # v THEN m[k]
                               ELSE IF v \in DOMAIN m THEN Append(m[v], ins)
                               ELSE <<ins>>]

GroupBy(list, key) ==
  LET m[n \in 0 .. Len(list)] ==
        IF n = 0 THEN <<>> ELSE Enter(m[n - 1], list[n][key], list[n])
  IN m[Len(list)]

instancesByRegion(list) == GroupBy(list, "region")
instancesByZone(list) == GroupBy(list, "zone")

(* Mutant of lbEndpoints: a missing weight stays 0. *)
lbEndpointsAsGiven(list) ==
  [k \in DOMAIN list |-> [id |-> list[k].id, weight |-> list[k].weight]]

(* lbEndpointsDefault: a weight below 1 becomes 1. *)
lbEndpoints(list) ==
  [k \in DOMAIN list |->
     [id |-> list[k].id, weight |-> IF list[k].weight < 1 THEN 1 ELSE list[k].weight]]

lbLocalityEndpoint(r, z, list) ==
  [locality |-> [region |-> r, zone |-> z], endpoints |-> lbEndpoints(list)]

clusterLoadAssignment(usage, list) ==
  [name |-> Xds("example_xds_eds", usage), endpoints |-> list]

(* The next entry in edsEndpoints.  lbBalancingEndpoints: every policy but *)
(* "normal" groups by locality.                                            *)
NextEntry ==
  /\ edsPc = "entry"
  /\ ~EdsDone
  /\ \/ /\ Entry.policy = "normal"
        /\ assignments' = Append(assignments, clusterLoadAssignment(Entry.name,
             <<[locality |-> NoLocality, endpoints |-> lbEndpoints(Entry.instances)]>>))
        /\ UNCHANGED <<edsPc, byRegion, regions>>
     \/ /\ Entry.policy # "normal"
        /\ byRegion' = instancesByRegion(Entry.instances)
        /\ regions' = DOMAIN byRegion'
        /\ edsPc' = "region"
        /\ UNCHANGED assignments
  /\ UNCHANGED <<edsConfig, region, byZone, zones, endpoints>>

(* Mutant of NextRegion: the zones are taken over all the instances.       *)
NextRegionAll ==
  /\ edsPc = "region"
  /\ \E r \in regions :
       /\ region' = r
       /\ regions' = regions \ {r}
       /\ byZone' = instancesByZone(Entry.instances)
       /\ zones' = DOMAIN byZone'
  /\ edsPc' = "zone"
  /\ UNCHANGED <<edsConfig, byRegion, endpoints, assignments>>

(* The range over regions in lbLocalityEnpoints. *)
NextRegion ==
  /\ edsPc = "region"
  /\ \E r \in regions :
       /\ region' = r
       /\ regions' = regions \ {r}
       /\ byZone' = instancesByZone(byRegion[r])
       /\ zones' = DOMAIN byZone'
  /\ edsPc' = "zone"
  /\ UNCHANGED <<edsConfig, byRegion, endpoints, assignments>>

EndRegions ==
  /\ edsPc = "region"
  /\ regions = {}
  /\ assignments' = Append(assignments, clusterLoadAssignment(Entry.name, endpoints))
  /\ endpoints' = <<>>
  /\ edsPc' = "entry"
  /\ UNCHANGED <<edsConfig, byRegion, regions, region, byZone, zones>>

(* The range over the zones of a region in lbLocalityEndpointsByRegion.    *)
NextZone ==
  /\ edsPc = "zone"
  /\ \E z \in zones :
       /\ zones' = zones \ {z}
       /\ endpoints' = Append(endpoints, lbLocalityEndpoint(region, z, byZone[z]))
  /\ UNCHANGED <<edsConfig, edsPc, byRegion, regions, region, byZone, assignments>>

EndZones ==
  /\ edsPc = "zone"
  /\ zones = {}
  /\ edsPc' = "region"
  /\ UNCHANGED <<edsConfig, byRegion, regions, region, byZone, zones, endpoints, assignments>>

edsCreate == NextEntry \/ NextRegion \/ EndRegions \/ NextZone \/ EndZones

-----------------------------------------------------------------------------
Locality(ins) == [region |-> ins.region, zone |-> ins.zone]

(* The members of a list that are in a set, in their order. *)
Only(list, set) ==
  LET kept[n \in 0 .. Len(list)] ==
        IF n = 0 THEN <<>>
        ELSE IF list[n] \in set THEN Append(kept[n - 1], list[n]) ELSE kept[n - 1]
  IN kept[Len(list)]

At(list, locality) == Only(list, {ins \in ToSet(list) : Locality(ins) = locality})

(* Envoy takes no weight below 1, and a group that is empty is no group    *)
(* unless the entry itself is empty.                                       *)
EndpointsValid ==
  \A k \in DOMAIN assignments : \A g \in ToSet(assignments[k].endpoints) :
    /\ g.endpoints = <<>> => edsConfig[k].instances = <<>>
    /\ \A e \in ToSet(g.endpoints) : e.weight >= 1

(* In whatever order the maps were walked, a locality ends up with exactly *)
(* the instances that the file puts there, in file order, although regions *)
(* share zone names; no locality comes twice, every instance is somewhere, *)
(* without localities they are all in one group, and no entry gets an      *)
(* instance of another.                                                    *)
GroupsPartition ==
  \A k \in DOMAIN assignments :
    LET e == edsConfig[k]
        groups == assignments[k].endpoints
    IN IF e.policy = "normal"
         THEN Len(groups) = 1 /\ groups[1].endpoints = lbEndpoints(e.instances)
         ELSE /\ {g.locality : g \in ToSet(groups)} = {Locality(ins) : ins \in ToSet(e.instances)}
              /\ IsInjective([j \in DOMAIN groups |-> groups[j].locality])
              /\ \A g \in ToSet(groups) :
                   g.endpoints = lbEndpoints(At(e.instances, g.locality))
=============================================================================
