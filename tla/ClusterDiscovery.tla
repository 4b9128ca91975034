-------------------------- MODULE ClusterDiscovery --------------------------
(***************************************************************************)
(* What cds.create makes of the entries of cds.yaml: the names that routes *)
(* and endpoints refer to, the statuses that the health check expects and  *)
(* the load balancing policy.  The rest of a Cluster is copied from the    *)
(* entry or from fixed options.                                            *)
(***************************************************************************)
EXTENDS Naming, Naturals, FiniteSets, SequencesExt

CONSTANTS
  Statuses,    \* strings of a status list
  ParseUint,   \* ParseUint[s]: the number that s denotes, or NotANumber
  NotANumber,
  LbPolicies   \* values of lb-policy

ASSUME ClusterAssumption ==
  \A s \in Statuses : ParseUint[s] # NotANumber => ParseUint[s] \in Nat

(* An entry that loadCds accepts.  The tags `required,unique` of the       *)
(* status list: the strings differ, and the list may be empty.             *)
CDSConfig == [name : Names, lbPolicy : LbPolicies,
              status : {list \in Seq(Statuses) : IsInjective(list)}]

VARIABLES
  cdsConfig,  \* the entries of cds.yaml
  clusters    \* the Clusters made of them

cdsVars == <<cdsConfig, clusters>>

CdsInit(file) == cdsConfig = file /\ clusters = <<>>

-----------------------------------------------------------------------------
lbPolicy(policy) ==
  CASE policy = "least-reqest" -> "LEAST_REQUEST"
    [] policy = "random" -> "RANDOM"
    [] OTHER -> "ROUND_ROBIN"

(* A status that does not parse counts as 200. *)
Status(s) == IF ParseUint[s] = NotANumber THEN 200 ELSE ParseUint[s]

(* Int64Range: Envoy takes the end as excluded. *)
Interval(first, end) == [start |-> first, end |-> end]
expectedHttpStatusOk == <<Interval(200, 299)>>

(* Mutant of AvoidSame: the first status is changed, not the last. *)
AvoidSameFirst(sorted) ==
  IF sorted[1] = Last(sorted) THEN [sorted EXCEPT ![1] = @ + 1] ELSE sorted

(* Mutant of AvoidSame: the last status is changed in any case. *)
AvoidSameAlways(sorted) == [sorted EXCEPT ![Len(sorted)] = @ + 1]

(* "avoid same value". *)
AvoidSame(sorted) ==
  IF sorted[1] = Last(sorted) THEN [sorted EXCEPT ![Len(sorted)] = @ + 1] ELSE sorted

(* sort.Slice. *)
Sorted(numbers) ==
  LET orders == {[k \in DOMAIN numbers |-> numbers[p[k]]] :
                   p \in Bijection(DOMAIN numbers, DOMAIN numbers)}
  IN CHOOSE s \in orders : \A j, k \in DOMAIN s : j <= k => s[j] <= s[k]

(* Mutant of Ranges: the end of a range is taken as included. *)
RangesIncluded(statuses) == [k \in DOMAIN statuses |-> Interval(statuses[k], statuses[k])]

Ranges(statuses) == [k \in DOMAIN statuses |-> Interval(statuses[k], statuses[k] + 1)]

statusesInt64Range(status) ==
  LET numbers == [k \in DOMAIN status |-> Status(status[k])] IN
  CASE numbers \in {<<>>, <<200>>} -> expectedHttpStatusOk
    [] Len(numbers) = 1 /\ numbers # <<200>> -> Ranges(numbers)
    [] Len(numbers) > 1 -> Ranges(AvoidSame(Sorted(numbers)))

(* Mutant of edsServiceName: the kind is the one of the cluster. *)
edsServiceNameCluster(usage) == Xds("example_xds_cluster", usage)

(* "ref: eds.clusterLoadAssignment". *)
edsServiceName(usage) == Xds("example_xds_eds", usage)

(* "ref: rds.cluster". *)
clusterConfig(cfg) ==
  [name |-> Xds("example_xds_cluster", cfg.name),
   service |-> edsServiceName(cfg.name),
   lbPolicy |-> lbPolicy(cfg.lbPolicy),
   statuses |-> statusesInt64Range(cfg.status)]

cdsCreate ==
  /\ clusters' = [k \in DOMAIN cdsConfig |-> clusterConfig(cdsConfig[k])]
  /\ UNCHANGED cdsConfig

-----------------------------------------------------------------------------
(* Every cluster that was built has property P, given its entry. *)
EachCluster(P(_, _)) == \A k \in DOMAIN clusters : P(cdsConfig[k], clusters[k])

(* The statuses that Envoy accepts from a host: those inside a range.      *)
Accepted(c) == UNION {r.start .. (r.end - 1) : r \in ToSet(c.statuses)}

Configured(e) == {Status(s) : s \in ToSet(e.status)}

(* A cluster has at least one range, every range contains a status (Envoy  *)
(* rejects the whole cluster otherwise), and the ranges are sorted.        *)
ClusterValid ==
  EachCluster(LAMBDA e, c :
    /\ c.statuses # <<>>
    /\ \A r \in ToSet(c.statuses) : r.start < r.end
    /\ \A j, k \in DOMAIN c.statuses : j <= k => c.statuses[j].start <= c.statuses[k].start)

(* A host that answers with a configured status is never taken out, even   *)
(* when strings that differ denote the same number (statusesInt64Range).   *)
ConfiguredAccepted == EachCluster(LAMBDA e, c : Configured(e) \subseteq Accepted(c))

(* And no other status passes, except that 200 alone stands for a whole    *)
(* range and that one number given more than once lets the next one pass.  *)
OthersRejected ==
  EachCluster(LAMBDA e, c :
    /\ Cardinality(Configured(e)) > 1 \/ Len(e.status) = 1
    /\ Configured(e) # {200}
    => Accepted(c) = Configured(e))

(* "default status: 2xx only" (cds.go): without statuses, exactly the      *)
(* statuses 200 to 299 pass.                                               *)
DefaultIs2xx ==
  EachCluster(LAMBDA e, c : e.status = <<>> => Accepted(c) = 200 .. 299)

(* cds.yaml names the policy "least-request": a cluster gets the policy    *)
(* that its entry names.                                                   *)
PolicyAsNamed ==
  EachCluster(LAMBDA e, c :
    /\ e.lbPolicy = "round-robin" => c.lbPolicy = "ROUND_ROBIN"
    /\ e.lbPolicy = "least-request" => c.lbPolicy = "LEAST_REQUEST"
    /\ e.lbPolicy = "random" => c.lbPolicy = "RANDOM")
=============================================================================
