------------------------------ MODULE Discovery ------------------------------
(***************************************************************************)
(* The data of the control plane: what a yaml file decodes to, the names   *)
(* under which the discovery services build their resources from it, and   *)
(* the consistency check a snapshot must pass before it is served.         *)
(*                                                                         *)
(* A decoded file is abstracted to the cluster names it mentions and a     *)
(* revision that stands for the rest of its body.                          *)
(***************************************************************************)
EXTENDS Naturals, Sequences, Naming

CONSTANTS
  Revs,         \* the part of a body that the checks do not look at
  Configs,      \* Configs[t]: the contents the operator saves in file t
  Unbuildable,  \* lds contents that load accepts and create cannot marshal
  Truncated,    \* Truncated[t]: what file t decodes to before its body is written
  Invalid,      \* a file whose content load rejects
  Absent,       \* a file that does not exist
  Nil           \* Go's nil

Types == {"cds", "eds", "rds", "lds"}

Config == [names : SUBSET Names, rev : Revs]

ASSUME DiscoveryAssumption ==
  /\ Configs \in [Types -> SUBSET Config]
  /\ Unbuildable \subseteq Configs["lds"]
  /\ Truncated \in [Types -> Config \cup {Invalid}]
  /\ {Invalid, Absent, Nil} \cap Config = {}

(* What a file can hold when the program opens it. *)
FileContent == Config \cup {Invalid, Absent}

(* loadXxx: the decoded and validated content, or Nil for an error.          *)
Loaded(content) == IF content \in Config THEN content ELSE Nil

(***************************************************************************)
(* Resource names.  A resource is identified by its kind and the rewritten *)
(* name; nil slices mention no name.                                       *)
(***************************************************************************)
Mentioned(c) == IF c = Nil THEN {} ELSE c.names

RouteConfigName == "example_xds_route_config"

(* The EDS service names the clusters of a CDS configuration ask for. *)
ServiceNames(cds) == {Xds("example_xds_eds", n) : n \in Mentioned(cds)}

(* The names of the ClusterLoadAssignments of an EDS configuration. *)
AssignmentNames(eds) == {Xds("example_xds_eds", n) : n \in Mentioned(eds)}

(* The route configurations a listener asks for, and those that are built. *)
RouteRefs(lds) == IF lds = Nil THEN {} ELSE {RouteConfigName}
RouteNames(rds) == IF rds = Nil THEN {} ELSE {RouteConfigName}

(***************************************************************************)
(* Snapshot.Consistent of go-control-plane: every endpoint and route       *)
(* resource is asked for by a cluster or a listener, and nothing else is.  *)
(* cfg maps each type to the configuration its resources were built from.  *)
(***************************************************************************)
Consistent(cfg) ==
  /\ ServiceNames(cfg["cds"]) = AssignmentNames(cfg["eds"])
  /\ RouteRefs(cfg["lds"]) = RouteNames(cfg["rds"])

=============================================================================
