------------------------------ MODULE Builders ------------------------------
(***************************************************************************)
(* ReloadAll over the four builders: the files are loaded, and only if all *)
(* of them are accepted the resources are built, one type after the other. *)
(* Builders share no state, so how reloads interleave is left to WatchFile. *)
(***************************************************************************)
EXTENDS ClusterDiscovery, EndpointDiscovery, RouteDiscovery, ListenerDiscovery

CONSTANT
  Files  \* contents of the four files together

ASSUME FilesAssumption ==
  Files \subseteq [cds : Seq(CDSConfig), eds : Seq(EDSConfig), rds : Seq(RDSConfig),
                   lds : LDSConfig]

VARIABLE
  pc  \* "load", the type that is built, "done" or "error"

vars == <<pc, cdsVars, edsVars, rdsVars, ldsVars>>

Init ==
  /\ pc = "load"
  /\ \E f \in Files : CdsInit(f.cds) /\ EdsInit(f.eds) /\ RdsInit(f.rds) /\ LdsInit(f.lds)

Load ==
  /\ pc = "load"
  /\ pc' = IF loadRds(rdsConfig) /\ loadLds(ldsConfig) THEN "cds" ELSE "error"
  /\ UNCHANGED <<cdsVars, edsVars, rdsVars, ldsVars>>

updateCds ==
  /\ pc = "cds"
  /\ cdsCreate
  /\ pc' = "eds"
  /\ UNCHANGED <<edsVars, rdsVars, ldsVars>>

updateEds ==
  /\ pc = "eds"
  /\ \/ edsCreate /\ UNCHANGED pc
     \/ EdsDone /\ pc' = "rds" /\ UNCHANGED edsVars
  /\ UNCHANGED <<cdsVars, rdsVars, ldsVars>>

updateRds ==
  /\ pc = "rds"
  /\ rdsCreate
  /\ pc' = "lds"
  /\ UNCHANGED <<cdsVars, edsVars, ldsVars>>

updateLds ==
  /\ pc = "lds"
  /\ ldsCreate
  /\ pc' = "done"
  /\ UNCHANGED <<cdsVars, edsVars, rdsVars>>

Next == Load \/ updateCds \/ updateEds \/ updateRds \/ updateLds

Spec == Init /\ [][Next]_vars
=============================================================================
