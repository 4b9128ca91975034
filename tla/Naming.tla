------------------------------- MODULE Naming -------------------------------
(***************************************************************************)
(* xdsName: the names under which resources refer to each other.  It joins *)
(* its arguments with "_" and replaces every "-", so two names an operator *)
(* tells apart may become one.                                             *)
(***************************************************************************)
CONSTANTS
  Names,     \* cluster names that an operator writes in the files
  XdsNames,  \* what xdsName makes of them
  xdsName    \* xdsName[n]: n with every "-" replaced by "_"

ASSUME NamingAssumption == xdsName \in [Names -> XdsNames]

(* xdsName(kind, n), for a kind that is spelt with "_" already. *)
Xds(kind, n) == <<kind, xdsName[n]>>
=============================================================================
