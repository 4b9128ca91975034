------------------------- MODULE ListenerDiscovery -------------------------
(***************************************************************************)
(* What loadLds accepts and what lds.create builds: one listener whose     *)
(* connection manager asks for the route configuration by name.  The       *)
(* address, the timeouts, the server name and the access log are copied.   *)
(***************************************************************************)
EXTENDS Naturals

(* Contents of lds.yaml that parse. *)
LDSConfig == [protocol : {"tcp", "udp", "other"},
              useRemoteAddr : BOOLEAN, skipXffAppend : BOOLEAN, xffTrustedHops : Nat]

VARIABLES
  ldsConfig,  \* the content of lds.yaml
  listener    \* the Listener made of it, or <<>>

ldsVars == <<ldsConfig, listener>>

LdsInit(file) == ldsConfig = file /\ listener = <<>>

-----------------------------------------------------------------------------
(* loadLds: `required` takes the zero value of a field for a missing one,  *)
(* so an explicit "false" is rejected.  The tag of XffTrustedHops is       *)
(* misspelt and not evaluated.                                             *)
loadLds(file) == file.useRemoteAddr /\ file.skipXffAppend

Address(protocol) == IF protocol = "udp" THEN "UDP" ELSE "TCP"

(* Mutant of routeSpecifier: the name is not passed through xdsName. *)
routeSpecifierAsWritten == "example-xds-route-config"

(* "ref: rds.routeConfiguration". *)
routeSpecifier == "example_xds_route_config"

httpConnectionManager(config) ==
  [useRemoteAddress |-> config.useRemoteAddr,
   skipXffAppend |-> config.skipXffAppend,
   xffNumTrustedHops |-> config.xffTrustedHops,
   routeConfigName |-> routeSpecifier]

ldsCreate ==
  /\ listener' = [address |-> Address(ldsConfig.protocol),
                  manager |-> httpConnectionManager(ldsConfig)]
  /\ UNCHANGED ldsConfig
=============================================================================
