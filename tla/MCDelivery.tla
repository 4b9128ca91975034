----------------------------- MODULE MCDelivery -----------------------------
(***************************************************************************)
(* The instance of Delivery for TLC: the routes change within a process,   *)
(* routes and clusters from one process to the next; Envoy rejects one of  *)
(* the contents of the routes.                                             *)
(***************************************************************************)
EXTENDS Delivery

MCxdsName == [n \in {"web-api"} |-> "web_api"]

Cfg(names, rev) == [names |-> names, rev |-> rev]

MCConfigs == [t \in Types |->
  CASE t = "cds" -> {Cfg({"web-api"}, 1), Cfg({"web-api"}, 2)}
    [] t = "eds" -> {Cfg({"web-api"}, 1)}
    [] t = "rds" -> {Cfg({}, r) : r \in 1 .. 3}
    [] t = "lds" -> {Cfg({}, 1)}]

MCRejected == {Cfg({}, 2)}
MCTruncated == [t \in Types |-> Invalid]
MCMaxVersion == [t \in Types |-> IF t = "rds" THEN 2 ELSE 1]
=============================================================================
