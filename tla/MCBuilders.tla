----------------------------- MODULE MCBuilders -----------------------------
(***************************************************************************)
(* The instance of Builders and Routing for TLC.  Four families of files   *)
(* vary one entry of one file each; the last one varies the names and the  *)
(* rules of all files together.                                            *)
(***************************************************************************)
EXTENDS Routing

CONSTANTS
  MaxStatuses,      \* bound on the length of a status list
  InstanceWeights,  \* weights given to instances; 0 when the key is missing
  MaxInstances,     \* bound on the instances of an entry
  TargetWeights,    \* weights written in rds.yaml
  MaxTargets        \* bound on the targets of a route

(* Two names that xdsName makes the same, and another one. *)
MCNames == {"web-api", "web_api", "image"}
MCXdsNames == {"web_api", "image"}
MCxdsName == [n \in MCNames |-> IF n = "image" THEN "image" ELSE "web_api"]

(* Two strings for each of two statuses, neighbouring numbers, and a       *)
(* string that is no number.                                               *)
MCStatuses == {"200", "0200", "201", "304", "0304", "2xx"}
MCParseUint == [s \in MCStatuses |-> CASE s \in {"200", "0200"} -> 200
                                      [] s = "201" -> 201
                                      [] s \in {"304", "0304"} -> 304
                                      [] s = "2xx" -> NotANumber]

GoodLds == [protocol |-> "tcp", useRemoteAddr |-> TRUE, skipXffAppend |-> TRUE,
            xffTrustedHops |-> 1]
AllLds == [protocol : {"tcp", "udp", "other"}, useRemoteAddr : BOOLEAN,
           skipXffAppend : BOOLEAN, xffTrustedHops : {0, 1}]

OneCluster == [cds : {<<[name |-> "web-api", lbPolicy |-> p, status |-> st]>> :
                        p \in LbPolicies,
                        st \in {st \in BoundedSeq(MCStatuses, MaxStatuses) : IsInjective(st)}},
               eds : {<<>>}, rds : {<<>>}, lds : {GoodLds}]

(* Two regions that share their zone names. *)
Places == [region : Regions, zone : Zones, weight : InstanceWeights]
Instance(id, place) ==
  [id |-> id, region |-> place.region, zone |-> place.zone, weight |-> place.weight]

OneEndpoint == [cds : {<<>>},
                eds : {<<[name |-> "web-api", policy |-> p,
                          instances |-> [k \in DOMAIN places |-> Instance(k, places[k])]]>> :
                         p \in {"normal", "locality", "other"},
                         places \in BoundedSeq(Places, MaxInstances)},
                rds : {<<>>}, lds : {GoodLds}]

Target(n, w) == [name |-> n, weight |-> w]
Rule(p, h, ts) == [prefix |-> p, headers |-> h, target |-> ts]
Host(ds, rules, r) == [domain |-> ds, cluster |-> rules, retry |-> r]

OneRoute == [cds : {<<>>}, eds : {<<>>},
             rds : {<<Host(<<"api">>,
                           <<Rule("/", <<>>, [k \in DOMAIN ws |-> Target("image", ws[k])])>>, r)>> :
                      ws \in BoundedSeq(TargetWeights, MaxTargets), r \in RetryPolicies},
             lds : {GoodLds}]

OneListener == [cds : {<<>>}, eds : {<<>>}, rds : {<<>>}, lds : AllLds]

-----------------------------------------------------------------------------
(* All files together. *)
MCUnder == [p \in {"/", "/v1"} |-> IF p = "/" THEN {"/v1", "/v2"} ELSE {"/v1"}]

Cds(n) == [name |-> n, lbPolicy |-> "random", status |-> <<"200">>]
CdsOf(names) == [k \in DOMAIN names |-> Cds(names[k])]

Eds(n) ==
  [name |-> n,
   policy |-> IF n = "web-api" THEN "locality" ELSE "normal",
   instances |-> CASE n = "web-api" -> <<Instance(1, [region |-> "asia", zone |-> "a", weight |-> 1]),
                                         Instance(2, [region |-> "asia", zone |-> "b", weight |-> 0])>>
                   [] n = "web_api" -> <<Instance(3, [region |-> "asia", zone |-> "a", weight |-> 1])>>
                   [] n = "image" -> <<Instance(4, [region |-> "asia", zone |-> "a", weight |-> 1])>>]
EdsOf(names) == [k \in DOMAIN names |-> Eds(names[k])]

NameLists == {<<>>, <<"image">>, <<"web-api", "image">>, <<"image", "web_api">>,
              <<"web-api", "web_api">>}

TargetLists == {<<Target("web-api", 100)>>, <<Target("image", 1), Target("web_api", 2)>>,
                <<Target("image", 0)>>}
Rules == {Rule(p, h, ts) : p \in DOMAIN MCUnder, h \in {<<>>, <<"canary">>}, ts \in TargetLists}

Hosts == {<<Host(<<d, "www">>, <<r1, r2>>, "off")>> :
            r1 \in Rules, r2 \in Rules, d \in {"api", "www"}}
         \cup {<<Host(<<"api">>, <<r1>>, "off"), Host(<<d>>, <<r2>>, "retry1")>> :
                 r1 \in Rules, r2 \in Rules, d \in {"api", "www"}}

Together == [cds : {CdsOf(names) : names \in NameLists},
             eds : {EdsOf(names) : names \in NameLists},
             rds : Hosts, lds : {GoodLds}]

MCFiles == OneCluster \cup OneEndpoint \cup OneRoute \cup OneListener \cup Together
=============================================================================
