----------------------------- MODULE MCWatchFile -----------------------------
(***************************************************************************)
(* Instances of WatchFile for TLC: two cluster names, so that cds.yaml and *)
(* eds.yaml can disagree, and two revisions of a file.                     *)
(***************************************************************************)
EXTENDS WatchFile

MCNames == {"web-api", "web-image"}
MCXdsNames == {"web_api", "web_image"}
MCxdsName == [n \in MCNames |-> IF n = "web-api" THEN "web_api" ELSE "web_image"]

Cfg(names, rev) == [names |-> names, rev |-> rev]

One == Cfg({"web-api"}, 1)
Both == Cfg(MCNames, 1)
Empty == Cfg({}, 0)
Lds(rev) == Cfg({}, rev)

MCConfigs == [t \in Types |->
  CASE t \in {"cds", "eds"} -> {One, Both}
    [] t = "rds" -> {Cfg({"web-api"}, 1), Cfg({"web-api"}, 2)}
    [] t = "lds" -> {Lds(1), Lds(2)}]
MCUnbuildable == {Lds(2)}

(* A truncated list is the empty list; a truncated listener lacks required *)
(* fields.                                                                 *)
MCTruncated == [t \in Types |-> IF t = "lds" THEN Invalid ELSE Empty]

Start == [t \in Types |-> CASE t \in {"cds", "eds"} -> One
                            [] t = "rds" -> Cfg({"web-api"}, 1)
                            [] t = "lds" -> Lds(1)]
StartGood == {Start}
(* Also files that the initial ReloadAll or Watch must reject. *)
StartAny == {Start, [Start EXCEPT !["eds"] = Both], [Start EXCEPT !["rds"] = Invalid],
             [Start EXCEPT !["lds"] = Lds(2)], [Start EXCEPT !["cds"] = Absent]}

ReplaceLists == {<<"cds", "replace">>, <<"eds", "replace">>}
ReplaceRds == {<<"rds", "replace">>}
RdsEdits == {"rds"} \X {"inplace", "over", "delete"}
ListEdits == ReplaceLists \cup {<<"rds", "inplace">>}
AllEdits == Types \X EditKinds
=============================================================================
