------------------------- MODULE WatchFileInvariant -------------------------
(***************************************************************************)
(* The inductive strengthening of the safety properties of WatchFile.      *)
(***************************************************************************)
EXTENDS WatchFile

(* What create recorded for type t and resource r. *)
Rec(t, r) == [type |-> t, version |-> r.version, config |-> r.config]

(* The lists each goroutine works through, and who may run when: main      *)
(* loads, adds the watches, and only then starts the other two.            *)
ControlInv ==
  /\ pc["main"] \in Working => job["main"] = ReloadOrder
  /\ pc["main"] = "add" => job["main"] = WatchOrder
  /\ job["watch"] \in {<<>>} \cup {<<t>> : t \in Types}
  /\ job["signal"] \in {<<>>, ReloadOrder}
  /\ pc["watch"] \in Working \cup {"add"} => job["watch"] # <<>>
  /\ pc["signal"] \in Working => job["signal"] # <<>>
  /\ pc["signal"] # "add"
  /\ \A p \in {"watch", "signal"} :
       pc["main"] # "up" => pc[p] = "off" /\ snap[p] = Nil

(* The loads of a phase precede its creates, and a create its store.       *)
LocalInv ==
  \A p \in Procs :
    /\ pc[p] = "load" => \A i \in 1 .. (at[p] - 1) : got[p][job[p][i]] # Nil
    /\ pc[p] \in {"create", "store"} =>
         \A i \in 1 .. Len(job[p]) : got[p][job[p][i]] # Nil
    /\ pc[p] = "store" => made[p][Cur(p)] # Nil
    /\ pc[p] = "set" => snap[p] # Nil

(* The table is complete once main has stored the four types.              *)
TableInv ==
  /\ pc["main"] \in {"create", "store"} =>
       \A i \in 1 .. (at["main"] - 1) : res[job["main"][i]].config # Nil
  /\ pc["main"] \in {"snapshot", "set", "add", "up"} =>
       \A t \in Types : res[t].config # Nil

(* Versions are handed out once, and whatever is in the table, in a local  *)
(* or in the cache is a resource that was created under its version.       *)
BuiltInv ==
  /\ \A b \in built : b.version <= version[b.type]
  /\ \A a, b \in built : a.type = b.type /\ a.version = b.version => a = b
  /\ \A p \in Procs, t \in Types : made[p][t] # Nil => Rec(t, made[p][t]) \in built
  /\ \A t \in Types : res[t].config # Nil => Rec(t, res[t]) \in built
  /\ \A p \in Procs : snap[p] # Nil => \A t \in Types : Rec(t, snap[p][t]) \in built
  /\ cache # Nil => \A t \in Types : Rec(t, cache[t]) \in built

(* A snapshot on its way to the cache has passed the check.                *)
CheckedInv ==
  /\ \A p \in Procs : snap[p] # Nil => Consistent(Contents(snap[p]))
  /\ ServedConsistent

IInv == TypeOK /\ ControlInv /\ LocalInv /\ TableInv /\ BuiltInv /\ CheckedInv
=============================================================================
