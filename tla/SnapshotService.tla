--------------------------- MODULE SnapshotService ---------------------------
(***************************************************************************)
(* What the control plane promises to the xDS server that reads its cache: *)
(* resources are created under versions that are never used again, and one *)
(* consistent selection of created resources is served at a time.  Nothing *)
(* is said of when, by whom, or in which order selections are published.   *)
(***************************************************************************)
EXTENDS Discovery

VARIABLES
  counter,  \* counter[t]: resources of type t created so far
  created,  \* every resource created
  served    \* the selection on offer, or Nil before the first one

svars == <<counter, created, served>>

Init ==
  /\ counter = [t \in Types |-> 0]
  /\ created = {}
  /\ served = Nil

Create(t, c) ==
  /\ counter' = [counter EXCEPT ![t] = @ + 1]
  /\ created' = created \cup {[type |-> t, version |-> counter[t] + 1, config |-> c]}
  /\ UNCHANGED served

(* The created resources of type t, and one of each type that fit together. *)
Offered(t) == {[version |-> b.version, config |-> b.config] :
                 b \in {b \in created : b.type = t}}

Selections ==
  {s \in [Types -> UNION {Offered(t) : t \in Types}] :
     /\ \A t \in Types : s[t] \in Offered(t)
     /\ Consistent([t \in Types |-> s[t].config])}

(* Any consistent selection of created resources may replace the one on   *)
(* offer, which is never withdrawn.                                        *)
Publish ==
  /\ served' \in Selections
  /\ UNCHANGED <<counter, created>>

Next ==
  \/ \E t \in Types, c \in Config : Create(t, c)
  \/ Publish

Spec == Init /\ [][Next]_svars
=============================================================================
