-------------------------- MODULE OneReloaderProofs --------------------------
(***************************************************************************)
(* Proofs about WatchFile until the first SIGHUP is taken: main and then   *)
(* the loop are the only ones that reload, one after the other.  What is   *)
(* served never goes back and agrees with the table between events.  Once  *)
(* two goroutines reload, neither holds any more.                          *)
(***************************************************************************)
EXTENDS WatchFileProofs

(* The signal handler never reloads. *)
AloneInv == pc["signal"] \in {"off", "idle"}

(* The table holds the newest version that was stored of a type; what is   *)
(* about to be stored is newer, and what is served is not.                 *)
OrderInv ==
  /\ \A t \in Types : res[t].version <= version[t]
  /\ \A p \in Procs : pc[p] = "store" => made[p][Cur(p)].version >= res[Cur(p)].version
  /\ cache # Nil => \A t \in Types : cache[t].version <= res[t].version

(* A snapshot on its way to the cache is still the table, and the cache    *)
(* follows the table but for the time between a store and the check.       *)
SettledInv ==
  /\ \A p \in Procs : pc[p] = "set" => snap[p] = res
  /\ pc["main"] \in {"add", "up"} /\ pc["watch"] \notin {"snapshot", "set"} =>
       (Consistent(Contents(res)) => cache = res)

SInv == AloneInv /\ OrderInv /\ SettledInv

(* The goroutine that works is main or the loop, and the only one. *)
LEMMA OneWorks ==
  ASSUME IInv, AloneInv, NEW p \in Procs, pc[p] \in Working
  PROVE  /\ p \in {"main", "watch"}
         /\ p = "watch" => pc["main"] = "up"
         /\ \A q \in Procs \ {p} : pc[q] \notin Working
BY DEF IInv, ControlInv, AloneInv, Working, Procs

(* At the start nothing is in the table or the cache.                      *)
LEMMA SInitInv == Init => SInv
<1> SUFFICES ASSUME Init PROVE SInv
  OBVIOUS
<1>1. AloneInv /\ SettledInv
  BY DEF Init, AloneInv, SettledInv, Procs
<1>2. OrderInv
  BY DEF Init, OrderInv
<1> QED
  BY <1>1, <1>2 DEF SInv

(* A reload that returns leaves the cache as it was, or equal to the       *)
(* table; if it goes on, the two agree as far as they can.                 *)
LEMMA ReturnSettled ==
  ASSUME IInv, SInv, NEW p \in Procs, pc[p] \in Working, NEW ok \in BOOLEAN, Return(p, ok),
         UNCHANGED <<version, res>>, cache' \in {cache, res},
         ok \/ p = "watch" => (Consistent(Contents(res)) => cache' = res)
  PROVE  SInv'
<1>1. TypeOK /\ AloneInv /\ OrderInv /\ SettledInv
  BY DEF IInv, SInv
<1>2. p \in {"main", "watch"} /\ \A q \in Procs \ {p} : pc[q] \notin Working
  BY <1>1, OneWorks
<1>3. /\ \A q \in Procs \ {p} : pc'[q] = pc[q]
      /\ pc'[p] \in {"add", "exit"}
      /\ pc'[p] = "add" => ok \/ p = "watch"
  BY <1>1, <1>2 DEF Return, Goto, TypeOK
<1>4. AloneInv'
  BY <1>1, <1>2, <1>3 DEF AloneInv, Procs
<1>5. \A q \in Procs : pc'[q] \notin {"store", "set"}
  BY <1>2, <1>3 DEF Working
<1>6. OrderInv'
  <2>1. \A t \in Types : res[t].version <= res[t].version
    BY <1>1 DEF TypeOK
  <2> QED
    BY <2>1, <1>1, <1>5 DEF OrderInv
<1>7. SettledInv'
  <2>1. CASE p = "main"
    BY <2>1, <1>3, <1>5 DEF SettledInv, Procs
  <2>2. CASE p = "watch"
    BY <2>2, <1>5 DEF SettledInv
  <2> QED
    BY <2>1, <2>2, <1>2
<1> QED
  BY <1>4, <1>6, <1>7 DEF SInv

(* The table and the cache agree while the loop loads and creates. *)
LEMMA StillSettled ==
  ASSUME IInv, SInv, pc["watch"] \in {"load", "create"}, Consistent(Contents(res))
  PROVE  cache = res
BY OneWorks DEF SInv, SettledInv, Working, Procs

(* A load changes neither table nor cache.                                 *)
LEMMA LoadSettled ==
  ASSUME IInv, SInv, NEW p \in Procs, Load(p)
  PROVE  SInv'
<1>1. TypeOK /\ AloneInv /\ OrderInv /\ SettledInv
  BY DEF IInv, SInv
<1>2. pc[p] = "load" /\ pc[p] \in Working /\ UNCHANGED tabVars
  BY DEF Load, Working
<1>3. p \in {"main", "watch"}
  BY <1>1, <1>2, OneWorks
<1>4. CASE Return(p, FALSE)
  BY <1>2, <1>4, ReturnSettled, StillSettled DEF tabVars
<1>5. CASE Advance(p, "load", "create") /\ UNCHANGED <<job, made, snap>>
  <2>1. /\ pc'[p] \in {"load", "create"}
        /\ \A q \in Procs \ {p} : pc'[q] = pc[q] /\ at'[q] = at[q]
    BY <1>1, <1>2, <1>5, AdvanceShape DEF Working
  <2>2. AloneInv' /\ OrderInv'
    BY <1>1, <1>2, <1>3, <1>5, <2>1 DEF AloneInv, OrderInv, Cur, tabVars, Procs
  <2>3. SettledInv'
    BY <1>1, <1>2, <1>3, <1>5, <2>1 DEF SettledInv, tabVars, Procs
  <2> QED
    BY <2>2, <2>3 DEF SInv
<1> QED
  BY <1>4, <1>5 DEF Load

(* What create makes is newer than what the table holds. *)
LEMMA CreateSettled ==
  ASSUME IInv, SInv, NEW p \in Procs, Create(p)
  PROVE  SInv'
<1> DEFINE t == Cur(p)
           v == version[t] + 1
<1>1. TypeOK /\ AloneInv /\ OrderInv /\ SettledInv
  BY DEF IInv, SInv
<1>2. pc[p] = "create" /\ pc[p] \in Working /\ UNCHANGED <<res, cache>>
  BY DEF Create, Working
<1>3. p \in {"main", "watch"} /\ \A q \in Procs \ {p} : pc[q] \notin Working
  BY <1>1, <1>2, OneWorks
<1>4. t \in Types
  BY <1>1, <1>2, CurType
<1>5. CASE Return(p, FALSE) /\ UNCHANGED <<version, built>>
  BY <1>2, <1>5, ReturnSettled, StillSettled
<1>6. CASE /\ version' = [version EXCEPT ![t] = v]
           /\ made' = [made EXCEPT ![p][t] = [version |-> v, config |-> got[p][t]]]
           /\ Goto(p, "store", at[p])
           /\ UNCHANGED <<job, got, snap>>
  <2>1. /\ pc'[p] = "store" /\ at' = at /\ job' = job
        /\ \A q \in Procs \ {p} : pc'[q] = pc[q]
    BY <1>1, <1>6 DEF Goto, TypeOK
  <2>2. AloneInv'
    BY <1>1, <1>3, <2>1 DEF AloneInv, Procs
  <2>3. made'[p][t].version = v
    BY <1>1, <1>4, <1>6 DEF TypeOK
  <2>4. \A u \in Types : /\ version[u] \in Nat /\ res[u].version \in Nat
                         /\ version'[u] \in {version[u], version[u] + 1}
    BY <1>1, <1>4, <1>6 DEF TypeOK
  <2>5. OrderInv'
    <3>1. \A u \in Types : res'[u].version <= version'[u]
      BY <1>1, <1>2, <2>4 DEF OrderInv
    <3>2. v >= res[t].version
      BY <1>1, <1>4, <2>4 DEF OrderInv
    <3>3. \A q \in Procs : pc'[q] = "store" => q = p
      BY <1>3, <2>1 DEF Working
    <3>4. Cur(p)' = t
      BY <2>1 DEF Cur
    <3>5. \A q \in Procs : pc'[q] = "store" => made'[q][Cur(q)'].version >= res'[Cur(q)'].version
      BY <1>2, <2>3, <3>2, <3>3, <3>4
    <3> QED
      BY <1>1, <1>2, <3>1, <3>5 DEF OrderInv
  <2>6. SettledInv'
    BY <1>1, <1>2, <1>3, <1>6, <2>1 DEF SettledInv, Procs
  <2> QED
    BY <2>2, <2>5, <2>6 DEF SInv
<1> QED
  BY <1>5, <1>6 DEF Create

(* A store never lowers a version of the table. *)
LEMMA StoreSettled ==
  ASSUME IInv, SInv, NEW p \in Procs, Store(p)
  PROVE  SInv'
<1> DEFINE t == Cur(p)
<1>1. TypeOK /\ ControlInv /\ LocalInv /\ BuiltInv /\ AloneInv /\ OrderInv /\ SettledInv
  BY DEF IInv, SInv
<1>2. /\ pc[p] = "store" /\ pc[p] \in Working
      /\ res' = [res EXCEPT ![t] = made[p][t]]
      /\ Advance(p, "create", "snapshot")
      /\ UNCHANGED <<version, cache, job, made, snap>>
  BY DEF Store, Working
<1>3. p \in {"main", "watch"} /\ \A q \in Procs \ {p} : pc[q] \notin Working
  BY <1>1, <1>2, OneWorks
<1>4. /\ t \in Types /\ at[p] \in Nat /\ 1 <= at[p] /\ at[p] <= Len(job[p])
      /\ Len(job[p]) \in Nat
  BY <1>1, <1>2, CurType
<1>5. /\ \/ at[p] < Len(job[p]) /\ pc'[p] = "create"
         \/ at[p] = Len(job[p]) /\ pc'[p] = "snapshot"
      /\ \A q \in Procs \ {p} : pc'[q] = pc[q]
  BY <1>1, <1>2, AdvanceShape DEF Working
<1>6. made[p][t] # Nil /\ made[p][t] \in Resource
  BY <1>1, <1>2, <1>4 DEF LocalInv, TypeOK
<1>7. made[p][t].version <= version[t]
  <2>1. Rec(t, made[p][t]) \in built
    BY <1>1, <1>4, <1>6 DEF BuiltInv
  <2> QED
    BY <2>1, <1>1 DEF BuiltInv, Rec
<1>8. /\ res'[t] = made[p][t]
      /\ \A u \in Types \ {t} : res'[u] = res[u]
  BY <1>1, <1>2, <1>4 DEF TypeOK
<1>9. AloneInv'
  BY <1>1, <1>3, <1>5 DEF AloneInv, Procs
<1>10. OrderInv'
  <2>1. \A u \in Types : res'[u].version <= version'[u]
    BY <1>1, <1>2, <1>7, <1>8 DEF OrderInv
  <2>2. \A q \in Procs : pc'[q] # "store"
    BY <1>3, <1>5 DEF Working
  <2>3. \A u \in Types : res[u].version \in Nat /\ res'[u].version \in Nat
    BY <1>1, <1>6, <1>8 DEF TypeOK, Resource
  <2>4. \A u \in Types : res[u].version <= res'[u].version
    BY <1>1, <1>2, <1>8, <2>3 DEF OrderInv
  <2>5. cache # Nil => \A u \in Types : cache[u].version \in Nat
    BY <1>1 DEF TypeOK, Snapshot, Resource
  <2>6. cache' # Nil => \A u \in Types : cache'[u].version <= res'[u].version
    BY <1>1, <1>2, <2>3, <2>4, <2>5 DEF OrderInv
  <2> QED
    BY <2>1, <2>2, <2>6 DEF OrderInv
<1>11. SettledInv'
  <2>1. \A q \in Procs : pc'[q] # "set"
    BY <1>3, <1>5 DEF Working
  <2>2. p = "main" => pc'["main"] \notin {"add", "up"}
    BY <1>5
  <2>3. CASE p = "watch"
    <3>1. Len(job[p]) = 1
      BY <2>3, <1>1, <1>2 DEF ControlInv
    <3> QED
      BY <3>1, <2>1, <2>3, <1>4, <1>5 DEF SettledInv
  <2> QED
    BY <2>1, <2>2, <2>3, <1>3 DEF SettledInv
<1> QED
  BY <1>9, <1>10, <1>11 DEF SInv

(* Nobody changes the table between the copy and the call of the cache. *)
LEMMA TakeSnapshotSettled ==
  ASSUME IInv, SInv, NEW p \in Procs, TakeSnapshot(p)
  PROVE  SInv'
<1>1. TypeOK /\ AloneInv /\ OrderInv /\ SettledInv
  BY DEF IInv, SInv
<1>2. pc[p] = "snapshot" /\ pc[p] \in Working /\ UNCHANGED tabVars
  BY DEF TakeSnapshot, Working
<1>3. p \in {"main", "watch"} /\ \A q \in Procs \ {p} : pc[q] \notin Working
  BY <1>1, <1>2, OneWorks
<1>4. CASE ~ Consistent(Contents(res)) /\ Return(p, FALSE)
  BY <1>2, <1>4, ReturnSettled DEF tabVars
<1>5. CASE /\ snap' = [snap EXCEPT ![p] = res]
           /\ Goto(p, "set", 1)
           /\ UNCHANGED <<job, got, made>>
  <2>1. /\ pc'[p] = "set" /\ snap'[p] = res
        /\ \A q \in Procs \ {p} : pc'[q] = pc[q]
    BY <1>1, <1>5 DEF Goto, TypeOK
  <2>2. \A q \in Procs : pc'[q] # "store" /\ (pc'[q] = "set" => q = p)
    BY <1>3, <2>1 DEF Working
  <2>3. AloneInv' /\ OrderInv'
    BY <1>1, <1>2, <1>3, <2>1, <2>2 DEF AloneInv, OrderInv, tabVars, Procs
  <2>4. SettledInv'
    BY <1>2, <1>3, <2>1, <2>2 DEF SettledInv, tabVars
  <2> QED
    BY <2>3, <2>4 DEF SInv
<1> QED
  BY <1>4, <1>5 DEF TakeSnapshot

(* The cache gets what the table has.                                      *)
LEMMA SetSnapshotSettled ==
  ASSUME IInv, SInv, NEW p \in Procs, SetSnapshot(p)
  PROVE  SInv' /\ cache' = res
<1>1. pc[p] = "set" /\ pc[p] \in Working
  BY DEF SetSnapshot, Working
<1>2. cache' = res
  BY <1>1 DEF SetSnapshot, SInv, SettledInv
<1>3. Return(p, TRUE) /\ UNCHANGED <<version, res>>
  BY DEF SetSnapshot
<1> QED
  BY <1>1, <1>2, <1>3, ReturnSettled

(* A step outside the reloads changes nothing that the invariant relates.  *)
LEMMA OuterSettled ==
  ASSUME IInv, SInv, UNCHANGED <<version, res, cache, made, snap>>, AloneInv',
         \A p \in Procs : pc'[p] \in {"store", "set"} => pc[p] = pc'[p] /\ Cur(p)' = Cur(p),
         /\ pc'["main"] \in {"add", "up"} /\ pc'["watch"] \notin {"snapshot", "set"}
         => pc["main"] \in {"add", "up"} /\ pc["watch"] \notin {"snapshot", "set"}
  PROVE  SInv'
<1>1. OrderInv'
  BY DEF SInv, OrderInv
<1>2. SettledInv'
  BY DEF SInv, SettledInv
<1> QED
  BY <1>1, <1>2 DEF SInv

LEMMA OuterStepsSettled ==
  ASSUME hups' = 0, IInv, SInv, Watch \/ Receive \/ ReAdd \/ Hup \/ Operator \/ UNCHANGED vars
  PROVE  SInv' /\ cache' = cache
<1>1. TypeOK /\ ControlInv /\ AloneInv
  BY DEF IInv, SInv
<1>2. CASE Watch
  <2>1. UNCHANGED <<version, res, cache, made, snap, job>> /\ pc["main"] = "add"
    BY <1>2 DEF Watch, tabVars
  <2>2. pc["watch"] = "off" /\ pc["signal"] = "off"
    BY <2>1, <1>1 DEF ControlInv
  <2>3. /\ pc'["main"] \in {"add", "up", "exit"}
        /\ pc'["watch"] \in {"off", "idle"} /\ pc'["signal"] \in {"off", "idle"}
    BY <1>1, <1>2, <2>2 DEF Watch, Goto, TypeOK, Procs
  <2> QED
    BY <2>1, <2>2, <2>3, OuterSettled DEF AloneInv, Procs
<1>3. CASE Receive \/ ReAdd
  <2>1. /\ UNCHANGED <<version, res, cache, made, snap>> /\ pc["watch"] \in {"idle", "add"}
        /\ pc' = [pc EXCEPT !["watch"] = pc'["watch"]]
        /\ pc'["watch"] \in {"load", "add", "idle", "dead"}
        /\ at' = [at EXCEPT !["watch"] = 1]
        /\ \A p \in Procs \ {"watch"} : job'[p] = job[p]
    BY <1>1, <1>3 DEF Receive, ReAdd, Goto, TypeOK, tabVars, Procs
  <2>2. /\ pc'["main"] = pc["main"] /\ pc'["signal"] = pc["signal"]
        /\ at'["main"] = at["main"] /\ job'["main"] = job["main"]
    BY <2>1, <1>1 DEF TypeOK, Procs
  <2>3. AloneInv'
    BY <2>2, <1>1 DEF AloneInv
  <2>4. \A p \in Procs : pc'[p] \in {"store", "set"} => pc[p] = pc'[p] /\ Cur(p)' = Cur(p)
    BY <2>1, <2>2, <1>1 DEF AloneInv, Cur, Procs
  <2> QED
    BY <2>1, <2>2, <2>3, <2>4, OuterSettled
<1>4. CASE Hup
  BY <1>1, <1>4 DEF Hup, TypeOK
<1>5. CASE Operator \/ UNCHANGED vars
  <2>1. UNCHANGED <<tabVars, locVars>>
    BY <1>5 DEF Operator, BeginWrite, EndWrite, Replace, Over, Delete, Chmod, Edit, vars,
                tabVars, locVars
  <2> QED
    BY <2>1, <1>1, OuterSettled DEF AloneInv, Cur, tabVars, locVars
<1> QED
  BY <1>2, <1>3, <1>4, <1>5

-----------------------------------------------------------------------------
LEMMA SNextInv ==
  ASSUME hups' = 0, IInv, SInv, [Next]_vars
  PROVE  SInv' /\ (cache' # cache => cache' = res)
<1>1. ASSUME NEW p \in Procs, Load(p) \/ Create(p) \/ Store(p) \/ TakeSnapshot(p)
      PROVE  SInv' /\ cache' = cache
  BY <1>1, LoadSettled, CreateSettled, StoreSettled, TakeSnapshotSettled
     DEF Load, Create, Store, TakeSnapshot, tabVars
<1>2. ASSUME NEW p \in Procs, SetSnapshot(p)
      PROVE  SInv' /\ cache' = res
  BY <1>2, SetSnapshotSettled
<1>3. CASE Watch \/ Receive \/ ReAdd \/ Hup \/ Operator \/ UNCHANGED vars
  BY <1>3, OuterStepsSettled
<1> QED
  BY <1>1, <1>2, <1>3 DEF Next, Step

(* Nothing but watchSignal counts SIGHUPs, and there is a bound to them.   *)
LEMMA HupsStep ==
  ASSUME TypeOK, [Next]_vars
  PROVE  /\ hups' = 0 => hups = 0
         /\ hups <= MaxHups => hups' <= MaxHups
<1>1. hups \in Nat /\ MaxHups \in Nat
  BY WatchFileAssumption DEF TypeOK
<1>2. CASE Hup
  BY <1>1, <1>2 DEF Hup
<1>3. CASE hups' = hups
  BY <1>3
<1>4. Next => Hup \/ hups' = hups
  BY DEF Next, Step, Load, Create, Store, TakeSnapshot, SetSnapshot, Watch, Receive, ReAdd,
         Operator, BeginWrite, EndWrite, Replace, Over, Delete, Chmod, Edit
<1> QED
  BY <1>2, <1>3, <1>4 DEF vars

(* Until a SIGHUP is taken, reloads follow each other: the cache is behind *)
(* the table by what one goroutine is about to publish, and no more.       *)
THEOREM OneReloaderInvariance == Spec => [](IInv /\ (hups = 0 => SInv))
<1>1. Init => IInv /\ SInv
  BY InitInv, SInitInv
<1>2. IInv /\ (hups = 0 => SInv) /\ [Next]_vars => IInv' /\ (hups = 0 => SInv)'
  BY NextInv, SNextInv, HupsStep DEF IInv
<1> QED
  BY <1>1, <1>2, PTL DEF Spec

(* Between two events the cache serves exactly the table, unless the table *)
(* waits for a file that agrees with it (updateSnapshot at the end of      *)
(* every changeXxxYaml), for any edits of any files in any number.         *)
THEOREM IdleServes == Spec => [](hups = 0 => IdleServesTable)
<1>1. ASSUME IInv, SInv PROVE IdleServesTable
  <2> SUFFICES ASSUME pc["watch"] = "idle", Consistent(Contents(res)) PROVE cache = res
    BY DEF IdleServesTable
  <2>1. pc["main"] = "up"
    BY <1>1 DEF IInv, ControlInv
  <2> QED
    BY <2>1, <1>1 DEF SInv, SettledInv
<1> QED
  BY <1>1, OneReloaderInvariance, PTL

(* Envoy is never offered an older version of a type after a newer one, if *)
(* nobody sends a SIGHUP.                                                  *)
THEOREM NoRegression ==
  ASSUME MaxHups = 0
  PROVE  Spec => ServedNeverRegresses
<1> DEFINE Forward == cache # Nil => \A t \in Types : cache'[t].version >= cache[t].version
           NoHup == hups = 0
<1>1. ASSUME IInv, SInv, NoHup', [Next]_vars PROVE [Forward]_cache
  <2> SUFFICES ASSUME cache' # cache, cache # Nil, NEW t \in Types
               PROVE  cache'[t].version >= cache[t].version
    OBVIOUS
  <2>1. cache' = res
    BY <1>1, SNextInv
  <2>2. cache[t].version <= res[t].version
    BY <1>1 DEF SInv, OrderInv
  <2>3. cache[t].version \in Nat /\ res[t].version \in Nat
    BY <1>1 DEF IInv, TypeOK, Snapshot, Resource
  <2> QED
    BY <2>1, <2>2, <2>3
<1>2. Init => NoHup
  BY DEF Init
<1>3. IInv /\ NoHup /\ [Next]_vars => NoHup'
  <2> SUFFICES ASSUME IInv, hups = 0, [Next]_vars PROVE hups' = 0
    OBVIOUS
  <2>1. hups <= MaxHups
    OBVIOUS
  <2>2. TypeOK
    BY DEF IInv
  <2>3. hups' <= MaxHups
    BY <2>1, <2>2, HupsStep
  <2>4. IInv'
    BY NextInv
  <2>5. hups' \in Nat
    BY <2>4 DEF IInv, TypeOK
  <2> QED
    BY <2>3, <2>5
<1>4. (hups = 0 => SInv) <=> (NoHup => SInv)
  OBVIOUS
<1> HIDE DEF NoHup
<1> QED
  BY <1>1, <1>2, <1>3, <1>4, OneReloaderInvariance, PTL DEF Spec, ServedNeverRegresses
-----------------------------------------------------------------------------
(* What the loop does about an edit.  An event that makes it load the file *)
(* is queued, ...                                                          *)
Due(t) == \E n \in DOMAIN events : events[n].file = t /\ events[n].op # "chmod"

(* ... or the file is one that no reload takes, ...                        *)
Unusable(t) == Loaded(file[t]) = Nil \/ file[t] \in Unbuildable

(* ... or a reload that has yet to store the type holds the content of the *)
(* file or has yet to read it, ...                                         *)
ToStore(p) ==
  CASE pc[p] = "load" -> 1 .. Len(job[p])
    [] pc[p] \in {"create", "store"} -> at[p] .. Len(job[p])
    [] OTHER -> {}

AsRead(p, i) ==
  \/ pc[p] = "load" /\ (i >= at[p] \/ got[p][job[p][i]] = file[job[p][i]])
  \/ pc[p] = "create" /\ got[p][job[p][i]] = file[job[p][i]]
  \/ pc[p] = "store" /\ i > at[p] /\ got[p][job[p][i]] = file[job[p][i]]
  \/ pc[p] = "store" /\ i = at[p] /\ made[p][job[p][i]].config = file[job[p][i]]

OnItsWay(p, t) == \E i \in ToStore(p) : job[p][i] = t /\ AsRead(p, i)

(* ... or the table has it and no reload is about to overwrite it.         *)
Stored(p, t) == res[t].config = file[t] /\ \A i \in ToStore(p) : job[p][i] # t

Followed(t) ==
  \/ Due(t)
  \/ Unusable(t)
  \/ \E p \in Procs : OnItsWay(p, t)
  \/ \A p \in Procs : Stored(p, t)

FollowInv == pc["main"] # "exit" => \A t \in Types \ missed : Followed(t)

(* Only the goroutine that works stores anything. *)
LEMMA OneStores ==
  ASSUME IInv, AloneInv, NEW p \in Procs, pc[p] \in Working
  PROVE  \A q \in Procs \ {p} : ToStore(q) = {}
BY OneWorks DEF ToStore, Working

(* Only the goroutine that works can have a type on its way.               *)
LEMMA FollowedBy ==
  ASSUME IInv, AloneInv, FollowInv, NEW p \in Procs, pc[p] \in Working,
         NEW t \in Types \ missed
  PROVE  Due(t) \/ Unusable(t) \/ OnItsWay(p, t) \/ Stored(p, t)
<1>1. \A q \in Procs \ {p} : ToStore(q) = {}
  BY OneStores
<1>2. pc["main"] # "exit"
  BY OneWorks DEF Working
<1>3. CASE \E q \in Procs : OnItsWay(q, t)
  BY <1>1, <1>3 DEF OnItsWay
<1> QED
  BY <1>2, <1>3 DEF FollowInv, Followed

(* What the loop works on is one type. *)
LEMMA LoopHasOne ==
  ASSUME IInv, pc["watch"] \in Working
  PROVE  Len(job["watch"]) = 1 /\ at["watch"] = 1
<1>1. TypeOK /\ ControlInv /\ "watch" \in Procs
  BY DEF IInv, Procs
<1>2. Len(job["watch"]) = 1
  BY <1>1 DEF ControlInv
<1> QED
  BY <1>1, <1>2, CurType

(* A step of the goroutine that works follows the files if the types that  *)
(* it is about are followed by it.                                         *)
LEMMA StepFollows ==
  ASSUME IInv, AloneInv, NEW p \in Procs, pc[p] \in Working,
         \A q \in Procs \ {p} : pc'[q] = pc[q], UNCHANGED <<file, events>>,
         pc'["main"] # "exit" =>
           \A t \in Types \ missed' : Due(t) \/ Unusable(t) \/ OnItsWay(p, t)' \/ Stored(p, t)'
  PROVE  FollowInv'
<1> SUFFICES ASSUME pc'["main"] # "exit", NEW t \in Types \ missed' PROVE Followed(t)'
  BY DEF FollowInv
<1>1. \A q \in Procs \ {p} : ToStore(q)' = {}
  BY OneWorks DEF ToStore, Working
<1>2. Due(t) => Due(t)'
  BY DEF Due
<1>3. Unusable(t) => Unusable(t)'
  BY DEF Unusable
<1>4. ASSUME Stored(p, t)' PROVE \A q \in Procs : Stored(q, t)'
  BY <1>1, <1>4 DEF Stored
<1> QED
  BY <1>2, <1>3, <1>4 DEF Followed

(* A reload that returns has nothing left to store. *)
LEMMA ReturnFollows ==
  ASSUME IInv, AloneInv, NEW p \in Procs, pc[p] \in Working, NEW ok \in BOOLEAN, Return(p, ok),
         UNCHANGED <<file, events, res>>,
         ok \/ p = "watch" =>
           \A t \in Types \ missed' : Due(t) \/ Unusable(t) \/ res[t].config = file[t]
  PROVE  FollowInv'
<1>1. TypeOK
  BY DEF IInv
<1>2. p \in {"main", "watch"}
  BY OneWorks
<1>3. /\ \A q \in Procs \ {p} : pc'[q] = pc[q]
      /\ pc'[p] \in {"add", "exit"}
      /\ p = "main" /\ ~ ok => pc'["main"] = "exit"
  BY <1>1, <1>2 DEF Return, Goto, TypeOK
<1>4. ToStore(p)' = {}
  BY <1>3 DEF ToStore
<1>5. ASSUME NEW t \in Types, res[t].config = file[t] PROVE Stored(p, t)'
  BY <1>4, <1>5 DEF Stored
<1> QED
  BY <1>2, <1>3, <1>5, StepFollows

(* What is read is what the file has, and a file that is not taken is      *)
(* unusable.                                                               *)
LEMMA LoadFollows ==
  ASSUME IInv, AloneInv, FollowInv, NEW p \in Procs, Load(p)
  PROVE  FollowInv'
<1>1. TypeOK /\ pc[p] \in Working
  BY DEF IInv, Load, Working
<1>2. PICK c \in Types : c = Cur(p)
  BY <1>1, CurType
<1>3. /\ pc[p] = "load" /\ pc[p] \in Working
      /\ UNCHANGED <<file, events, res>> /\ missed' = missed \ {c}
  BY <1>2 DEF Load, Working, osVars, tabVars
<1>4. ToStore(p) = 1 .. Len(job[p])
  BY <1>3 DEF ToStore
<1>5. CASE Loaded(file[c]) = Nil /\ Return(p, FALSE)
  <2>1. ASSUME p = "watch", NEW t \in Types \ missed'
        PROVE  Due(t) \/ Unusable(t) \/ res[t].config = file[t]
    <3>1. CASE t = c
      BY <3>1, <1>5 DEF Unusable
    <3>2. CASE t # c
      <4>1. ~ OnItsWay(p, t)
        BY <2>1, <3>2, <1>2, <1>3, <1>4, LoopHasOne DEF OnItsWay, Cur
      <4> QED
        BY <4>1, <2>1, <3>2, <1>3, FollowedBy DEF Stored
    <3> QED
      BY <3>1, <3>2
  <2> QED
    BY <2>1, <1>3, <1>5, ReturnFollows
<1>6. CASE /\ got' = [got EXCEPT ![p][c] = file[c]]
           /\ Advance(p, "load", "create")
           /\ UNCHANGED <<job, made, snap>>
  <2>1. /\ \/ at[p] < Len(job[p]) /\ pc'[p] = "load" /\ at'[p] = at[p] + 1
           \/ at[p] = Len(job[p]) /\ pc'[p] = "create" /\ at'[p] = 1
        /\ \A q \in Procs \ {p} : pc'[q] = pc[q]
    BY <1>1, <1>3, <1>6, AdvanceShape DEF Working
  <2>2. /\ at[p] \in 1 .. Len(job[p]) /\ Len(job[p]) \in Nat
        /\ \A i \in 1 .. Len(job[p]) : job[p][i] \in Types
    BY <1>1, <1>3, CurType
  <2>3. ToStore(p)' = 1 .. Len(job[p])
    <3>1. CASE pc'[p] = "load"
      BY <3>1, <1>6 DEF ToStore
    <3>2. CASE pc'[p] = "create" /\ at'[p] = 1
      BY <3>2, <1>6 DEF ToStore
    <3> QED
      BY <3>1, <3>2, <2>1
  <2>4. /\ got'[p][c] = file[c]
        /\ \A t \in Types \ {c} : got'[p][t] = got[p][t]
    BY <1>1, <1>2, <1>6 DEF TypeOK
  <2>5. ASSUME NEW i \in 1 .. Len(job[p]), i = at[p] \/ AsRead(p, i) PROVE AsRead(p, i)'
    <3>1. i < at[p] \/ i = at[p] => got'[p][job[p][i]] = file[job[p][i]]
      BY <2>5, <2>2, <2>4, <1>2, <1>3 DEF AsRead, Cur
    <3>2. i > at[p] => i >= at[p] + 1
      BY <2>2
    <3>3. CASE pc'[p] = "load" /\ at'[p] = at[p] + 1
      BY <3>1, <3>2, <3>3, <2>2, <1>3, <1>6 DEF AsRead
    <3>4. CASE at[p] = Len(job[p]) /\ pc'[p] = "create"
      BY <3>1, <3>4, <2>2, <1>3, <1>6 DEF AsRead
    <3> QED
      BY <3>3, <3>4, <2>1
  <2>6. OnItsWay(p, c)'
    BY <2>2, <2>3, <2>5, <1>2, <1>6 DEF OnItsWay, Cur
  <2>7. ASSUME NEW t \in Types \ missed', t # c
        PROVE  Due(t) \/ Unusable(t) \/ OnItsWay(p, t)' \/ Stored(p, t)'
    <3>1. CASE OnItsWay(p, t)
      BY <3>1, <2>3, <2>5, <1>4, <1>6 DEF OnItsWay
    <3>2. CASE Stored(p, t)
      BY <3>2, <2>3, <1>3, <1>4, <1>6 DEF Stored
    <3> QED
      BY <3>1, <3>2, <2>7, <1>3, FollowedBy
  <2> QED
    BY <2>1, <2>6, <2>7, <1>3, StepFollows
<1> QED
  BY <1>2, <1>5, <1>6 DEF Load

(* create hands on what was read, or fails because of it.                  *)
LEMMA CreateFollows ==
  ASSUME IInv, AloneInv, FollowInv, NEW p \in Procs, Create(p)
  PROVE  FollowInv'
<1> DEFINE c == Cur(p)
<1>1. TypeOK
  BY DEF IInv
<1>2. /\ pc[p] = "create" /\ pc[p] \in Working
      /\ UNCHANGED <<file, events, res, missed>>
  BY DEF Create, Working, osVars
<1>3. /\ c \in Types
      /\ at[p] \in 1 .. Len(job[p]) /\ Len(job[p]) \in Nat
      /\ \A i \in 1 .. Len(job[p]) : job[p][i] \in Types
  BY <1>1, <1>2, CurType
<1>4. ToStore(p) = at[p] .. Len(job[p])
  BY <1>2 DEF ToStore
<1>5. CASE got[p][c] \in Unbuildable /\ Return(p, FALSE)
  <2>1. ASSUME p = "watch", NEW t \in Types \ missed'
        PROVE  Due(t) \/ Unusable(t) \/ res[t].config = file[t]
    <3>1. OnItsWay(p, t) => Unusable(t)
      BY <2>1, <1>2, <1>4, <1>5, LoopHasOne DEF OnItsWay, AsRead, Unusable, Cur
    <3> QED
      BY <3>1, <2>1, <1>2, FollowedBy DEF Stored
  <2> QED
    BY <2>1, <1>2, <1>5, ReturnFollows
<1>6. CASE /\ made' = [made EXCEPT ![p][c] = [version |-> version[c] + 1, config |-> got[p][c]]]
           /\ Goto(p, "store", at[p])
           /\ UNCHANGED <<job, got, snap>>
  <2>1. /\ pc'[p] = "store" /\ at'[p] = at[p]
        /\ \A q \in Procs \ {p} : pc'[q] = pc[q]
    BY <1>1, <1>6 DEF Goto, TypeOK
  <2>2. ToStore(p)' = at[p] .. Len(job[p])
    BY <2>1, <1>6 DEF ToStore
  <2>3. made'[p][c].config = got[p][c]
    BY <1>1, <1>3, <1>6 DEF TypeOK
  <2>4. ASSUME NEW i \in at[p] .. Len(job[p]), AsRead(p, i) PROVE AsRead(p, i)'
    <3>1. i = at[p] \/ i > at[p]
      BY <1>3
    <3>2. got[p][job[p][i]] = file[job[p][i]]
      BY <2>4, <1>2 DEF AsRead
    <3>3. CASE i = at[p]
      BY <3>2, <3>3, <2>1, <2>3, <1>2, <1>6 DEF AsRead, Cur
    <3>4. CASE i > at[p]
      BY <3>2, <3>4, <2>1, <1>2, <1>6 DEF AsRead
    <3> QED
      BY <3>1, <3>3, <3>4
  <2>5. ASSUME NEW t \in Types \ missed'
        PROVE  Due(t) \/ Unusable(t) \/ OnItsWay(p, t)' \/ Stored(p, t)'
    <3>1. CASE OnItsWay(p, t)
      BY <3>1, <2>2, <2>4, <1>4, <1>6 DEF OnItsWay
    <3>2. CASE Stored(p, t)
      BY <3>2, <2>2, <1>2, <1>4, <1>6 DEF Stored
    <3> QED
      BY <3>1, <3>2, <2>5, <1>2, FollowedBy
  <2> QED
    BY <2>1, <2>5, <1>2, StepFollows
<1> QED
  BY <1>5, <1>6 DEF Create

(* What is stored leaves the way and enters the table.                     *)
LEMMA StoreFollows ==
  ASSUME IInv, AloneInv, FollowInv, NEW p \in Procs, Store(p)
  PROVE  FollowInv'
<1> DEFINE c == Cur(p)
<1>1. TypeOK
  BY DEF IInv
<1>2. /\ pc[p] = "store" /\ pc[p] \in Working
      /\ res' = [res EXCEPT ![c] = made[p][c]]
      /\ Advance(p, "create", "snapshot")
      /\ UNCHANGED <<file, events, missed, job, got, made>>
  BY DEF Store, Working, osVars
<1>3. /\ c \in Types /\ job[p] \in Jobs
      /\ at[p] \in 1 .. Len(job[p]) /\ Len(job[p]) \in Nat
  BY <1>1, <1>2, CurType
<1>4. \A i, j \in 1 .. Len(job[p]) : job[p][i] = job[p][j] => i = j
  <2>1. CASE job[p] = ReloadOrder
    BY <2>1 DEF ReloadOrder
  <2>2. CASE job[p] = WatchOrder
    BY <2>2 DEF WatchOrder
  <2>3. CASE Len(job[p]) = 1
    BY <2>3
  <2>4. job[p] \in {ReloadOrder, WatchOrder} \/ Len(job[p]) = 1
    BY <1>3 DEF Jobs
  <2> QED
    BY <2>1, <2>2, <2>3, <2>4
<1>5. ToStore(p) = at[p] .. Len(job[p])
  BY <1>2 DEF ToStore
<1>6. /\ \/ at[p] < Len(job[p]) /\ pc'[p] = "create" /\ at'[p] = at[p] + 1
         \/ at[p] = Len(job[p]) /\ pc'[p] = "snapshot" /\ at'[p] = 1
      /\ \A q \in Procs \ {p} : pc'[q] = pc[q]
  BY <1>1, <1>2, AdvanceShape DEF Working
<1>7. ToStore(p)' = (at[p] + 1) .. Len(job[p])
  BY <1>2, <1>3, <1>6 DEF ToStore
<1>8. /\ res'[c] = made[p][c]
      /\ \A t \in Types \ {c} : res'[t] = res[t]
  BY <1>1, <1>2, <1>3 DEF TypeOK
<1>9. ASSUME NEW t \in Types \ missed'
      PROVE  Due(t) \/ Unusable(t) \/ OnItsWay(p, t)' \/ Stored(p, t)'
  <2>1. CASE OnItsWay(p, t)
    <3>1. PICK i \in at[p] .. Len(job[p]) : job[p][i] = t /\ AsRead(p, i)
      BY <2>1, <1>5 DEF OnItsWay
    <3>2. CASE i = at[p]
      <4>1. t = c /\ made[p][c].config = file[c]
        BY <3>1, <3>2, <1>2 DEF AsRead, Cur
      <4>2. \A k \in (at[p] + 1) .. Len(job[p]) : job[p][k] # t
        BY <3>1, <3>2, <1>3, <1>4
      <4> QED
        BY <4>1, <4>2, <1>2, <1>7, <1>8 DEF Stored
    <3>3. CASE i > at[p]
      <4>1. i \in (at[p] + 1) .. Len(job[p]) /\ at[p] < Len(job[p])
        BY <3>1, <3>3, <1>3
      <4>2. got[p][t] = file[t]
        BY <3>1, <3>3, <1>2 DEF AsRead
      <4> QED
        BY <4>1, <4>2, <3>1, <1>2, <1>6, <1>7 DEF OnItsWay, AsRead
    <3> QED
      BY <3>1, <3>2, <3>3, <1>3
  <2>2. CASE Stored(p, t)
    <3>1. t # c
      BY <2>2, <1>3, <1>5 DEF Stored, Cur
    <3>2. \A k \in (at[p] + 1) .. Len(job[p]) : k \in at[p] .. Len(job[p])
      BY <1>3
    <3> QED
      BY <2>2, <3>1, <3>2, <1>2, <1>5, <1>7, <1>8 DEF Stored
  <2> QED
    BY <2>1, <2>2, <1>9, <1>2, FollowedBy
<1> QED
  BY <1>2, <1>6, <1>9, StepFollows

(* The snapshot has what was stored, whether it is published or not.       *)
LEMMA SnapshotFollows ==
  ASSUME IInv, AloneInv, FollowInv, NEW p \in Procs, TakeSnapshot(p) \/ SetSnapshot(p)
  PROVE  FollowInv'
<1>1. TypeOK
  BY DEF IInv
<1>2. /\ pc[p] \in {"snapshot", "set"} /\ pc[p] \in Working
      /\ UNCHANGED <<file, events, res, missed>>
  BY DEF TakeSnapshot, SetSnapshot, Working, osVars, tabVars
<1>3. ToStore(p) = {}
  BY <1>2 DEF ToStore
<1>4. ASSUME NEW t \in Types \ missed'
      PROVE  Due(t) \/ Unusable(t) \/ res[t].config = file[t]
  BY <1>2, <1>3, <1>4, FollowedBy DEF OnItsWay, Stored
<1>5. CASE \E ok \in BOOLEAN : Return(p, ok)
  BY <1>2, <1>4, <1>5, ReturnFollows
<1>6. CASE Goto(p, "set", 1)
  <2>1. pc'[p] = "set" /\ \A q \in Procs \ {p} : pc'[q] = pc[q]
    BY <1>1, <1>6 DEF Goto, TypeOK
  <2>2. ToStore(p)' = {}
    BY <2>1 DEF ToStore
  <2>3. \A t \in Types : res[t].config = file[t] => Stored(p, t)'
    BY <2>2, <1>2 DEF Stored
  <2> QED
    BY <2>1, <2>3, <1>2, <1>4, StepFollows
<1> QED
  BY <1>5, <1>6 DEF TakeSnapshot, SetSnapshot

(* An event that makes the loop load its file puts that file on its way.   *)
LEMMA ReceiveFollows ==
  ASSUME IInv, AloneInv, FollowInv, Receive
  PROVE  FollowInv'
<1>1. TypeOK /\ pc["watch"] = "idle" /\ events # <<>>
  BY DEF IInv, Receive
<1>2. PICK e \in Event : e = Head(events)
  BY <1>1 DEF TypeOK
<1>3. /\ UNCHANGED <<file, res, missed, got, made>>
      /\ events' = Tail(events)
      /\ job' = [job EXCEPT !["watch"] = <<e.file>>]
      /\ Goto("watch", IF e.op = "chmod" THEN "add" ELSE "load", 1)
  BY <1>2 DEF Receive, osVars, tabVars
<1>4. pc["main"] = "up" /\ pc["signal"] \in {"off", "idle"}
  BY <1>1 DEF IInv, ControlInv, AloneInv
<1>5. /\ pc' = [pc EXCEPT !["watch"] = IF e.op = "chmod" THEN "add" ELSE "load"]
      /\ at' = [at EXCEPT !["watch"] = 1]
  BY <1>3 DEF Goto
<1>6. /\ pc'["main"] = "up" /\ pc'["signal"] = pc["signal"]
      /\ pc'["watch"] = IF e.op = "chmod" THEN "add" ELSE "load"
      /\ at'["watch"] = 1 /\ job'["watch"] = <<e.file>>
  BY <1>1, <1>3, <1>4, <1>5 DEF TypeOK, Procs
<1>7. \A q \in Procs : ToStore(q) = {}
  BY <1>1, <1>4 DEF ToStore, Procs
<1>8. /\ ToStore("main")' = {} /\ ToStore("signal")' = {}
      /\ e.op = "chmod" => ToStore("watch")' = {}
      /\ e.op # "chmod" => ToStore("watch")' = {1}
  <2>1. Len(job'["watch"]) = 1
    BY <1>6
  <2>2. 1 .. 1 = {1}
    OBVIOUS
  <2> QED
    BY <2>1, <2>2, <1>4, <1>6 DEF ToStore
<1> SUFFICES ASSUME NEW t \in Types \ missed PROVE Followed(t)'
  BY <1>3 DEF FollowInv
<1>9. CASE e.op # "chmod" /\ e.file = t
  <2>1. AsRead("watch", 1)' /\ job'["watch"][1] = t
    BY <1>6, <1>9 DEF AsRead
  <2>2. OnItsWay("watch", t)'
    BY <2>1, <1>8, <1>9 DEF OnItsWay
  <2> QED
    BY <2>2 DEF Followed, Procs
<1>10. CASE e.op = "chmod" \/ e.file # t
  <2>1. CASE Due(t)
    <3>1. PICK n \in DOMAIN events : events[n].file = t /\ events[n].op # "chmod"
      BY <2>1 DEF Due
    <3>2. n # 1
      BY <3>1, <1>1, <1>2, <1>10 DEF TypeOK
    <3>3. n - 1 \in DOMAIN events' /\ events'[n - 1] = events[n]
      BY <3>1, <3>2, <1>1, <1>3 DEF TypeOK
    <3>4. Due(t)'
      BY <3>1, <3>3 DEF Due
    <3> QED
      BY <3>4 DEF Followed
  <2>2. CASE Unusable(t)
    BY <2>2, <1>3 DEF Unusable, Followed
  <2>3. CASE \A p \in Procs : Stored(p, t)
    <3>1. res'[t].config = file'[t]
      BY <2>3, <1>3 DEF Stored, Procs
    <3>2. \A p \in Procs : Stored(p, t)'
      BY <3>1, <1>6, <1>8, <1>10 DEF Stored, Procs
    <3> QED
      BY <3>2 DEF Followed
  <2>4. ~ \E p \in Procs : OnItsWay(p, t)
    BY <1>7 DEF OnItsWay
  <2> QED
    BY <2>1, <2>2, <2>3, <2>4, <1>4 DEF FollowInv, Followed
<1> QED
  BY <1>9, <1>10

(* Adding a watch changes nothing that is on its way. *)
LEMMA AddFollows ==
  ASSUME IInv, AloneInv, FollowInv, Watch \/ ReAdd
  PROVE  FollowInv'
<1>1. TypeOK /\ ControlInv
  BY DEF IInv
<1>2. UNCHANGED <<file, events, res, missed>>
  BY DEF Watch, ReAdd, osVars, tabVars
<1>3. \A q \in Procs : pc[q] \notin Working /\ pc'[q] \notin Working
  <2>1. CASE Watch
    <3>1. pc["main"] = "add" /\ pc["watch"] = "off" /\ pc["signal"] = "off"
      BY <2>1, <1>1 DEF Watch, ControlInv
    <3>2. /\ pc'["main"] \in {"add", "up", "exit"}
          /\ pc'["watch"] \in {"off", "idle"} /\ pc'["signal"] \in {"off", "idle"}
      BY <2>1, <3>1, <1>1 DEF Watch, Goto, TypeOK, Procs
    <3> QED
      BY <3>1, <3>2 DEF Procs, Working
  <2>2. CASE ReAdd
    <3>1. /\ pc["watch"] = "add" /\ pc["main"] = "up" /\ pc["signal"] \in {"off", "idle"}
          /\ pc'["watch"] \in {"idle", "dead"}
          /\ pc'["main"] = pc["main"] /\ pc'["signal"] = pc["signal"]
      BY <2>2, <1>1 DEF ReAdd, Goto, TypeOK, Procs, ControlInv, AloneInv
    <3> QED
      BY <3>1 DEF Procs, Working
  <2> QED
    BY <2>1, <2>2
<1>4. pc'["main"] # "exit" => pc["main"] # "exit"
  BY <1>1 DEF Watch, ReAdd, Goto, TypeOK, Procs
<1>5. \A q \in Procs : ToStore(q) = {} /\ ToStore(q)' = {}
  BY <1>3 DEF ToStore, Working
<1> SUFFICES ASSUME pc'["main"] # "exit", NEW t \in Types \ missed PROVE Followed(t)'
  BY <1>2 DEF FollowInv
<1>6. ~ \E p \in Procs : OnItsWay(p, t)
  BY <1>5 DEF OnItsWay
<1>7. CASE Due(t) \/ Unusable(t)
  BY <1>7, <1>2 DEF Due, Unusable, Followed
<1>8. CASE \A p \in Procs : Stored(p, t)
  BY <1>8, <1>2, <1>5 DEF Stored, Followed
<1> QED
  BY <1>4, <1>6, <1>7, <1>8 DEF FollowInv, Followed

(* What fits is appended, and the queue keeps what it has.                 *)
Keeps(q, r) == \A n \in 1 .. Len(q) : n \in DOMAIN r /\ r[n] = q[n]

LEMMA PushIs ==
  ASSUME NEW q \in Seq(Event), NEW t \in Types,
         NEW op \in {"write", "rename", "remove", "chmod"}
  PROVE  /\ Push(q, t, op) \in Seq(Event)
         /\ Len(q) < MaxEvents => /\ Len(Push(q, t, op)) = Len(q) + 1
                                  /\ Push(q, t, op)[Len(q) + 1] = [file |-> t, op |-> op]
         /\ Keeps(q, Push(q, t, op))
<1> DEFINE e == [file |-> t, op |-> op]
<1>1. e \in Event
  BY DEF Event
<1>2. Keeps(q, q)
  BY DEF Keeps
<1> HIDE DEF e
<1>3. /\ Append(q, e) \in Seq(Event) /\ Len(Append(q, e)) = Len(q) + 1
      /\ Append(q, e)[Len(q) + 1] = e /\ Keeps(q, Append(q, e))
  BY <1>1 DEF Keeps
<1>4. Push(q, t, op) = IF Len(q) < MaxEvents THEN Append(q, e) ELSE q
  BY DEF Push, e
<1>5. CASE Len(q) < MaxEvents
  BY <1>3, <1>4, <1>5 DEF e
<1>6. CASE ~ (Len(q) < MaxEvents)
  BY <1>2, <1>4, <1>6
<1> QED
  BY <1>5, <1>6

(* A change either leaves an event that makes the loop load the file, or   *)
(* the file is missed.                                                     *)
LEMMA ChangeIsDue ==
  ASSUME TypeOK, NEW t \in Types,
         \/ Notify(t, "write") /\ Miss(t, 1)
         \/ Notify(t, "rename") /\ Miss(t, 1)
         \/ NotifyGone(t) /\ Miss(t, 2)
  PROVE  /\ t \in missed' \/ Due(t)'
         /\ missed \subseteq missed'
         /\ \A u \in Types : Due(u) => Due(u)'
<1>1. events \in Seq(Event) /\ Len(events) \in Nat /\ MaxEvents \in Nat
  BY WatchFileAssumption DEF TypeOK
<1> DEFINE Ev(op) == [file |-> t, op |-> op]
<1>2. Keeps(events, events)
  BY <1>1 DEF Keeps
<1>4. ASSUME NEW op \in {"write", "rename"}, Notify(t, op), Miss(t, 1)
      PROVE  /\ t \in missed' \/ Due(t)'
             /\ Keeps(events, events')
  <2>1. CASE t \in watched /\ Len(events) + 1 <= MaxEvents
    <3>1. events' = Push(events, t, op) /\ Len(events) < MaxEvents
      BY <2>1, <1>1, <1>4 DEF Notify
    <3>2. /\ Len(events') = Len(events) + 1 /\ events'[Len(events) + 1] = Ev(op)
          /\ events' \in Seq(Event)
      BY <3>1, <1>1, PushIs
    <3>3. Len(events) + 1 \in DOMAIN events'
      BY <3>2, <1>1
    <3>4. Due(t)'
      BY <3>2, <3>3 DEF Due
    <3> QED
      BY <3>1, <3>4, <1>1, PushIs
  <2>2. CASE ~ (t \in watched /\ Len(events) + 1 <= MaxEvents)
    <3>1. t \in missed'
      BY <2>2, <1>4 DEF Miss
    <3>2. Keeps(events, events')
      BY <1>1, <1>2, <1>4, PushIs DEF Notify
    <3> QED
      BY <3>1, <3>2
  <2> QED
    BY <2>1, <2>2
<1>5. ASSUME NotifyGone(t), Miss(t, 2)
      PROVE  /\ t \in missed' \/ Due(t)'
             /\ Keeps(events, events')
  <2> DEFINE q == Push(events, t, "chmod")
  <2>1. /\ q \in Seq(Event)
        /\ Keeps(events, q)
        /\ Len(events) < MaxEvents => Len(q) = Len(events) + 1
    BY <1>1, PushIs
  <2>2. DOMAIN q = 1 .. Len(q) /\ Len(q) \in Nat
    BY <2>1
  <2>3. events' = IF t \in watched THEN Push(q, t, "remove") ELSE events
    BY <1>5 DEF NotifyGone
  <2> HIDE DEF q
  <2>4. Keeps(events, events')
    <3>1. CASE t \in watched
      <4>1. Keeps(q, events')
        BY <3>1, <2>1, <2>3, PushIs
      <4> QED
        BY <4>1, <2>1, <2>2 DEF Keeps
    <3>2. CASE t \notin watched
      BY <3>2, <2>3, <1>2
    <3> QED
      BY <3>1, <3>2
  <2>5. CASE t \in watched /\ Len(events) + 2 <= MaxEvents
    <3>1. Len(q) = Len(events) + 1 /\ Len(q) < MaxEvents
      BY <2>1, <2>5, <1>1
    <3>2. /\ Len(events') = Len(q) + 1 /\ events'[Len(q) + 1] = Ev("remove")
          /\ events' \in Seq(Event)
      BY <3>1, <2>1, <2>3, <2>5, PushIs
    <3>3. Len(q) + 1 \in DOMAIN events'
      BY <3>2, <2>2
    <3>4. Due(t)'
      BY <3>2, <3>3 DEF Due
    <3> QED
      BY <3>4, <2>4
  <2>6. CASE ~ (t \in watched /\ Len(events) + 2 <= MaxEvents)
    BY <2>4, <2>6, <1>5 DEF Miss
  <2> QED
    BY <2>5, <2>6
<1>6. /\ t \in missed' \/ Due(t)'
      /\ Keeps(events, events')
  BY <1>4, <1>5
<1>7. missed \subseteq missed'
  BY DEF Miss
<1>8. \A u \in Types : Due(u) => Due(u)'
  BY <1>1, <1>6 DEF Due, Keeps
<1> QED
  BY <1>6, <1>7, <1>8

(* A change of one file leaves the others as they were.                    *)
LEMMA OperatorFollows ==
  ASSUME IInv, FollowInv, Operator
  PROVE  FollowInv'
<1>1. TypeOK
  BY DEF IInv
<1>2. UNCHANGED <<res, locVars>>
  BY DEF Operator, BeginWrite, EndWrite, Replace, Over, Delete, Chmod, Edit, tabVars
<1>3. PICK t \in Types :
        \/ BeginWrite(t)
        \/ \E c \in Configs[t] : EndWrite(t, c) \/ Replace(t, c) \/ Over(t, c)
        \/ Replace(t, Invalid) \/ Over(t, Invalid)
        \/ Delete(t)
        \/ Chmod(t)
  BY DEF Operator
<1>4. \A u \in Types \ {t} : file'[u] = file[u]
  BY <1>1, <1>3 DEF BeginWrite, EndWrite, Replace, Over, Delete, Chmod, TypeOK
<1>5. /\ file'[t] = file[t] \/ t \in missed' \/ Due(t)'
      /\ missed \subseteq missed'
      /\ \A u \in Types : Due(u) => Due(u)'
  <2>1. CASE Chmod(t)
    <3>1. UNCHANGED <<file, missed>> /\ Notify(t, "chmod")
      BY <2>1 DEF Chmod
    <3>2. \A n \in DOMAIN events : n \in DOMAIN events' /\ events'[n] = events[n]
      BY <3>1, <1>1 DEF Notify, Push, TypeOK, Event
    <3> QED
      BY <3>1, <3>2 DEF Due
  <2>2. CASE ~ Chmod(t)
    BY <2>2, <1>1, <1>3, ChangeIsDue DEF BeginWrite, EndWrite, Replace, Over, Delete
  <2> QED
    BY <2>1, <2>2
<1> SUFFICES ASSUME pc["main"] # "exit", NEW u \in Types \ missed' PROVE Followed(u)'
  BY <1>2 DEF FollowInv, locVars
<1>6. Followed(u)
  BY <1>5 DEF FollowInv
<1>7. CASE Due(u)'
  BY <1>7 DEF Followed
<1>8. CASE ~ Due(u)'
  <2>1. file'[u] = file[u]
    BY <1>4, <1>5, <1>8
  <2>2. \A p \in Procs : ToStore(p)' = ToStore(p)
    BY <1>2 DEF ToStore, locVars
  <2>3. CASE Unusable(u)
    BY <2>1, <2>3 DEF Unusable, Followed
  <2>4. ASSUME NEW p \in Procs, OnItsWay(p, u) PROVE OnItsWay(p, u)'
    BY <2>1, <2>2, <2>4, <1>2 DEF OnItsWay, AsRead, locVars
  <2>5. ASSUME NEW p \in Procs, Stored(p, u) PROVE Stored(p, u)'
    BY <2>1, <2>2, <2>5, <1>2 DEF Stored, locVars
  <2> QED
    BY <2>3, <2>4, <2>5, <1>5, <1>6, <1>8 DEF Followed
<1> QED
  BY <1>7, <1>8

(* At the start main is yet to read every file.                            *)
LEMMA FollowInitInv == Init => FollowInv
<1> SUFFICES ASSUME Init, NEW t \in Types PROVE Followed(t)
  BY DEF FollowInv
<1>1. /\ pc["main"] = "load" /\ at["main"] = 1 /\ job["main"] = ReloadOrder
  BY DEF Init, Procs
<1>2. ToStore("main") = 1 .. 4
  BY <1>1 DEF ToStore, ReloadOrder
<1>3. \E i \in 1 .. 4 : job["main"][i] = t /\ AsRead("main", i)
  BY <1>1 DEF AsRead, ReloadOrder, Types
<1> QED
  BY <1>2, <1>3 DEF OnItsWay, Followed, Procs

LEMMA FollowNextInv ==
  ASSUME hups' = 0, IInv, SInv, FollowInv, [Next]_vars
  PROVE  FollowInv'
<1>1. AloneInv /\ AloneInv'
  BY SNextInv DEF SInv
<1>2. ASSUME NEW p \in Procs, Step(p) PROVE FollowInv'
  BY <1>1, <1>2, LoadFollows, CreateFollows, StoreFollows, SnapshotFollows DEF Step
<1>3. CASE Receive \/ Watch \/ ReAdd
  BY <1>1, <1>3, ReceiveFollows, AddFollows
<1>4. CASE Hup
  BY <1>4 DEF Hup, IInv, TypeOK
<1>5. CASE Operator
  BY <1>5, OperatorFollows
<1>6. CASE UNCHANGED vars
  BY <1>6 DEF vars, FollowInv, Followed, Due, Unusable, OnItsWay, Stored, ToStore, AsRead
<1> QED
  BY <1>2, <1>3, <1>4, <1>5, <1>6 DEF Next

(* Until a SIGHUP is taken no change of a file is forgotten: an event for  *)
(* it is queued, or a reload carries it, or the table has it, or no reload *)
(* takes it, or there was no event to begin with.                          *)
THEOREM EditsAreFollowed == Spec => [](hups = 0 => FollowInv)
<1>1. Init => FollowInv
  BY FollowInitInv
<1>2. /\ IInv /\ (hups = 0 => SInv) /\ (hups = 0 => FollowInv) /\ [Next]_vars
      => (hups = 0 => FollowInv)'
  BY FollowNextInv, HupsStep DEF IInv
<1> QED
  BY <1>1, <1>2, OneReloaderInvariance, PTL DEF Spec

(* Whenever the loop has caught up, the cache holds what the files say, if *)
(* they are valid and agree and no change went without an event: for any   *)
(* edits in any number, at any time before the first SIGHUP.               *)
THEOREM QuietServes == Spec => [](hups = 0 => QuietServesFiles)
<1>1. ASSUME IInv, SInv, FollowInv PROVE QuietServesFiles
  <2> SUFFICES ASSUME pc["watch"] = "idle", events = <<>>, missed = {}, FilesGood
               PROVE  FilesServed
    BY DEF QuietServesFiles
  <2>1. TypeOK /\ ControlInv /\ TableInv /\ AloneInv
    BY <1>1 DEF IInv, SInv
  <2>2. pc["main"] = "up"
    BY <2>1 DEF ControlInv
  <2>3. \A q \in Procs : ToStore(q) = {}
    BY <2>1, <2>2 DEF ToStore, Procs, AloneInv
  <2>4. ASSUME NEW t \in Types PROVE res[t].config = file[t]
    <3>1. ~ Due(t)
      BY DEF Due
    <3>2. ~ Unusable(t)
      BY DiscoveryAssumption DEF Unusable, Loaded, FilesGood
    <3>3. ~ \E p \in Procs : OnItsWay(p, t)
      BY <2>3 DEF OnItsWay
    <3> QED
      BY <3>1, <3>2, <3>3, <2>2, <1>1 DEF FollowInv, Followed, Stored, Procs
  <2>5. Contents(res) = file
    BY <2>1, <2>4 DEF Contents, TypeOK
  <2>6. cache = res
    BY <2>2, <2>5, <1>1 DEF SInv, SettledInv, FilesGood
  <2>7. res \in Snapshot
    BY <2>1, <2>2 DEF TableInv, TypeOK, Snapshot, Resource
  <2> QED
    BY <2>5, <2>6, <2>7, WatchFileAssumption DEF FilesServed
<1> QED
  BY <1>1, OneReloaderInvariance, EditsAreFollowed, PTL

=============================================================================
