--------------------------- MODULE WatchFileProofs ---------------------------
(***************************************************************************)
(* Proofs about WatchFile, for every set of names, contents, edits and     *)
(* signals: type correctness, the inductive invariant and the safety       *)
(* properties that follow from it, and that WatchFile implements           *)
(* SnapshotService.                                                        *)
(***************************************************************************)
EXTENDS WatchFileInvariant, TLAPS

Jobs == {<<>>, ReloadOrder, WatchOrder} \cup {<<t>> : t \in Types}

(* The two orders list the four types. *)
LEMMA Orders ==
  /\ Len(ReloadOrder) = 4 /\ Len(WatchOrder) = 4
  /\ \A i \in 1 .. 4 : ReloadOrder[i] \in Types /\ WatchOrder[i] \in Types
  /\ \A t \in Types : \E i \in 1 .. 4 : ReloadOrder[i] = t
  /\ ReloadOrder # <<>> /\ WatchOrder # <<>> /\ ReloadOrder # WatchOrder
  /\ \A t \in Types : <<t>> # ReloadOrder /\ <<t>> # WatchOrder /\ <<t>> # <<>>
BY DEF ReloadOrder, WatchOrder, Types

(* A job is a list of at most four types. *)
LEMMA JobShape ==
  ASSUME NEW j \in Jobs
  PROVE  /\ Len(j) \in Nat /\ Len(j) <= 4
         /\ \A i \in 1 .. Len(j) : j[i] \in Types
<1>1. CASE j \in {ReloadOrder, WatchOrder}
  <2>1. Len(j) = 4 /\ \A i \in 1 .. 4 : j[i] \in Types
    BY <1>1, Orders
  <2> QED
    BY <2>1
<1>2. CASE j = <<>>
  BY <1>2
<1>3. CASE \E t \in Types : j = <<t>>
  BY <1>3
<1> QED
  BY <1>1, <1>2, <1>3 DEF Jobs

(* The type a working goroutine is at. *)
LEMMA CurType ==
  ASSUME TypeOK, NEW p \in Procs, pc[p] \in Working \cup {"add"}
  PROVE  /\ job[p] \in Jobs
         /\ Len(job[p]) \in Nat /\ Len(job[p]) <= 4
         /\ at[p] \in Nat /\ 1 <= at[p] /\ at[p] <= Len(job[p])
         /\ \A i \in 1 .. Len(job[p]) : job[p][i] \in Types
         /\ Cur(p) \in Types
<1>1. job[p] \in Jobs
  BY DEF TypeOK, Jobs
<1>2. at[p] \in 1 .. 4
  BY DEF TypeOK
<1>3. at[p] <= Len(job[p])
  BY DEF TypeOK
<1>4. Len(job[p]) \in Nat /\ Len(job[p]) <= 4 /\ \A i \in 1 .. Len(job[p]) : job[p][i] \in Types
  BY <1>1, JobShape
<1>5. at[p] \in Nat /\ 1 <= at[p]
  BY <1>2
<1>6. Cur(p) \in Types
  BY <1>3, <1>4, <1>5 DEF Cur
<1> QED
  BY <1>1, <1>3, <1>4, <1>5, <1>6

-----------------------------------------------------------------------------
(* The parts of the invariant, step by step.                               *)

(* The state in which serverAction calls ReloadAll satisfies the invariant. *)
LEMMA InitInv == Init => IInv
<1> SUFFICES ASSUME Init PROVE IInv
  OBVIOUS
<1>1. TypeOK
  <2>1. \A p \in Procs : pc[p] \in Working \cup {"add"} => at[p] <= Len(job[p])
    BY Orders DEF Init, Working
  <2>2. job \in [Procs -> {<<>>, ReloadOrder, WatchOrder} \cup {<<t>> : t \in Types}]
    BY DEF Init
  <2>3. file \in [Types -> FileContent] /\ events \in Seq(Event)
    BY WatchFileAssumption DEF Init
  <2> QED
    BY <2>1, <2>2, <2>3 DEF Init, TypeOK, NoResult, Working
<1>2. ControlInv
  BY DEF Init, ControlInv, Working, Procs
<1>3. LocalInv
  BY DEF Init, LocalInv
<1>4. TableInv
  BY DEF Init, TableInv, Procs
<1>5. BuiltInv
  BY DEF Init, BuiltInv, NoResult
<1>6. CheckedInv
  BY DEF Init, CheckedInv, ServedConsistent
<1> QED
  BY <1>1, <1>2, <1>3, <1>4, <1>5, <1>6 DEF IInv

(* A goroutine that returns leaves its locals empty and goes on to add a    *)
(* watch, to wait for a signal, or to end the process.                     *)
LEMMA ReturnInv ==
  ASSUME IInv, NEW p \in Procs, pc[p] \in Working, NEW ok \in BOOLEAN, Return(p, ok)
  PROVE  /\ pc' \in [Procs -> Working \cup {"off", "idle", "add", "dead", "up", "exit"}]
         /\ job' \in [Procs -> Jobs]
         /\ at' \in [Procs -> 1 .. 4]
         /\ \A q \in Procs : pc'[q] \in Working \cup {"add"} => at'[q] <= Len(job'[q])
         /\ got' \in [Procs -> [Types -> Config \cup {Nil}]]
         /\ made' \in [Procs -> [Types -> Resource \cup {Nil}]]
         /\ snap' \in [Procs -> Snapshot \cup {Nil}]
         /\ ControlInv'
         /\ LocalInv'
<1> DEFINE stop == CASE p = "main"   -> IF ok THEN "add" ELSE "exit"
                     [] p = "watch"  -> "add"
                     [] p = "signal" -> "idle"
<1>1. /\ stop \in {"add", "exit", "idle"}
      /\ p = "main" => stop \in {"add", "exit"}
      /\ p = "watch" => stop = "add"
      /\ p = "signal" => stop = "idle"
  BY DEF Procs
<1>2. pc' = [pc EXCEPT ![p] = stop] /\ at' = [at EXCEPT ![p] = 1]
  BY DEF Return, Goto
<1>3. /\ job' = IF p = "main" THEN [job EXCEPT ![p] = WatchOrder] ELSE job
      /\ got' = [got EXCEPT ![p] = NoResult]
      /\ made' = [made EXCEPT ![p] = NoResult]
      /\ snap' = [snap EXCEPT ![p] = Nil]
  BY DEF Return
<1> HIDE DEF stop
<1>4. NoResult \in [Types -> Config \cup {Nil}] /\ NoResult \in [Types -> Resource \cup {Nil}]
  BY DEF NoResult
<1>5. TypeOK /\ ControlInv /\ LocalInv
  BY DEF IInv
<1>6. job' \in [Procs -> Jobs] /\ at' \in [Procs -> 1 .. 4]
  BY <1>2, <1>3, <1>5 DEF TypeOK, Jobs
<1>7. pc' \in [Procs -> Working \cup {"off", "idle", "add", "dead", "up", "exit"}]
  BY <1>1, <1>2, <1>5 DEF TypeOK
<1>8. ASSUME NEW q \in Procs, pc'[q] \in Working \cup {"add"}
      PROVE  at'[q] <= Len(job'[q])
  <2>1. CASE q # p
    BY <2>1, <1>2, <1>3, <1>5, <1>8 DEF TypeOK
  <2>2. CASE q = p /\ p = "main"
    BY <2>2, <1>2, <1>3, <1>5, Orders DEF TypeOK
  <2>3. CASE q = p /\ p = "watch"
    <3>1. Len(job[p]) \in Nat /\ 1 <= Len(job[p])
      BY <1>5, CurType
    <3>2. job' = job /\ at'[p] = 1
      BY <2>3, <1>2, <1>3, <1>5 DEF TypeOK
    <3> QED
      BY <3>1, <3>2, <2>3
  <2>4. CASE q = p /\ p = "signal"
    BY <2>4, <1>1, <1>2, <1>5, <1>8 DEF TypeOK, Working
  <2> QED
    BY <2>1, <2>2, <2>3, <2>4 DEF Procs
<1>9. /\ got' \in [Procs -> [Types -> Config \cup {Nil}]]
      /\ made' \in [Procs -> [Types -> Resource \cup {Nil}]]
      /\ snap' \in [Procs -> Snapshot \cup {Nil}]
  BY <1>3, <1>4, <1>5 DEF TypeOK
<1>10. ControlInv'
  <2>1. p # "main" => pc["main"] = "up"
    BY <1>5 DEF ControlInv, Working, Procs
  <2>2. CASE p = "main"
    <3>1. \A q \in {"watch", "signal"} :
            pc'[q] = pc[q] /\ job'[q] = job[q] /\ snap'[q] = snap[q]
      BY <2>2, <1>2, <1>3, <1>5 DEF TypeOK, Procs
    <3>2. pc'["main"] \in {"add", "exit"} /\ job'["main"] = WatchOrder
      BY <2>2, <1>1, <1>2, <1>3, <1>5 DEF TypeOK, Procs
    <3>3. pc["main"] # "up"
      BY <2>2 DEF Working
    <3> QED
      BY <3>1, <3>2, <3>3, <1>5 DEF ControlInv, Working
  <2>3. CASE p = "watch"
    <3>1. /\ pc'["main"] = "up" /\ pc'["signal"] = pc["signal"] /\ pc'["watch"] = "add"
          /\ job' = job
      BY <2>1, <2>3, <1>1, <1>2, <1>3, <1>5 DEF TypeOK, Procs
    <3> QED
      BY <3>1, <2>3, <1>5 DEF ControlInv, Working
  <2>4. CASE p = "signal"
    <3>1. /\ pc'["main"] = "up" /\ pc'["watch"] = pc["watch"] /\ pc'["signal"] = "idle"
          /\ job' = job
      BY <2>1, <2>4, <1>1, <1>2, <1>3, <1>5 DEF TypeOK, Procs
    <3> QED
      BY <3>1, <2>4, <1>5 DEF ControlInv, Working
  <2> QED
    BY <2>2, <2>3, <2>4 DEF Procs
<1>11. LocalInv'
  <2>1. pc'[p] \notin Working
    BY <1>1, <1>2, <1>5 DEF TypeOK, Working
  <2>2. \A q \in Procs \ {p} :
          /\ pc'[q] = pc[q] /\ at'[q] = at[q] /\ job'[q] = job[q]
          /\ got'[q] = got[q] /\ made'[q] = made[q] /\ snap'[q] = snap[q]
    BY <1>2, <1>3, <1>5 DEF TypeOK
  <2> QED
    BY <2>1, <2>2, <1>5 DEF LocalInv, Cur, Working
<1> QED
  BY <1>6, <1>7, <1>8, <1>9, <1>10, <1>11

(* A goroutine that advances stays inside its list of types. *)
LEMMA AdvanceShape ==
  ASSUME TypeOK, NEW p \in Procs, pc[p] \in Working,
         NEW again \in Working, NEW next \in Working, Advance(p, again, next)
  PROVE  /\ pc' \in [Procs -> Working \cup {"off", "idle", "add", "dead", "up", "exit"}]
         /\ at' \in [Procs -> 1 .. 4]
         /\ \/ at[p] < Len(job[p]) /\ pc'[p] = again /\ at'[p] = at[p] + 1
            \/ at[p] = Len(job[p]) /\ pc'[p] = next /\ at'[p] = 1
         /\ \A q \in Procs \ {p} : pc'[q] = pc[q] /\ at'[q] = at[q]
<1>1. /\ at[p] \in Nat /\ 1 <= at[p] /\ at[p] <= Len(job[p])
      /\ Len(job[p]) \in Nat /\ Len(job[p]) <= 4
  BY CurType
<1>0. /\ pc \in [Procs -> Working \cup {"off", "idle", "add", "dead", "up", "exit"}]
      /\ at \in [Procs -> 1 .. 4]
  BY DEF TypeOK
<1>2. CASE at[p] < Len(job[p])
  <2>1. at[p] + 1 \in 1 .. 4
    BY <1>1, <1>2
  <2>2. pc' = [pc EXCEPT ![p] = again] /\ at' = [at EXCEPT ![p] = at[p] + 1]
    BY <1>2 DEF Advance, Goto
  <2>3. at' \in [Procs -> 1 .. 4] /\ at'[p] = at[p] + 1
    BY <2>1, <2>2, <1>0
  <2> QED
    BY <2>2, <2>3, <1>0, <1>2
<1>3. CASE ~ at[p] < Len(job[p])
  <2>1. at[p] = Len(job[p])
    BY <1>1, <1>3
  <2> QED
    BY <2>1, <1>0, <1>3 DEF Advance, Goto
<1> QED
  BY <1>2, <1>3

(* Every action that leaves the table and the cache alone keeps what the   *)
(* invariant says of them, if it takes no snapshot and creates nothing.    *)
LEMMA TableFrame ==
  ASSUME IInv, UNCHANGED <<tabVars>>,
         \A p \in Procs : made'[p] = made[p] \/ made'[p] = NoResult,
         \A p \in Procs : snap'[p] = snap[p] \/ snap'[p] = Nil
  PROVE  BuiltInv' /\ CheckedInv'
<1>1. BuiltInv /\ CheckedInv
  BY DEF IInv
<1>2. BuiltInv'
  BY <1>1 DEF BuiltInv, tabVars, NoResult
<1>3. CheckedInv'
  BY <1>1 DEF CheckedInv, ServedConsistent, tabVars
<1> QED
  BY <1>2, <1>3

-----------------------------------------------------------------------------
(* The steps of a reload.                                                  *)

(* A reload that fails keeps the invariant. *)
LEMMA FailInv ==
  ASSUME IInv, NEW p \in Procs, pc[p] \in Working, Return(p, FALSE),
         UNCHANGED <<osVars, tabVars, watched, events, hups>>,
         missed' \in SUBSET Types
  PROVE  IInv'
<1>1. TypeOK /\ ControlInv /\ LocalInv /\ TableInv
  BY DEF IInv
<1>2. TypeOK'
  BY <1>1, ReturnInv DEF TypeOK, Jobs, osVars, tabVars
<1>3. ControlInv' /\ LocalInv'
  BY ReturnInv
<1>4. TableInv'
  <2>1. pc'["main"] = IF p = "main" THEN "exit" ELSE pc["main"]
    BY <1>1 DEF Return, Goto, TypeOK, Procs
  <2>2. p # "main" => at'["main"] = at["main"] /\ job'["main"] = job["main"]
    BY <1>1 DEF Return, Goto, TypeOK, Procs
  <2> QED
    BY <2>1, <2>2, <1>1 DEF TableInv, tabVars
<1>5. BuiltInv' /\ CheckedInv'
  <2>1. \A q \in Procs : /\ made'[q] = made[q] \/ made'[q] = NoResult
                         /\ snap'[q] = snap[q] \/ snap'[q] = Nil
    BY <1>1 DEF Return, TypeOK
  <2> QED
    BY <2>1, TableFrame
<1> QED
  BY <1>2, <1>3, <1>4, <1>5 DEF IInv

(* A load keeps the invariant: what it read is a configuration, and the    *)
(* types it has passed have all been loaded.                               *)
LEMMA LoadInv ==
  ASSUME IInv, NEW p \in Procs, Load(p)
  PROVE  IInv'
<1> DEFINE t == Cur(p)
<1>1. TypeOK /\ ControlInv /\ LocalInv /\ TableInv
  BY DEF IInv
<1>2. pc[p] = "load" /\ pc[p] \in Working
  BY DEF Load, Working
<1>3. t \in Types
  BY <1>1, <1>2, CurType
<1>4. /\ UNCHANGED <<osVars, tabVars, watched, events, hups>>
      /\ missed' \in SUBSET Types
  BY <1>1 DEF Load, TypeOK
<1>5. CASE Return(p, FALSE)
  BY <1>2, <1>4, <1>5, FailInv
<1>6. CASE /\ Loaded(file[t]) # Nil
           /\ got' = [got EXCEPT ![p][t] = file[t]]
           /\ Advance(p, "load", "create")
           /\ UNCHANGED <<job, made, snap>>
  <2>1. file[t] \in Config /\ file[t] # Nil
    BY <1>6, DiscoveryAssumption DEF Loaded
  <2>2. got' \in [Procs -> [Types -> Config \cup {Nil}]]
    BY <1>1, <1>3, <1>6, <2>1 DEF TypeOK
  <2>3. /\ at[p] \in Nat /\ 1 <= at[p] /\ at[p] <= Len(job[p])
        /\ Len(job[p]) \in Nat
        /\ \A i \in 1 .. Len(job[p]) : job[p][i] \in Types
    BY <1>1, <1>2, CurType
  <2>4. /\ pc' \in [Procs -> Working \cup {"off", "idle", "add", "dead", "up", "exit"}]
        /\ at' \in [Procs -> 1 .. 4]
        /\ \/ at[p] < Len(job[p]) /\ pc'[p] = "load" /\ at'[p] = at[p] + 1
           \/ at[p] = Len(job[p]) /\ pc'[p] = "create" /\ at'[p] = 1
        /\ \A q \in Procs \ {p} : pc'[q] = pc[q] /\ at'[q] = at[q]
    BY <1>1, <1>2, <1>6, AdvanceShape DEF Working
  <2>5. at'[p] <= Len(job[p])
    BY <2>3, <2>4
  <2>6. TypeOK'
    BY <1>1, <1>2, <1>4, <1>6, <2>2, <2>4, <2>5 DEF TypeOK, osVars, tabVars
  <2>7. ControlInv'
    BY <1>1, <1>2, <1>6, <2>4 DEF ControlInv, Working, Procs
  <2>8. LocalInv'
    <3>1. got'[p][t] # Nil
      BY <1>1, <1>3, <1>6, <2>1 DEF TypeOK
    <3>2. \A i \in 1 .. at[p] : got'[p][job[p][i]] # Nil
      <4> TAKE i \in 1 .. at[p]
      <4>1. CASE i = at[p]
        BY <4>1, <3>1 DEF Cur
      <4>2. CASE i # at[p]
        <5>1. i \in 1 .. (at[p] - 1) /\ i \in 1 .. Len(job[p])
          BY <4>2, <2>3
        <5>2. got[p][job[p][i]] # Nil /\ job[p][i] \in Types
          BY <5>1, <1>1, <1>2, <2>3 DEF LocalInv
        <5> QED
          BY <5>2, <1>1, <1>3, <1>6, <2>1 DEF TypeOK
      <4> QED
        BY <4>1, <4>2
    <3>3. \A q \in Procs \ {p} : got'[q] = got[q]
      BY <1>1, <1>6 DEF TypeOK
    <3>4. pc'[p] = "load" => \A i \in 1 .. (at'[p] - 1) : got'[p][job[p][i]] # Nil
      BY <3>2, <2>3, <2>4
    <3>5. pc'[p] = "create" => \A i \in 1 .. Len(job[p]) : got'[p][job[p][i]] # Nil
      BY <3>2, <2>3, <2>4
    <3> QED
      BY <3>3, <3>4, <3>5, <1>1, <1>6, <2>4 DEF LocalInv, Cur
  <2>9. TableInv'
    <3>1. pc'["main"] = "create" /\ p = "main" => at'["main"] = 1
      BY <2>3, <2>4
    <3> QED
      BY <3>1, <1>1, <1>2, <1>4, <1>6, <2>4 DEF TableInv, tabVars, Procs
  <2>10. BuiltInv' /\ CheckedInv'
    BY <1>4, <1>6, TableFrame
  <2> QED
    BY <2>6, <2>7, <2>8, <2>9, <2>10 DEF IInv
<1> QED
  BY <1>5, <1>6 DEF Load

(* A create keeps the invariant: the version it takes is above all that    *)
(* were handed out for the type.                                           *)
LEMMA CreateInv ==
  ASSUME IInv, NEW p \in Procs, Create(p)
  PROVE  IInv'
<1> DEFINE t == Cur(p)
           c == got[p][t]
           v == version[t] + 1
           new == [version |-> v, config |-> c]
<1>1. TypeOK /\ ControlInv /\ LocalInv /\ TableInv /\ BuiltInv /\ CheckedInv
  BY DEF IInv
<1>2. pc[p] = "create" /\ pc[p] \in Working
  BY DEF Create, Working
<1>3. /\ t \in Types
      /\ at[p] \in Nat /\ 1 <= at[p] /\ at[p] <= Len(job[p]) /\ Len(job[p]) \in Nat
  BY <1>1, <1>2, CurType
<1>4. UNCHANGED <<osVars, watched, events, res, cache, hups, missed>>
  BY DEF Create
<1>5. CASE Return(p, FALSE) /\ UNCHANGED <<version, built>>
  BY <1>1, <1>2, <1>4, <1>5, FailInv DEF TypeOK, tabVars
<1>6. CASE /\ version' = [version EXCEPT ![t] = v]
           /\ made' = [made EXCEPT ![p][t] = new]
           /\ built' = built \cup {[type |-> t, version |-> v, config |-> c]}
           /\ Goto(p, "store", at[p])
           /\ UNCHANGED <<job, got, snap>>
  <2>1. c \in Config
    <3>1. c # Nil
      BY <1>1, <1>2, <1>3 DEF LocalInv, Cur
    <3> QED
      BY <3>1, <1>1, <1>3 DEF TypeOK
  <2>2. v \in Nat
    BY <1>1, <1>3 DEF TypeOK
  <2>3. new \in Resource /\ new # Nil
    BY <2>1, <2>2, WatchFileAssumption DEF Resource
  <2>4. /\ made' \in [Procs -> [Types -> Resource \cup {Nil}]]
        /\ made'[p][t] = new
        /\ \A q \in Procs, u \in Types :
             q # p \/ u # t => made'[q][u] = made[q][u]
    BY <1>1, <1>3, <1>6, <2>3 DEF TypeOK
  <2>5. /\ version' \in [Types -> Nat]
        /\ version'[t] = v
        /\ \A u \in Types \ {t} : version'[u] = version[u]
    BY <1>1, <1>3, <1>6, <2>2 DEF TypeOK
  <2>6. built' \in SUBSET [type : Types, version : Nat, config : Config]
    BY <1>1, <1>3, <1>6, <2>1, <2>2 DEF TypeOK
  <2>7. /\ pc' \in [Procs -> Working \cup {"off", "idle", "add", "dead", "up", "exit"}]
        /\ at' = at
        /\ pc'[p] = "store"
        /\ \A q \in Procs \ {p} : pc'[q] = pc[q]
    BY <1>1, <1>6 DEF TypeOK, Goto, Working
  <2>8. TypeOK'
    BY <1>1, <1>3, <1>4, <1>6, <2>4, <2>5, <2>6, <2>7 DEF TypeOK, osVars
  <2>9. ControlInv'
    BY <1>1, <1>2, <1>6, <2>7 DEF ControlInv, Working, Procs
  <2>10. LocalInv'
    <3>1. /\ \A i \in 1 .. Len(job[p]) : got[p][job[p][i]] # Nil
          /\ made'[p][job[p][at[p]]] # Nil
      BY <1>1, <1>2, <2>3, <2>4 DEF LocalInv, Cur
    <3>2. \A q \in Procs \ {p} : pc'[q] = "store" => made'[q][job[q][at[q]]] # Nil
      <4> TAKE q \in Procs \ {p}
      <4> HAVE pc'[q] = "store"
      <4>1. made[q][Cur(q)] # Nil /\ Cur(q) \in Types
        BY <1>1, <2>7, CurType DEF LocalInv, Working
      <4> QED
        BY <4>1, <2>4 DEF Cur
    <3> QED
      BY <3>1, <3>2, <1>1, <1>6, <2>7 DEF LocalInv, Cur
  <2>11. TableInv'
    BY <1>1, <1>2, <1>4, <1>6, <2>7 DEF TableInv, Procs
  <2>12. BuiltInv'
    <3>1. \A b \in built : b.type = t => b.version < v
      BY <1>1, <1>3 DEF BuiltInv, TypeOK
    <3>2. \A b \in built' : b.version <= version'[b.type]
      <4>1. \A b \in built : b.version <= version'[b.type]
        <5> TAKE b \in built
        <5>1. b.type \in Types /\ b.version \in Nat /\ b.version <= version[b.type]
          BY <1>1 DEF BuiltInv, TypeOK
        <5> QED
          BY <5>1, <3>1, <2>2, <2>5
      <4> QED
        BY <4>1, <1>6, <2>2, <2>5
    <3>3. \A a, b \in built' : a.type = b.type /\ a.version = b.version => a = b
      <4>1. \A b \in built : b.type = t => b.version # v
        BY <3>1, <1>1, <2>2 DEF TypeOK
      <4> QED
        BY <4>1, <1>1, <1>6 DEF BuiltInv
    <3>4. \A q \in Procs, u \in Types : made'[q][u] # Nil => Rec(u, made'[q][u]) \in built'
      <4> TAKE q \in Procs, u \in Types
      <4>1. CASE q = p /\ u = t
        BY <4>1, <1>6, <2>4 DEF Rec
      <4>2. CASE q # p \/ u # t
        BY <4>2, <1>1, <1>6, <2>4 DEF BuiltInv
      <4> QED
        BY <4>1, <4>2
    <3> QED
      BY <3>2, <3>3, <3>4, <1>1, <1>4, <1>6 DEF BuiltInv, Rec
  <2>13. CheckedInv'
    BY <1>1, <1>4, <1>6 DEF CheckedInv, ServedConsistent
  <2> QED
    BY <2>8, <2>9, <2>10, <2>11, <2>12, <2>13 DEF IInv
<1> QED
  BY <1>5, <1>6 DEF Create

(* A store keeps the invariant: what it puts in the table was created.     *)
LEMMA StoreInv ==
  ASSUME IInv, NEW p \in Procs, Store(p)
  PROVE  IInv'
<1> DEFINE t == Cur(p)
<1>1. TypeOK /\ ControlInv /\ LocalInv /\ TableInv /\ BuiltInv /\ CheckedInv
  BY DEF IInv
<1>2. pc[p] = "store" /\ pc[p] \in Working
  BY DEF Store, Working
<1>3. /\ t \in Types
      /\ at[p] \in Nat /\ 1 <= at[p] /\ at[p] <= Len(job[p]) /\ Len(job[p]) \in Nat
      /\ \A i \in 1 .. Len(job[p]) : job[p][i] \in Types
  BY <1>1, <1>2, CurType
<1>4. /\ UNCHANGED <<osVars, watched, events, version, cache, built, job, got,
                      made, snap, hups, missed>>
      /\ res' = [res EXCEPT ![t] = made[p][t]]
      /\ Advance(p, "create", "snapshot")
  BY DEF Store
<1>5. made[p][t] \in Resource /\ Rec(t, made[p][t]) \in built
  <2>1. made[p][t] # Nil
    BY <1>1, <1>2 DEF LocalInv
  <2> QED
    BY <2>1, <1>1, <1>3 DEF TypeOK, BuiltInv
<1>6. /\ res' \in [Types -> [version : Nat, config : Config \cup {Nil}]]
      /\ res'[t] = made[p][t]
      /\ \A u \in Types \ {t} : res'[u] = res[u]
  BY <1>1, <1>3, <1>4, <1>5 DEF TypeOK, Resource
<1>7. res'[t].config # Nil
  BY <1>5, <1>6, DiscoveryAssumption DEF Resource
<1>8. /\ pc' \in [Procs -> Working \cup {"off", "idle", "add", "dead", "up", "exit"}]
      /\ at' \in [Procs -> 1 .. 4]
      /\ \/ at[p] < Len(job[p]) /\ pc'[p] = "create" /\ at'[p] = at[p] + 1
         \/ at[p] = Len(job[p]) /\ pc'[p] = "snapshot" /\ at'[p] = 1
      /\ \A q \in Procs \ {p} : pc'[q] = pc[q] /\ at'[q] = at[q]
  BY <1>1, <1>2, <1>4, AdvanceShape DEF Working
<1>9. TypeOK'
  <2>1. at'[p] <= Len(job[p])
    BY <1>3, <1>8
  <2> QED
    BY <2>1, <1>1, <1>2, <1>4, <1>6, <1>8 DEF TypeOK, osVars
<1>10. ControlInv'
  BY <1>1, <1>2, <1>4, <1>8 DEF ControlInv, Working, Procs
<1>11. LocalInv'
  BY <1>1, <1>2, <1>4, <1>8 DEF LocalInv, Cur
<1>12. TableInv'
  <2>1. CASE p = "main"
    <3>1. job["main"] = ReloadOrder /\ pc["main"] = "store"
      BY <2>1, <1>1, <1>2 DEF ControlInv
    <3>2. \A i \in 1 .. at["main"] : res'[job["main"][i]].config # Nil
      <4> TAKE i \in 1 .. at["main"]
      <4>1. CASE i = at["main"]
        BY <4>1, <2>1, <1>7 DEF Cur
      <4>2. CASE i # at["main"]
        <5>1. i \in 1 .. (at["main"] - 1) /\ i \in 1 .. Len(job["main"])
          BY <4>2, <2>1, <1>3
        <5>2. res[job["main"][i]].config # Nil /\ job["main"][i] \in Types
          BY <5>1, <3>1, <2>1, <1>1, <1>3 DEF TableInv
        <5> QED
          BY <5>2, <1>6, <1>7
      <4> QED
        BY <4>1, <4>2
    <3>3. CASE at["main"] < Len(job["main"])
      BY <3>2, <3>3, <2>1, <1>3, <1>4, <1>8 DEF TableInv
    <3>4. CASE at["main"] = Len(job["main"])
      <4>1. \A u \in Types : res'[u].config # Nil
        BY <3>1, <3>2, <3>4, Orders
      <4> QED
        BY <4>1, <3>4, <2>1, <1>3, <1>8 DEF TableInv
    <3> QED
      BY <3>3, <3>4, <2>1, <1>8
  <2>2. CASE p # "main"
    <3>1. pc["main"] = "up" /\ pc'["main"] = "up"
      BY <2>2, <1>1, <1>2, <1>8 DEF ControlInv, Procs
    <3> QED
      BY <3>1, <1>1, <1>6, <1>7 DEF TableInv
  <2> QED
    BY <2>1, <2>2
<1>13. BuiltInv'
  <2>1. \A u \in Types : res'[u].config # Nil => Rec(u, res'[u]) \in built
    BY <1>1, <1>5, <1>6 DEF BuiltInv
  <2> QED
    BY <2>1, <1>1, <1>4 DEF BuiltInv
<1>14. CheckedInv'
  BY <1>1, <1>4 DEF CheckedInv, ServedConsistent
<1> QED
  BY <1>9, <1>10, <1>11, <1>12, <1>13, <1>14 DEF IInv

(* Whoever takes a snapshot finds the table complete. *)
LEMMA TableComplete ==
  ASSUME IInv, NEW p \in Procs, pc[p] \in {"snapshot", "set"}
  PROVE  /\ \A t \in Types : res[t].config # Nil
         /\ res \in Snapshot
<1>1. TypeOK /\ ControlInv /\ TableInv
  BY DEF IInv
<1>2. pc["main"] \in {"snapshot", "set", "up"}
  BY <1>1 DEF ControlInv, Procs
<1>3. \A t \in Types : res[t].config # Nil
  BY <1>1, <1>2 DEF TableInv
<1>4. res \in Snapshot
  BY <1>1, <1>3 DEF TypeOK, Snapshot, Resource
<1> QED
  BY <1>3, <1>4

(* Taking a snapshot keeps the invariant: it is a checked copy. *)
LEMMA TakeSnapshotInv ==
  ASSUME IInv, NEW p \in Procs, TakeSnapshot(p)
  PROVE  IInv'
<1>1. TypeOK /\ ControlInv /\ LocalInv /\ TableInv /\ BuiltInv /\ CheckedInv
  BY DEF IInv
<1>2. pc[p] = "snapshot" /\ pc[p] \in Working
  BY DEF TakeSnapshot, Working
<1>3. UNCHANGED <<osVars, tabVars, watched, events, hups, missed>>
  BY DEF TakeSnapshot
<1>4. CASE Return(p, FALSE)
  BY <1>1, <1>2, <1>3, <1>4, FailInv DEF TypeOK
<1>5. CASE /\ Consistent(Contents(res))
           /\ snap' = [snap EXCEPT ![p] = res]
           /\ Goto(p, "set", 1)
           /\ UNCHANGED <<job, got, made>>
  <2>1. res \in Snapshot /\ \A t \in Types : res[t].config # Nil
    BY <1>2, TableComplete
  <2>2. /\ snap' \in [Procs -> Snapshot \cup {Nil}]
        /\ snap'[p] = res /\ res # Nil
        /\ \A q \in Procs \ {p} : snap'[q] = snap[q]
    BY <1>1, <1>5, <2>1, WatchFileAssumption DEF TypeOK
  <2>3. /\ pc' \in [Procs -> Working \cup {"off", "idle", "add", "dead", "up", "exit"}]
        /\ at' \in [Procs -> 1 .. 4]
        /\ pc'[p] = "set" /\ at'[p] = 1
        /\ \A q \in Procs \ {p} : pc'[q] = pc[q] /\ at'[q] = at[q]
    BY <1>1, <1>5 DEF TypeOK, Goto, Working
  <2>4. TypeOK'
    <3>1. 1 <= Len(job[p])
      BY <1>1, <1>2, CurType
    <3> QED
      BY <3>1, <1>1, <1>3, <1>5, <2>2, <2>3 DEF TypeOK, osVars, tabVars
  <2>5. ControlInv'
    BY <1>1, <1>2, <1>5, <2>2, <2>3 DEF ControlInv, Working, Procs
  <2>6. LocalInv'
    BY <1>1, <1>2, <1>5, <2>2, <2>3 DEF LocalInv, Cur
  <2>7. TableInv'
    BY <1>1, <1>3, <1>5, <2>1, <2>3 DEF TableInv, tabVars, Procs
  <2>8. BuiltInv'
    BY <1>1, <1>3, <1>5, <2>1, <2>2 DEF BuiltInv, tabVars
  <2>9. CheckedInv'
    <3>1. Consistent(Contents(snap'[p]))
      BY <1>5, <2>2
    <3> QED
      BY <3>1, <1>1, <1>3, <2>2 DEF CheckedInv, ServedConsistent, tabVars
  <2> QED
    BY <2>4, <2>5, <2>6, <2>7, <2>8, <2>9 DEF IInv
<1> QED
  BY <1>4, <1>5 DEF TakeSnapshot

(* Setting the snapshot keeps the invariant. *)
LEMMA SetSnapshotInv ==
  ASSUME IInv, NEW p \in Procs, SetSnapshot(p)
  PROVE  IInv'
<1>1. TypeOK /\ ControlInv /\ LocalInv /\ TableInv /\ BuiltInv /\ CheckedInv
  BY DEF IInv
<1>2. pc[p] = "set" /\ pc[p] \in Working
  BY DEF SetSnapshot, Working
<1>3. /\ cache' = snap[p]
      /\ Return(p, TRUE)
      /\ UNCHANGED <<osVars, watched, events, version, res, built, hups, missed>>
  BY DEF SetSnapshot
<1>4. snap[p] # Nil /\ snap[p] \in Snapshot
  BY <1>1, <1>2 DEF LocalInv, TypeOK
<1>5. TypeOK'
  BY <1>1, <1>2, <1>3, <1>4, ReturnInv DEF TypeOK, Jobs, osVars
<1>6. ControlInv' /\ LocalInv'
  BY <1>2, <1>3, ReturnInv
<1>7. TableInv'
  <2>1. \A t \in Types : res[t].config # Nil
    BY <1>2, TableComplete
  <2>2. CASE p = "main"
    <3>1. pc'["main"] = "add"
      BY <2>2, <1>1, <1>3 DEF Return, Goto, TypeOK
    <3> QED
      BY <3>1, <2>1, <1>3 DEF TableInv
  <2>3. CASE p # "main"
    <3>1. pc'["main"] = pc["main"] /\ pc["main"] = "up"
      BY <2>3, <1>1, <1>2, <1>3 DEF Return, Goto, TypeOK, ControlInv, Procs
    <3> QED
      BY <3>1, <2>1, <1>3 DEF TableInv
  <2> QED
    BY <2>2, <2>3
<1>8. \A q \in Procs : /\ made'[q] = made[q] \/ made'[q] = NoResult
                       /\ snap'[q] = snap[q] \/ snap'[q] = Nil
  BY <1>1, <1>3 DEF Return, TypeOK
<1>9. BuiltInv'
  BY <1>1, <1>3, <1>4, <1>8 DEF BuiltInv, NoResult
<1>10. CheckedInv'
  <2>1. Consistent(Contents(cache'))
    BY <1>1, <1>3, <1>4 DEF CheckedInv
  <2> QED
    BY <2>1, <1>1, <1>8 DEF CheckedInv, ServedConsistent
<1> QED
  BY <1>5, <1>6, <1>7, <1>9, <1>10 DEF IInv

-----------------------------------------------------------------------------
(* The steps around the reloads.                                           *)

(* A step that leaves the table, the cache and what goroutines made alone. *)
LEMMA OuterFrame ==
  ASSUME IInv, UNCHANGED <<tabVars, got, made, snap>>
  PROVE  BuiltInv' /\ CheckedInv'
BY TableFrame

(* Adding the watches keeps the invariant; it starts the other goroutines. *)
LEMMA WatchInv ==
  ASSUME IInv, Watch
  PROVE  IInv'
<1>1. TypeOK /\ ControlInv /\ LocalInv /\ TableInv
  BY DEF IInv
<1>2. pc["main"] = "add" /\ "main" \in Procs
  BY DEF Watch, Procs
<1>3. /\ UNCHANGED <<osVars, tabVars, events, job, got, made, snap, hups, missed>>
  BY DEF Watch
<1>4. /\ Cur("main") \in Types
      /\ at["main"] \in Nat /\ 1 <= at["main"] /\ at["main"] <= Len(job["main"])
  BY <1>1, <1>2, CurType
<1>5. watched' \in SUBSET Types
  BY <1>1, <1>4 DEF Watch, TypeOK
<1>6. job["main"] = WatchOrder /\ Len(job["main"]) = 4
  BY <1>1, <1>2, Orders DEF ControlInv
<1>7. pc["watch"] = "off" /\ pc["signal"] = "off" /\ snap["watch"] = Nil /\ snap["signal"] = Nil
  BY <1>1, <1>2 DEF ControlInv
<1>8. /\ pc' \in [Procs -> Working \cup {"off", "idle", "add", "dead", "up", "exit"}]
      /\ at' \in [Procs -> 1 .. 4]
      /\ \/ pc' = pc
         \/ pc'["main"] = "exit" /\ pc'["watch"] = "off" /\ pc'["signal"] = "off"
         \/ pc'["main"] = "up" /\ pc'["watch"] = "idle" /\ pc'["signal"] = "idle"
  <2>1. CASE Goto("main", "exit", 1)
    BY <2>1, <1>1, <1>2, <1>7 DEF Goto, TypeOK, Procs
  <2>2. CASE at["main"] < Len(WatchOrder) /\ Goto("main", "add", at["main"] + 1)
    <3>1. at["main"] + 1 \in 1 .. 4
      BY <2>2, <1>4, Orders
    <3>2. pc' = pc
      BY <2>2, <1>1, <1>2 DEF Goto, TypeOK
    <3>3. at' = [at EXCEPT !["main"] = at["main"] + 1]
      BY <2>2 DEF Goto
    <3> QED
      BY <3>1, <3>2, <3>3, <1>1 DEF TypeOK
  <2>3. CASE /\ pc' = [p \in Procs |-> IF p = "main" THEN "up" ELSE "idle"]
             /\ at' = [at EXCEPT !["main"] = 1]
    BY <2>3, <1>1 DEF TypeOK, Procs
  <2> QED
    BY <2>1, <2>2, <2>3 DEF Watch
<1>9. \A q \in Procs : pc'[q] \in Working \cup {"add"} => at'[q] <= Len(job'[q])
  <2>1. ASSUME NEW q \in Procs, pc'[q] \in Working \cup {"add"}
        PROVE  q = "main"
    BY <2>1, <1>7, <1>8 DEF Working, Procs
  <2>2. at'["main"] <= Len(job'["main"])
    BY <1>3, <1>6, <1>8 DEF Procs
  <2> QED
    BY <2>1, <2>2
<1>10. TypeOK'
  BY <1>1, <1>3, <1>5, <1>8, <1>9 DEF TypeOK, osVars, tabVars
<1>11. ControlInv'
  BY <1>1, <1>2, <1>3, <1>7, <1>8 DEF ControlInv, Working, Procs
<1>12. LocalInv'
  BY <1>1, <1>2, <1>3, <1>7, <1>8 DEF LocalInv, Procs
<1>13. TableInv'
  BY <1>1, <1>2, <1>3, <1>8 DEF TableInv, tabVars
<1>14. BuiltInv' /\ CheckedInv'
  BY <1>3, OuterFrame
<1> QED
  BY <1>10, <1>11, <1>12, <1>13, <1>14 DEF IInv

(* A goroutine other than main that turns to another step outside the      *)
(* reload, or to the load of the first type of a new list.                 *)
LEMMA TurnInv ==
  ASSUME IInv, NEW p \in {"watch", "signal"}, NEW step \in {"load", "add", "idle", "dead"},
         NEW j, job' = [job EXCEPT ![p] = j], Goto(p, step, 1),
         p = "watch"  => j \in {<<t>> : t \in Types},
         p = "signal" => j = ReloadOrder /\ step # "add",
         pc["main"] = "up",
         file' \in [Types -> FileContent], writing' \in SUBSET Types,
         watched' \in SUBSET Types, events' \in Seq(Event),
         edits' \in Nat, hups' \in Nat, missed' \in SUBSET Types,
         UNCHANGED <<tabVars, got, made, snap>>
  PROVE  IInv'
<1>1. TypeOK /\ ControlInv /\ LocalInv /\ TableInv
  BY DEF IInv
<1>2. p \in Procs /\ p # "main"
  BY DEF Procs
<1>3. /\ pc' \in [Procs -> Working \cup {"off", "idle", "add", "dead", "up", "exit"}]
      /\ at' \in [Procs -> 1 .. 4]
      /\ pc'[p] = step /\ at'[p] = 1
      /\ \A q \in Procs \ {p} : pc'[q] = pc[q] /\ at'[q] = at[q]
  BY <1>1, <1>2 DEF TypeOK, Goto, Working
<1>4. j \in Jobs /\ Len(j) \in Nat /\ 1 <= Len(j)
  <2>1. CASE p = "watch"
    <3>1. PICK t \in Types : j = <<t>>
      BY <2>1
    <3> QED
      BY <3>1 DEF Jobs
  <2>2. CASE p = "signal"
    BY <2>2, Orders DEF Jobs
  <2> QED
    BY <2>1, <2>2
<1>5. /\ job' \in [Procs -> Jobs]
      /\ job'[p] = j
      /\ \A q \in Procs \ {p} : job'[q] = job[q]
  BY <1>1, <1>2, <1>4 DEF TypeOK, Jobs
<1>6. \A q \in Procs : pc'[q] \in Working \cup {"add"} => at'[q] <= Len(job'[q])
  <2>1. at'[p] <= Len(job'[p])
    BY <1>3, <1>4, <1>5
  <2> QED
    BY <2>1, <1>1, <1>3, <1>5 DEF TypeOK
<1>7. TypeOK'
  BY <1>1, <1>3, <1>5, <1>6 DEF TypeOK, tabVars, Jobs
<1>8. ControlInv'
  <2>1. j # <<>>
    <3>1. \A t \in Types : <<t>> # <<>>
      BY Orders
    <3> QED
      BY <3>1, Orders
  <2> QED
    BY <2>1, <1>1, <1>2, <1>3, <1>5 DEF ControlInv, Working, Procs
<1>9. LocalInv'
  <2>1. pc'[p] \notin {"create", "store", "set"} /\ 1 .. (at'[p] - 1) = {}
    BY <1>3
  <2> QED
    BY <2>1, <1>1, <1>2, <1>3, <1>5 DEF LocalInv, Cur
<1>10. TableInv'
  BY <1>1, <1>2, <1>3, <1>5 DEF TableInv, tabVars, Procs
<1>11. BuiltInv' /\ CheckedInv'
  BY OuterFrame
<1> QED
  BY <1>7, <1>8, <1>9, <1>10, <1>11 DEF IInv

(* Receiving an event keeps the invariant. *)
LEMMA ReceiveInv ==
  ASSUME IInv, Receive
  PROVE  IInv'
<1> DEFINE e == Head(events)
           step == IF e.op = "chmod" THEN "add" ELSE "load"
<1>1. TypeOK /\ ControlInv
  BY DEF IInv
<1>2. e \in Event /\ events' \in Seq(Event)
  BY <1>1 DEF Receive, TypeOK
<1>3. e.file \in Types
  BY <1>2 DEF Event
<1>4. pc["main"] = "up"
  BY <1>1 DEF ControlInv, Receive
<1>5. /\ job' = [job EXCEPT !["watch"] = <<e.file>>]
      /\ Goto("watch", step, 1)
      /\ UNCHANGED <<osVars, tabVars, watched, got, made, snap, hups, missed>>
  BY DEF Receive
<1>6. /\ file' \in [Types -> FileContent] /\ writing' \in SUBSET Types
      /\ watched' \in SUBSET Types /\ missed' \in SUBSET Types
      /\ edits' \in Nat /\ hups' \in Nat
  BY <1>1, <1>5 DEF TypeOK, osVars
<1>7. step \in {"load", "add", "idle", "dead"}
  OBVIOUS
<1>8. <<e.file>> \in {<<t>> : t \in Types}
  BY <1>3
<1>9. UNCHANGED <<tabVars, got, made, snap>>
  BY <1>5
<1> HIDE DEF step, e
<1> QED
  BY <1>2, <1>4, <1>5, <1>6, <1>7, <1>8, <1>9, TurnInv

(* Adding the watch of a changed file again keeps the invariant. *)
LEMMA ReAddInv ==
  ASSUME IInv, ReAdd
  PROVE  IInv'
<1>1. TypeOK /\ ControlInv
  BY DEF IInv
<1>2. pc["watch"] = "add" /\ pc["main"] = "up" /\ "watch" \in Procs
  BY <1>1 DEF ControlInv, ReAdd, Procs
<1>3. Cur("watch") \in Types
  BY <1>1, <1>2, CurType
<1>4. /\ watched' \in SUBSET Types
      /\ UNCHANGED <<osVars, tabVars, events, job, got, made, snap, hups, missed>>
      /\ Goto("watch", "idle", 1) \/ Goto("watch", "dead", 1)
  BY <1>1, <1>3 DEF ReAdd, TypeOK
<1>5. job["watch"] \in {<<t>> : t \in Types}
  BY <1>1, <1>2 DEF ControlInv
<1>6. job' = [job EXCEPT !["watch"] = job["watch"]]
  BY <1>1, <1>2, <1>4 DEF TypeOK
<1>7. /\ file' \in [Types -> FileContent] /\ writing' \in SUBSET Types
      /\ events' \in Seq(Event) /\ missed' \in SUBSET Types
      /\ edits' \in Nat /\ hups' \in Nat
      /\ UNCHANGED <<tabVars, got, made, snap>>
  BY <1>1, <1>4 DEF TypeOK, osVars
<1>8. CASE Goto("watch", "idle", 1)
  BY <1>2, <1>4, <1>5, <1>6, <1>7, <1>8, TurnInv
<1>9. CASE Goto("watch", "dead", 1)
  BY <1>2, <1>4, <1>5, <1>6, <1>7, <1>9, TurnInv
<1> QED
  BY <1>4, <1>8, <1>9

(* Accepting a SIGHUP keeps the invariant. *)
LEMMA HupInv ==
  ASSUME IInv, Hup
  PROVE  IInv'
<1>1. TypeOK /\ ControlInv
  BY DEF IInv
<1>2. pc["main"] = "up"
  BY <1>1 DEF ControlInv, Hup
<1>3. /\ job' = [job EXCEPT !["signal"] = ReloadOrder]
      /\ Goto("signal", "load", 1)
      /\ hups' = hups + 1
      /\ UNCHANGED <<osVars, tabVars, watched, events, got, made, snap, missed>>
  BY DEF Hup
<1>4. /\ file' \in [Types -> FileContent] /\ writing' \in SUBSET Types
      /\ watched' \in SUBSET Types /\ events' \in Seq(Event)
      /\ missed' \in SUBSET Types
      /\ edits' \in Nat /\ hups' \in Nat
      /\ UNCHANGED <<tabVars, got, made, snap>>
  BY <1>1, <1>3 DEF TypeOK, osVars
<1> QED
  BY <1>2, <1>3, <1>4, TurnInv

(* Whatever the operator does to the files keeps the invariant, which says *)
(* nothing of them but their type.                                         *)
LEMMA FilesInv ==
  ASSUME IInv, file' \in [Types -> FileContent], writing' \in SUBSET Types,
         watched' \in SUBSET Types, events' \in Seq(Event),
         edits' \in Nat, missed' \in SUBSET Types,
         UNCHANGED <<tabVars, locVars, hups>>
  PROVE  IInv'
<1>1. TypeOK /\ ControlInv /\ LocalInv /\ TableInv
  BY DEF IInv
<1>2. TypeOK'
  BY <1>1 DEF TypeOK, tabVars, locVars
<1>3. ControlInv' /\ LocalInv'
  BY <1>1 DEF ControlInv, LocalInv, Cur, locVars
<1>4. TableInv'
  BY <1>1 DEF TableInv, tabVars, locVars
<1>5. BuiltInv' /\ CheckedInv'
  BY OuterFrame DEF locVars
<1> QED
  BY <1>2, <1>3, <1>4, <1>5 DEF IInv

(* A queued event is an event, whether or not there was room for it. *)
LEMMA PushType ==
  ASSUME NEW q \in Seq(Event), NEW t \in Types,
         NEW op \in {"write", "rename", "remove", "chmod"}
  PROVE  Push(q, t, op) \in Seq(Event)
<1>1. [file |-> t, op |-> op] \in Event
  BY DEF Event
<1> QED
  BY <1>1 DEF Push

LEMMA NotifyType ==
  ASSUME TypeOK, NEW t \in Types,
         \/ \E op \in {"write", "rename", "remove", "chmod"} : Notify(t, op)
         \/ NotifyGone(t)
  PROVE  events' \in Seq(Event)
<1>1. events \in Seq(Event)
  BY DEF TypeOK
<1>2. ASSUME NEW op \in {"write", "rename", "remove", "chmod"}, Notify(t, op)
      PROVE  events' \in Seq(Event)
  BY <1>1, <1>2, PushType DEF Notify
<1>3. CASE NotifyGone(t)
  <2>1. Push(events, t, "chmod") \in Seq(Event)
    BY <1>1, PushType
  <2>2. Push(Push(events, t, "chmod"), t, "remove") \in Seq(Event)
    BY <2>1, PushType
  <2> QED
    BY <1>1, <1>3, <2>2 DEF NotifyGone
<1> QED
  BY <1>2, <1>3

(* Every change the operator makes keeps the invariant. *)
LEMMA OperatorInv ==
  ASSUME IInv, Operator
  PROVE  IInv'
<1>1. TypeOK
  BY DEF IInv
<1>2. \A t \in Types : /\ Configs[t] \subseteq FileContent
                       /\ Truncated[t] \in FileContent
                       /\ Invalid \in FileContent /\ Absent \in FileContent
  BY DiscoveryAssumption DEF FileContent
<1>3. ASSUME NEW t \in Types, NEW n, Miss(t, n)
      PROVE  missed' \in SUBSET Types
  BY <1>1, <1>3 DEF Miss, TypeOK
<1>4. ASSUME NEW t \in Types, NEW kind, Edit(t, kind)
      PROVE  edits' \in Nat /\ UNCHANGED <<tabVars, locVars, hups>>
  BY <1>1, <1>4 DEF Edit, TypeOK
<1>5. ASSUME NEW t \in Types, BeginWrite(t)
      PROVE  IInv'
  <2>1. edits' \in Nat /\ UNCHANGED <<tabVars, locVars, hups>>
    BY <1>4, <1>5 DEF BeginWrite
  <2>2. missed' \in SUBSET Types
    BY <1>3, <1>5 DEF BeginWrite
  <2>3. events' \in Seq(Event)
    BY <1>1, <1>5, NotifyType DEF BeginWrite
  <2>4. /\ file' \in [Types -> FileContent] /\ writing' \in SUBSET Types
        /\ watched' \in SUBSET Types
    BY <1>1, <1>2, <1>5 DEF BeginWrite, TypeOK
  <2> QED
    BY <2>1, <2>2, <2>3, <2>4, FilesInv
<1>6. ASSUME NEW t \in Types, NEW c \in Configs[t], EndWrite(t, c)
      PROVE  IInv'
  <2>1. edits' \in Nat /\ UNCHANGED <<tabVars, locVars, hups>>
    BY <1>1, <1>6 DEF EndWrite, TypeOK
  <2>2. missed' \in SUBSET Types
    BY <1>3, <1>6 DEF EndWrite
  <2>3. events' \in Seq(Event)
    BY <1>1, <1>6, NotifyType DEF EndWrite
  <2>4. /\ file' \in [Types -> FileContent] /\ writing' \in SUBSET Types
        /\ watched' \in SUBSET Types
    BY <1>1, <1>2, <1>6 DEF EndWrite, TypeOK
  <2> QED
    BY <2>1, <2>2, <2>3, <2>4, FilesInv
<1>7. ASSUME NEW t \in Types, NEW c \in FileContent, Replace(t, c)
      PROVE  IInv'
  <2>1. edits' \in Nat /\ UNCHANGED <<tabVars, locVars, hups>>
    BY <1>4, <1>7 DEF Replace
  <2>2. missed' \in SUBSET Types
    BY <1>3, <1>7 DEF Replace
  <2>3. events' \in Seq(Event)
    BY <1>1, <1>7, NotifyType DEF Replace
  <2>4. /\ file' \in [Types -> FileContent] /\ writing' \in SUBSET Types
        /\ watched' \in SUBSET Types
    BY <1>1, <1>7 DEF Replace, TypeOK
  <2> QED
    BY <2>1, <2>2, <2>3, <2>4, FilesInv
<1>8. ASSUME NEW t \in Types, Delete(t)
      PROVE  IInv'
  <2>1. edits' \in Nat /\ UNCHANGED <<tabVars, locVars, hups>>
    BY <1>4, <1>8 DEF Delete
  <2>2. missed' \in SUBSET Types
    BY <1>3, <1>8 DEF Delete
  <2>3. events' \in Seq(Event)
    BY <1>1, <1>8, NotifyType DEF Delete
  <2>4. /\ file' \in [Types -> FileContent] /\ writing' \in SUBSET Types
        /\ watched' \in SUBSET Types
    BY <1>1, <1>2, <1>8 DEF Delete, TypeOK
  <2> QED
    BY <2>1, <2>2, <2>3, <2>4, FilesInv
<1>9. ASSUME NEW t \in Types, Chmod(t)
      PROVE  IInv'
  <2>1. edits' \in Nat /\ UNCHANGED <<tabVars, locVars, hups>>
    BY <1>4, <1>9 DEF Chmod
  <2>2. events' \in Seq(Event)
    BY <1>1, <1>9, NotifyType DEF Chmod
  <2>3. /\ file' \in [Types -> FileContent] /\ writing' \in SUBSET Types
        /\ watched' \in SUBSET Types /\ missed' \in SUBSET Types
    BY <1>1, <1>9 DEF Chmod, TypeOK
  <2> QED
    BY <2>1, <2>2, <2>3, FilesInv
<1>10. ASSUME NEW t \in Types, NEW c \in FileContent, Over(t, c)
      PROVE  IInv'
  <2>1. edits' \in Nat /\ UNCHANGED <<tabVars, locVars, hups>>
    BY <1>4, <1>10 DEF Over
  <2>2. missed' \in SUBSET Types
    BY <1>3, <1>10 DEF Over
  <2>3. events' \in Seq(Event)
    BY <1>1, <1>10, NotifyType DEF Over
  <2>4. /\ file' \in [Types -> FileContent] /\ writing' \in SUBSET Types
        /\ watched' \in SUBSET Types
    BY <1>1, <1>10 DEF Over, TypeOK
  <2> QED
    BY <2>1, <2>2, <2>3, <2>4, FilesInv
<1> QED
  BY <1>2, <1>5, <1>6, <1>7, <1>8, <1>9, <1>10 DEF Operator

-----------------------------------------------------------------------------
(* The inductive step, and the safety theorems.                            *)

(* Every step, and every stuttering step, keeps the invariant. *)
LEMMA NextInv == IInv /\ [Next]_vars => IInv'
<1> SUFFICES ASSUME IInv, [Next]_vars PROVE IInv'
  OBVIOUS
<1>1. ASSUME NEW p \in Procs, Step(p) PROVE IInv'
  BY <1>1, LoadInv, CreateInv, StoreInv, TakeSnapshotInv, SetSnapshotInv DEF Step
<1>2. CASE Watch
  BY <1>2, WatchInv
<1>3. CASE Receive
  BY <1>3, ReceiveInv
<1>4. CASE ReAdd
  BY <1>4, ReAddInv
<1>5. CASE Hup
  BY <1>5, HupInv
<1>6. CASE Operator
  BY <1>6, OperatorInv
<1>7. CASE UNCHANGED vars
  <2>1. UNCHANGED <<tabVars, locVars, hups>>
    BY <1>7 DEF vars, tabVars, locVars
  <2>2. /\ file' \in [Types -> FileContent] /\ writing' \in SUBSET Types
        /\ watched' \in SUBSET Types /\ events' \in Seq(Event)
        /\ edits' \in Nat /\ missed' \in SUBSET Types
    BY <1>7 DEF vars, IInv, TypeOK
  <2> QED
    BY <2>1, <2>2, FilesInv
<1> QED
  BY <1>1, <1>2, <1>3, <1>4, <1>5, <1>6, <1>7 DEF Next

(* The inductive invariant holds in every reachable state. *)
THEOREM Invariance == Spec => []IInv
<1>1. Init => IInv
  BY InitInv
<1>2. IInv /\ [Next]_vars => IInv'
  BY NextInv
<1> QED
  BY <1>1, <1>2, PTL DEF Spec

(* Every variable keeps its type, and no goroutine steps outside the list  *)
(* of files it works through.                                              *)
THEOREM TypeCorrect == Spec => []TypeOK
<1>1. IInv => TypeOK
  BY DEF IInv
<1> QED
  BY <1>1, Invariance, PTL

(* Envoy is only ever offered a snapshot that passed Snapshot.Consistent,  *)
(* however the loop and the SIGHUP handler interleave on the table.        *)
THEOREM ServedIsConsistent == Spec => []ServedConsistent
<1>1. IInv => ServedConsistent
  BY DEF IInv, CheckedInv
<1> QED
  BY <1>1, Invariance, PTL

(* No version in the served snapshot is, or ever was, a version of other   *)
(* content of its type.                                                    *)
THEOREM VersionsAreUnique == Spec => []VersionNamesContent
<1>1. ASSUME IInv PROVE VersionNamesContent
  <2> SUFFICES ASSUME cache # Nil, NEW t \in Types, NEW b \in built,
                      b.type = t, b.version = cache[t].version
               PROVE  b.config = cache[t].config
    BY DEF VersionNamesContent
  <2>1. BuiltInv
    BY <1>1 DEF IInv
  <2>2. Rec(t, cache[t]) \in built
    BY <2>1 DEF BuiltInv
  <2>3. Rec(t, cache[t]).type = t /\ Rec(t, cache[t]).version = cache[t].version
    BY DEF Rec
  <2>4. b = Rec(t, cache[t])
    BY <2>1, <2>2, <2>3 DEF BuiltInv
  <2> QED
    BY <2>4 DEF Rec
<1> QED
  BY <1>1, Invariance, PTL

(* resource.Snapshot never copies a nil route or a nil listener. *)
THEOREM NoNilInSnapshot == Spec => []NilNeverSnapshotted
<1>1. ASSUME IInv PROVE NilNeverSnapshotted
  BY <1>1, TableComplete DEF NilNeverSnapshotted, Types
<1> QED
  BY <1>1, Invariance, PTL

-----------------------------------------------------------------------------
(* WatchFile implements SnapshotService.                                   *)

(* Both modules speak of the same types, contents and check. *)
LEMMA SameData ==
  /\ Service!Types = Types
  /\ Service!Config = Config
  /\ \A cfg : Service!Consistent(cfg) <=> Consistent(cfg)
<1>1. \A c : Service!Mentioned(c) = Mentioned(c)
  BY DEF Mentioned, Service!Mentioned
<1>2. \A c : Service!RouteRefs(c) = RouteRefs(c) /\ Service!RouteNames(c) = RouteNames(c)
  BY DEF RouteRefs, RouteNames, RouteConfigName,
         Service!RouteRefs, Service!RouteNames, Service!RouteConfigName
<1>3. \A kind, n : Service!Xds(kind, n) = Xds(kind, n)
  BY DEF Xds, Service!Xds
<1>4. \A c : /\ Service!ServiceNames(c) = ServiceNames(c)
             /\ Service!AssignmentNames(c) = AssignmentNames(c)
  BY <1>1, <1>3 DEF ServiceNames, AssignmentNames,
                    Service!ServiceNames, Service!AssignmentNames
<1> QED
  BY <1>2, <1>4 DEF Types, Config, Consistent,
                    Service!Types, Service!Config, Service!Consistent

(* A create is a Create of the service. *)
LEMMA CreateRefines ==
  ASSUME IInv, NEW p \in Procs, Create(p)
  PROVE  Service!Next \/ UNCHANGED Service!svars
<1>1. TypeOK /\ LocalInv
  BY DEF IInv
<1>2. pc[p] = "create" /\ pc[p] \in Working
  BY DEF Create, Working
<1>3. /\ Cur(p) \in Types /\ at[p] \in Nat /\ 1 <= at[p] /\ at[p] <= Len(job[p])
      /\ Len(job[p]) \in Nat
  BY <1>1, <1>2, CurType
<1>4. got[p][Cur(p)] \in Config
  <2>1. got[p][Cur(p)] # Nil
    BY <1>1, <1>2, <1>3 DEF LocalInv, Cur
  <2> QED
    BY <2>1, <1>1, <1>3 DEF TypeOK
<1>5. CASE UNCHANGED <<version, built>>
  BY <1>5 DEF Create, Service!svars
<1>6. CASE /\ version' = [version EXCEPT ![Cur(p)] = version[Cur(p)] + 1]
           /\ built' = built \cup {[type |-> Cur(p), version |-> version[Cur(p)] + 1,
                                    config |-> got[p][Cur(p)]]}
  <2>1. cache' = cache
    BY DEF Create
  <2>2. Service!Create(Cur(p), got[p][Cur(p)])
    BY <2>1, <1>6 DEF Service!Create
  <2> QED
    BY <2>2, <1>3, <1>4, SameData DEF Service!Next
<1> QED
  BY <1>5, <1>6 DEF Create

(* Setting a snapshot publishes a checked selection of created resources. *)
LEMMA SetSnapshotRefines ==
  ASSUME IInv, NEW p \in Procs, SetSnapshot(p)
  PROVE  Service!Next
<1>1. TypeOK /\ LocalInv /\ BuiltInv /\ CheckedInv
  BY DEF IInv
<1>2. cache' = snap[p] /\ snap[p] # Nil /\ UNCHANGED <<version, built>>
  BY <1>1 DEF SetSnapshot, LocalInv
<1>3. cache' \in [Types -> Resource]
  BY <1>1, <1>2 DEF TypeOK, Snapshot
<1>4. ASSUME NEW t \in Types
      PROVE  cache'[t] \in Service!Offered(t)
  <2>1. /\ [type |-> t, version |-> cache'[t].version, config |-> cache'[t].config] \in built
        /\ cache'[t] = [version |-> cache'[t].version, config |-> cache'[t].config]
    BY <1>1, <1>2, <1>3 DEF BuiltInv, Rec, Resource
  <2> QED
    BY <2>1 DEF Service!Offered
<1>5. cache' \in [Types -> UNION {Service!Offered(t) : t \in Types}]
  BY <1>3, <1>4
<1>6. Consistent([t \in Types |-> cache'[t].config])
  BY <1>1, <1>2 DEF CheckedInv, Contents
<1>7. Service!Publish
  BY <1>2, <1>4, <1>5, <1>6, SameData DEF Service!Publish, Service!Selections
<1> QED
  BY <1>7 DEF Service!Next

(* The control plane keeps the promise of SnapshotService: fresh versions, *)
(* and one consistent selection of created resources at a time.            *)
THEOREM Refinement == Spec => ImplementsService
<1>1. Init => Service!Init
  BY SameData DEF Init, Service!Init
<1>2. IInv /\ [Next]_vars => [Service!Next]_(Service!svars)
  <2> SUFFICES ASSUME IInv, [Next]_vars
               PROVE  Service!Next \/ UNCHANGED Service!svars
    OBVIOUS
  <2>1. ASSUME NEW p \in Procs, Create(p) \/ SetSnapshot(p)
        PROVE  Service!Next \/ UNCHANGED Service!svars
    BY <2>1, CreateRefines, SetSnapshotRefines
  <2>2. ASSUME NEW p \in Procs, Load(p) \/ Store(p) \/ TakeSnapshot(p)
        PROVE  UNCHANGED Service!svars
    BY <2>2 DEF Load, Store, TakeSnapshot, tabVars, Service!svars
  <2>3. CASE Watch \/ Receive \/ ReAdd \/ Hup
    BY <2>3 DEF Watch, Receive, ReAdd, Hup, tabVars, Service!svars
  <2>4. CASE Operator
    BY <2>4 DEF Operator, BeginWrite, EndWrite, Replace, Over, Delete, Chmod, Edit, tabVars,
                Service!svars
  <2>5. CASE UNCHANGED vars
    BY <2>5 DEF vars, Service!svars
  <2> QED
    BY <2>1, <2>2, <2>3, <2>4, <2>5 DEF Next, Step
<1> QED
  BY <1>1, <1>2, Invariance, PTL DEF Spec, ImplementsService, Service!Spec

=============================================================================
