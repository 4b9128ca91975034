------------------------------ MODULE WatchFile ------------------------------
(***************************************************************************)
(* The control plane from the yaml files to the snapshot cache: the shared *)
(* resource table, the per-type version counters, and the three goroutines *)
(* that drive them.                                                        *)
(*                                                                         *)
(*   "main"    runs the initial ReloadAll and then starts the watcher;     *)
(*   "watch"   is watchFileLoop: one file event, one changeXxxYaml;        *)
(*   "signal"  is watchSignal: one ReloadAll per accepted SIGHUP.          *)
(*                                                                         *)
(* The goroutines share the table behind its mutex and the atomic counters *)
(* only, so every lock section, every atomic addition and every file read  *)
(* is a step of its own and all their interleavings are explored.          *)
(***************************************************************************)
EXTENDS Discovery

CONSTANTS
  InitFiles,  \* the files the process may find when it starts
  Edits,      \* <<t, kind>>: the ways in which the operator changes file t
  MaxEdits,   \* bound on the operator's changes
  MaxHups,    \* bound on the SIGHUPs that reach the handler
  MaxEvents   \* capacity of the queue between the kernel and the loop

EditKinds == {"inplace", "replace", "over", "delete", "chmod"}

(* What create returns for a type, and what resource.Snapshot copies.      *)
Resource == [version : Nat, config : Config]
Snapshot == [Types -> Resource]

ASSUME WatchFileAssumption ==
  /\ InitFiles \subseteq [Types -> FileContent]
  /\ Edits \subseteq Types \X EditKinds
  /\ MaxEdits \in Nat
  /\ MaxHups \in Nat
  /\ MaxEvents \in Nat
  /\ Nil \notin Resource \cup Snapshot

VARIABLES
  file,     \* file[t]: content of the yaml file of type t
  writing,  \* files whose in-place write has not finished
  watched,  \* files whose current inode fsnotify watches
  events,   \* the watcher's event channel
  version,  \* version[t]: counter of the discovery service of type t
  res,      \* res[t]: version and content of type t in the resource table
  cache,    \* the node's snapshot in the SnapshotCache, or Nil
  pc,       \* pc[p]: next step of goroutine p
  job,      \* job[p]: the types goroutine p works through, in order
  at,       \* at[p]: position in job[p]
  got,      \* got[p][t]: what load returned
  made,     \* made[p][t]: what create returned
  snap,     \* snap[p]: what resource.Snapshot returned
  edits,    \* changes made by the operator so far
  hups,     \* SIGHUPs accepted so far
  built,    \* history: every resource version ever created
  missed    \* history: files changed without an event and not loaded since

osVars  == <<file, writing, edits>>
tabVars == <<version, res, cache, built>>
locVars == <<pc, job, at, got, made, snap>>
vars    == <<file, writing, watched, events, version, res, cache, pc, job, at,
             got, made, snap, edits, hups, built, missed>>

Procs == {"main", "watch", "signal"}

ReloadOrder == <<"cds", "eds", "rds", "lds">>
WatchOrder  == <<"cds", "eds", "lds", "rds">>

Working == {"load", "create", "store", "snapshot", "set"}

Cur(p) == job[p][at[p]]

NoResult == [t \in Types |-> Nil]

(* The configurations behind a table or a snapshot. *)
Contents(s) == [t \in Types |-> s[t].config]

-----------------------------------------------------------------------------
(* Initial state: newResource, NewSnapshotCache, counters at 0, and        *)
(* serverAction about to call ReloadAll.                                   *)

(* Mutant of Init: the loop runs before the initial ReloadAll has ended.    *)
InitLoopFirst ==
  /\ file \in InitFiles
  /\ writing = {}
  /\ watched = Types
  /\ events = <<>>
  /\ version = [t \in Types |-> 0]
  /\ res = [t \in Types |-> [version |-> 0, config |-> Nil]]
  /\ cache = Nil
  /\ pc = [main |-> "load", watch |-> "idle", signal |-> "off"]
  /\ job = [main |-> ReloadOrder, watch |-> <<>>, signal |-> <<>>]
  /\ at = [p \in Procs |-> 1]
  /\ got = [p \in Procs |-> NoResult]
  /\ made = [p \in Procs |-> NoResult]
  /\ snap = [p \in Procs |-> Nil]
  /\ edits = 0 /\ hups = 0
  /\ built = {} /\ missed = {}

Init ==
  /\ file \in InitFiles
  /\ writing = {}
  /\ watched = {}
  /\ events = <<>>
  /\ version = [t \in Types |-> 0]
  /\ res = [t \in Types |-> [version |-> 0, config |-> Nil]]
  /\ cache = Nil
  /\ pc = [p \in Procs |-> IF p = "main" THEN "load" ELSE "off"]
  /\ job = [p \in Procs |-> IF p = "main" THEN ReloadOrder ELSE <<>>]
  /\ at = [p \in Procs |-> 1]
  /\ got = [p \in Procs |-> NoResult]
  /\ made = [p \in Procs |-> NoResult]
  /\ snap = [p \in Procs |-> Nil]
  /\ edits = 0
  /\ hups = 0
  /\ built = {}
  /\ missed = {}

-----------------------------------------------------------------------------
(* Control flow of a goroutine.                                            *)

Goto(p, step, i) ==
  /\ pc' = [pc EXCEPT ![p] = step]
  /\ at' = [at EXCEPT ![p] = i]

(* Mutant of Advance: one type too far. *)
AdvanceTooFar(p, again, next) ==
  IF at[p] <= Len(job[p])
    THEN Goto(p, again, at[p] + 1)
    ELSE Goto(p, next, 1)

(* The next type of the current phase, or the first type of the next one.  *)
Advance(p, again, next) ==
  IF at[p] < Len(job[p])
    THEN Goto(p, again, at[p] + 1)
    ELSE Goto(p, next, 1)

(* Mutant of Return: serverAction goes on to Watch after an error.          *)
ReturnRegardless(p, ok) ==
  /\ Goto(p, IF p = "signal" THEN "idle" ELSE "add", 1)
  /\ job' = IF p = "main" THEN [job EXCEPT ![p] = WatchOrder] ELSE job
  /\ got' = [got EXCEPT ![p] = NoResult]
  /\ made' = [made EXCEPT ![p] = NoResult]
  /\ snap' = [snap EXCEPT ![p] = Nil]

(* ReloadAll or changeXxxYaml returns: serverAction gives up on an error   *)
(* and goes on to Watch otherwise, the loop re-adds the file either way,   *)
(* and watchSignal waits for the next signal either way.                   *)
Return(p, ok) ==
  /\ Goto(p, CASE p = "main"   -> IF ok THEN "add" ELSE "exit"
               [] p = "watch"  -> "add"
               [] p = "signal" -> "idle", 1)
  /\ job' = IF p = "main" THEN [job EXCEPT ![p] = WatchOrder] ELSE job
  /\ got' = [got EXCEPT ![p] = NoResult]
  /\ made' = [made EXCEPT ![p] = NoResult]
  /\ snap' = [snap EXCEPT ![p] = Nil]

(* loadCds, loadEds, loadRds, loadLds: read, unmarshal and validate.       *)
Load(p) ==
  LET t == Cur(p) IN
  /\ pc[p] = "load"
  /\ missed' = missed \ {t}
  /\ \/ /\ Loaded(file[t]) # Nil
        /\ got' = [got EXCEPT ![p][t] = file[t]]
        /\ Advance(p, "load", "create")
        /\ UNCHANGED <<job, made, snap>>
     \/ /\ Loaded(file[t]) = Nil
        /\ Return(p, FALSE)
  /\ UNCHANGED <<osVars, tabVars, watched, events, hups>>

(* Mutant of Create: the counter is read but not incremented.               *)
CreateSameVersion(p) ==
  LET t == Cur(p)
      r == [version |-> version[t] + 1, config |-> got[p][t]]
  IN
  /\ pc[p] = "create"
  /\ r.config \notin Unbuildable
  /\ made' = [made EXCEPT ![p][t] = r]
  /\ built' = built \cup {[type |-> t, version |-> r.version, config |-> r.config]}
  /\ Goto(p, "store", at[p])
  /\ UNCHANGED <<osVars, watched, events, version, res, cache, job, got, snap,
                 hups, missed>>

(* cds.create, eds.create, rds.create, lds.create: take the next version.  *)
(* Only the listener can fail, and it does so before it takes a version.   *)
Create(p) ==
  LET t == Cur(p)
      c == got[p][t]
      v == version[t] + 1
  IN
  /\ pc[p] = "create"
  /\ \/ /\ c \notin Unbuildable
        /\ version' = [version EXCEPT ![t] = v]
        /\ made' = [made EXCEPT ![p][t] = [version |-> v, config |-> c]]
        /\ built' = built \cup {[type |-> t, version |-> v, config |-> c]}
        /\ Goto(p, "store", at[p])
        /\ UNCHANGED <<job, got, snap>>
     \/ /\ c \in Unbuildable
        /\ Return(p, FALSE)
        /\ UNCHANGED <<version, built>>
  /\ UNCHANGED <<osVars, watched, events, res, cache, hups, missed>>

(* Mutant of Store: the loop and the SIGHUP handler forget updateSnapshot.  *)
StoreWithoutSnapshot(p) ==
  LET t == Cur(p)
      next == [main |-> "snapshot", watch |-> "add", signal |-> "idle"]
  IN
  /\ pc[p] = "store"
  /\ res' = [res EXCEPT ![t] = made[p][t]]
  /\ Advance(p, "create", next[p])
  /\ UNCHANGED <<osVars, watched, events, version, cache, built, job, got,
                 made, snap, hups, missed>>

(* resource.updateCluster, updateEndpoint, updateRoute, updateListener.    *)
Store(p) ==
  LET t == Cur(p) IN
  /\ pc[p] = "store"
  /\ res' = [res EXCEPT ![t] = made[p][t]]
  /\ Advance(p, "create", "snapshot")
  /\ UNCHANGED <<osVars, watched, events, version, cache, built, job, got,
                 made, snap, hups, missed>>

(* Mutant of TakeSnapshot: the consistency check is forgotten.              *)
TakeSnapshotUnchecked(p) ==
  /\ pc[p] = "snapshot"
  /\ snap' = [snap EXCEPT ![p] = res]
  /\ Goto(p, "set", 1)
  /\ UNCHANGED <<osVars, tabVars, watched, events, hups, missed, job, got, made>>

(* resource.Snapshot: copy the table and check it under the read lock.     *)
TakeSnapshot(p) ==
  /\ pc[p] = "snapshot"
  /\ \/ /\ Consistent(Contents(res))
        /\ snap' = [snap EXCEPT ![p] = res]
        /\ Goto(p, "set", 1)
        /\ UNCHANGED <<job, got, made>>
     \/ /\ ~Consistent(Contents(res))
        /\ Return(p, FALSE)
  /\ UNCHANGED <<osVars, tabVars, watched, events, hups, missed>>

(* Mutant of SetSnapshot: the table is read again after the check.          *)
SetTable(p) ==
  /\ pc[p] = "set"
  /\ cache' = res
  /\ Return(p, TRUE)
  /\ UNCHANGED <<osVars, watched, events, version, res, built, hups, missed>>

(* cache.SetSnapshot, outside the lock of the table.                       *)
SetSnapshot(p) ==
  /\ pc[p] = "set"
  /\ cache' = snap[p]
  /\ Return(p, TRUE)
  /\ UNCHANGED <<osVars, watched, events, version, res, built, hups, missed>>

-----------------------------------------------------------------------------
(* WatchFile.Watch: main adds the four files in turn and starts the loop   *)
(* and the signal handler; a file that does not exist ends the process.    *)
Watch ==
  LET t == Cur("main") IN
  /\ pc["main"] = "add"
  /\ \/ /\ file[t] # Absent
        /\ watched' = watched \cup {t}
        /\ IF at["main"] < Len(WatchOrder)
             THEN Goto("main", "add", at["main"] + 1)
             ELSE /\ pc' = [p \in Procs |-> IF p = "main" THEN "up" ELSE "idle"]
                  /\ at' = [at EXCEPT !["main"] = 1]
     \/ /\ file[t] = Absent
        /\ Goto("main", "exit", 1)
        /\ UNCHANGED watched
  /\ UNCHANGED <<osVars, tabVars, events, job, got, made, snap, hups, missed>>

(* Mutant of Receive: only plain writes are handled. *)
ReceiveWritesOnly ==
  LET e == Head(events) IN
  /\ pc["watch"] = "idle"
  /\ events # <<>>
  /\ events' = Tail(events)
  /\ job' = [job EXCEPT !["watch"] = <<e.file>>]
  /\ Goto("watch", IF e.op = "write" THEN "load" ELSE "add", 1)
  /\ UNCHANGED <<osVars, tabVars, watched, got, made, snap, hups, missed>>

(* Mutant of Receive: events are coalesced, although files may differ. *)
ReceiveAllAsOne ==
  LET e == Head(events) IN
  /\ pc["watch"] = "idle"
  /\ events # <<>>
  /\ events' = <<>>
  /\ job' = [job EXCEPT !["watch"] = <<e.file>>]
  /\ Goto("watch", IF e.op = "chmod" THEN "add" ELSE "load", 1)
  /\ UNCHANGED <<osVars, tabVars, watched, got, made, snap, hups, missed>>

(* watchFileLoop receives an event; a pure chmod changes nothing.          *)
Receive ==
  LET e == Head(events) IN
  /\ pc["watch"] = "idle"
  /\ events # <<>>
  /\ events' = Tail(events)
  /\ job' = [job EXCEPT !["watch"] = <<e.file>>]
  /\ Goto("watch", IF e.op = "chmod" THEN "add" ELSE "load", 1)
  /\ UNCHANGED <<osVars, tabVars, watched, got, made, snap, hups, missed>>

(* "recursive watch": the loop adds the file again, and ends if it cannot. *)
(* Add is taken at its word: the inode that the path names now is watched, *)
(* whatever became of the one before.                                      *)
ReAdd ==
  LET t == Cur("watch") IN
  /\ pc["watch"] = "add"
  /\ \/ /\ file[t] # Absent
        /\ watched' = watched \cup {t}
        /\ Goto("watch", "idle", 1)
     \/ /\ file[t] = Absent
        /\ Goto("watch", "dead", 1)
        /\ UNCHANGED watched
  /\ UNCHANGED <<osVars, tabVars, events, job, got, made, snap, hups, missed>>

(* watchSignal receives a SIGHUP.  The channel is unbuffered: a signal that *)
(* arrives while a reload is running is dropped, so only this case counts. *)
Hup ==
  /\ pc["signal"] = "idle"
  /\ hups < MaxHups
  /\ hups' = hups + 1
  /\ job' = [job EXCEPT !["signal"] = ReloadOrder]
  /\ Goto("signal", "load", 1)
  /\ UNCHANGED <<osVars, tabVars, watched, events, got, made, snap, missed>>

-----------------------------------------------------------------------------
(* The operator and the file system (external).  A change of a watched     *)
(* file queues its events, as far as the queue of inotify has room: what   *)
(* does not fit is lost, and the loop only logs the overflow.  Replacing   *)
(* or deleting a file takes the watched inode away.                        *)

Push(q, t, op) ==
  IF Len(q) < MaxEvents THEN Append(q, [file |-> t, op |-> op]) ELSE q

Notify(t, op) == events' = IF t \in watched THEN Push(events, t, op) ELSE events

(* The last link of a watched inode goes: its attributes change first.     *)
NotifyGone(t) ==
  events' = IF t \in watched THEN Push(Push(events, t, "chmod"), t, "remove")
                             ELSE events

(* Content changed, and n events are due for it. *)
Miss(t, n) ==
  missed' = IF t \in watched /\ Len(events) + n <= MaxEvents
              THEN missed
              ELSE missed \cup {t}

Edit(t, kind) ==
  /\ <<t, kind>> \in Edits
  /\ pc["main"] # "exit"
  /\ edits < MaxEdits
  /\ edits' = edits + 1
  /\ UNCHANGED <<tabVars, locVars, hups>>

(* Open with O_TRUNC: the body is still to be written. *)
BeginWrite(t) ==
  /\ Edit(t, "inplace")
  /\ t \notin writing
  /\ file[t] # Absent
  /\ file' = [file EXCEPT ![t] = Truncated[t]]
  /\ writing' = writing \cup {t}
  /\ Notify(t, "write")
  /\ Miss(t, 1)
  /\ UNCHANGED watched

EndWrite(t, c) ==
  /\ t \in writing
  /\ file' = [file EXCEPT ![t] = c]
  /\ writing' = writing \ {t}
  /\ Notify(t, "write")
  /\ Miss(t, 1)
  /\ UNCHANGED <<tabVars, locVars, watched, edits, hups>>

(* The old file is moved away and a finished one created, as editors do.   *)
Replace(t, c) ==
  /\ Edit(t, "replace")
  /\ t \notin writing
  /\ file' = [file EXCEPT ![t] = c]
  /\ Notify(t, "rename")
  /\ Miss(t, 1)
  /\ watched' = watched \ {t}
  /\ UNCHANGED writing

(* A finished file is renamed over the old one, which is gone.              *)
Over(t, c) ==
  /\ Edit(t, "over")
  /\ t \notin writing
  /\ file' = [file EXCEPT ![t] = c]
  /\ NotifyGone(t)
  /\ Miss(t, 2)
  /\ watched' = watched \ {t}
  /\ UNCHANGED writing

Delete(t) ==
  /\ Edit(t, "delete")
  /\ t \notin writing
  /\ file[t] # Absent
  /\ file' = [file EXCEPT ![t] = Absent]
  /\ NotifyGone(t)
  /\ Miss(t, 2)
  /\ watched' = watched \ {t}
  /\ UNCHANGED writing

Chmod(t) ==
  /\ Edit(t, "chmod")
  /\ file[t] # Absent
  /\ Notify(t, "chmod")
  /\ UNCHANGED <<file, writing, watched, missed>>

Operator ==
  \E t \in Types :
    \/ BeginWrite(t)
    \/ \E c \in Configs[t] : EndWrite(t, c) \/ Replace(t, c) \/ Over(t, c)
    \/ Replace(t, Invalid) \/ Over(t, Invalid)
    \/ Delete(t)
    \/ Chmod(t)

-----------------------------------------------------------------------------
(* The specification.                                                      *)

Step(p) == Load(p) \/ Create(p) \/ Store(p) \/ TakeSnapshot(p) \/ SetSnapshot(p)

Next ==
  \/ \E p \in Procs : Step(p)
  \/ Watch
  \/ Receive
  \/ ReAdd
  \/ Hup
  \/ Operator

Spec == Init /\ [][Next]_vars

(* The Go scheduler runs every runnable goroutine and the lock is fair to  *)
(* readers and writers; neither the operator nor a signal ever has to act. *)
Fairness ==
  /\ WF_vars(Step("main") \/ Watch)
  /\ WF_vars(Step("watch") \/ Receive \/ ReAdd)
  /\ WF_vars(Step("signal"))

FairSpec == Spec /\ Fairness

-----------------------------------------------------------------------------
(* Type invariant.                                                         *)

Event == [file : Types, op : {"write", "rename", "remove", "chmod"}]

(* Every variable holds a value of its Go type; a goroutine that is         *)
(* working stands inside the list of types it works through.               *)
TypeOK ==
  /\ file \in [Types -> FileContent]
  /\ writing \in SUBSET Types
  /\ watched \in SUBSET Types
  /\ events \in Seq(Event)
  /\ version \in [Types -> Nat]
  /\ res \in [Types -> [version : Nat, config : Config \cup {Nil}]]
  /\ cache \in Snapshot \cup {Nil}
  /\ pc \in [Procs -> Working \cup {"off", "idle", "add", "dead", "up", "exit"}]
  /\ job \in [Procs -> {<<>>, ReloadOrder, WatchOrder} \cup {<<t>> : t \in Types}]
  /\ at \in [Procs -> 1 .. 4]
  /\ \A p \in Procs : pc[p] \in Working \cup {"add"} => at[p] <= Len(job[p])
  /\ got \in [Procs -> [Types -> Config \cup {Nil}]]
  /\ made \in [Procs -> [Types -> Resource \cup {Nil}]]
  /\ snap \in [Procs -> Snapshot \cup {Nil}]
  /\ edits \in Nat
  /\ hups \in Nat
  /\ built \in SUBSET [type : Types, version : Nat, config : Config]
  /\ missed \in SUBSET Types

-----------------------------------------------------------------------------
(* Safety, whatever the interleaving of the three goroutines.              *)

(* What Envoy is offered always passed the consistency check, although the *)
(* table that the snapshot was copied from may be inconsistent between and *)
(* during reloads (resource.Snapshot, WatchFile.updateSnapshot).           *)
ServedConsistent == cache # Nil => Consistent(Contents(cache))

(* A version that was once served names one content only.  Every type of a *)
(* snapshot carries the four versions joined (versionString), and the      *)
(* SnapshotCache answers a watch only if that string is not Envoy's, so a  *)
(* version reused for other content might never be delivered.  It rests on *)
(* the atomic counters and on version and content being stored in one lock *)
(* section (increVersion, updateCluster and its kin).                      *)
VersionNamesContent ==
  cache # Nil =>
    \A t \in Types : \A b \in built :
      b.type = t /\ b.version = cache[t].version => b.config = cache[t].config

(* resource.Snapshot never copies a nil route or listener: the consistency *)
(* check would dereference the listener, and the route would be offered    *)
(* without a name.  The table is complete before any goroutine but main    *)
(* runs (serverAction loads before it starts Watch).                       *)
NilNeverSnapshotted ==
  \A p \in Procs : pc[p] = "snapshot" =>
    /\ res["rds"].config # Nil
    /\ res["lds"].config # Nil

(* The control plane keeps the promise of SnapshotService: every version   *)
(* is fresh, and what SetSnapshot installs is a consistent selection of    *)
(* created resources, whatever the goroutines do to the table meanwhile.   *)
Service == INSTANCE SnapshotService
             WITH counter <- version, created <- built, served <- cache

ImplementsService == Service!Spec

-----------------------------------------------------------------------------
(* Safety that holds as long as only one goroutine reloads at a time.      *)

(* The snapshot Envoy sees never goes back to an older version of a type.  *)
ServedNeverRegresses ==
  [][cache # Nil => \A t \in Types : cache'[t].version >= cache[t].version]_cache

(* Between two events the cache serves exactly the table, unless the table *)
(* is inconsistent and waits for another file to be changed.               *)
IdleServesTable ==
  pc["watch"] = "idle" /\ Consistent(Contents(res)) => cache = res

(* The operator has finished, and what it left is valid and agrees.        *)
FilesGood ==
  /\ writing = {}
  /\ \A t \in Types : file[t] \in Config \ Unbuildable
  /\ Consistent(file)

FilesServed == cache # Nil /\ Contents(cache) = file

(* Whenever the loop waits and no event is queued, it has caught up: the   *)
(* cache holds what the files say, if they are valid and agree, and none   *)
(* was changed without an event (changeXxxYaml, "recursive watch").        *)
QuietServesFiles ==
  pc["watch"] = "idle" /\ events = <<>> /\ missed = {} /\ FilesGood => FilesServed

-----------------------------------------------------------------------------
(* What the comments of the code say of ReloadAll.                         *)

Reloading(p) == job[p] = ReloadOrder /\ pc[p] \in Working

(* "all or nothing reload" (watch.go): while a ReloadAll is under way       *)
(* nothing that it made is served yet.                                     *)
AllOrNothing ==
  \A p \in Procs : Reloading(p) /\ cache # Nil =>
    \A t \in Types : made[p][t] # Nil => cache[t] # made[p][t]

-----------------------------------------------------------------------------
(* Liveness.                                                               *)

(* "Dynamic update of yaml files" (README): when the files are valid and   *)
(* agree with each other in the end, they are what is served in the end,   *)
(* but for an edit made before the file was watched, while the loop had    *)
(* not yet re-added it, or after the loop ended.                           *)
WatchedEditsReachCache ==
  <>[](pc["main"] = "up" /\ pc["watch"] # "dead" /\ missed = {} /\ FilesGood
       => FilesServed)

(* A SIGHUP taken while the loop has nothing to do brings the cache to the *)
(* files for good, whatever was missed before, if the operator is done.    *)
LoopQuiet == events = <<>> /\ pc["watch"] \in {"idle", "dead"}

HupRepairs ==
  [](/\ Reloading("signal")
     /\ pc["signal"] = "load" /\ at["signal"] = 1
     /\ LoopQuiet /\ FilesGood /\ edits = MaxEdits
     => <>[]FilesServed)

=============================================================================
