------------------------------ MODULE Delivery ------------------------------
(***************************************************************************)
(* From the snapshot cache to Envoy: the streams of the xDS server, the    *)
(* watches the cache leaves open, responses, ACKs and NACKs, lost          *)
(* connections, and the end and restart of the control plane.              *)
(*                                                                         *)
(* The control plane is SnapshotService: whatever it creates and publishes *)
(* may happen, in any order.  Envoy has one stream per type (xdsConfig     *)
(* asks for GRPC, not for ADS), and a stream has one request, one open     *)
(* watch or one response under way at a time.                              *)
(*                                                                         *)
(* The cache and the server are those of go-control-plane v0.11.1, seen    *)
(* from how watch.go and server.go use them.                               *)
(***************************************************************************)
EXTENDS SnapshotService

CONSTANTS
  Subs,        \* types whose streams are followed
  Rejected,    \* contents that Envoy does not accept
  MaxVersion,  \* MaxVersion[t]: bound on the resources of type t per process
  MaxPublish,  \* bound on the calls of SetSnapshot
  MaxFaults    \* bound on lost connections, cancellations and crashes

Version == [Types -> Nat]
Snapshot == [Types -> [version : Nat, config : Config]]
DiscoveryResponse == [version : Version, config : Config, run : Nat]

ASSUME DeliveryAssumption ==
  /\ Nil \notin Version \cup Snapshot \cup DiscoveryResponse
  /\ Subs \subseteq Types
  /\ Rejected \subseteq Config
  /\ MaxVersion \in [Types -> Nat]
  /\ MaxPublish \in Nat
  /\ MaxFaults \in Nat

VARIABLES
  cancelled,  \* the context of the process is done
  phase,      \* phase[s]: "down", "request", "watch" or "response"
  answer,     \* answer[s]: Envoy's last answer on the stream
  sent,       \* sent[s]: the response under way, or Nil
  held,       \* held[s]: the response Envoy accepted last, or Nil
  run,        \* history: number of the process
  published,  \* calls of SetSnapshot so far
  faults      \* faults so far

streamVars == <<phase, answer, sent, held>>
dvars == <<svars, streamVars, cancelled, run, published, faults>>

(* Subscriptions that name their resources: Envoy asks for the endpoints   *)
(* of a cluster and for the route configuration of a listener by name, and *)
(* for all clusters and listeners.                                         *)
Named == {"eds", "rds"}

(* Mutant of VersionString: the version of the route is left out. *)
VersionStringShort(s) == [t \in Types \ {"rds"} |-> s[t].version]

(* versionString: every type of a snapshot carries the four versions.      *)
VersionString(s) == [t \in Types |-> s[t].version]

(* The version_info of a request; Nil for the empty string. *)
Info(s) == IF held[s] = Nil THEN Nil ELSE held[s].version

Response(s, snapshot) ==
  [version |-> VersionString(snapshot), config |-> snapshot[s].config, run |-> run]

-----------------------------------------------------------------------------
DInit ==
  /\ Init
  /\ cancelled = FALSE
  /\ phase = [s \in Subs |-> "down"]
  /\ answer = [s \in Subs |-> "none"]
  /\ sent = [s \in Subs |-> Nil]
  /\ held = [s \in Subs |-> Nil]
  /\ run = 0
  /\ published = 0
  /\ faults = 0

(* A reload builds one more resource. *)
Build ==
  /\ \E t \in Types : \E c \in Configs[t] :
       counter[t] < MaxVersion[t] /\ Create(t, c)
  /\ UNCHANGED <<streamVars, cancelled, run, published, faults>>

(* Mutant of Connect: the server is started before the first ReloadAll. *)
ConnectEarly(s) ==
  /\ phase[s] = "down"
  /\ ~cancelled
  /\ phase' = [phase EXCEPT ![s] = "request"]
  /\ UNCHANGED <<svars, answer, sent, held, cancelled, run, published, faults>>

(* The server accepts streams once the first snapshot is in the cache      *)
(* (serverAction starts it after ReloadAll), and ends them on cancellation. *)
Connect(s) ==
  /\ phase[s] = "down"
  /\ served # Nil
  /\ ~cancelled
  /\ phase' = [phase EXCEPT ![s] = "request"]
  /\ UNCHANGED <<svars, answer, sent, held, cancelled, run, published, faults>>

(* Mutant of CreateWatch: the version is not looked at. *)
CreateWatchAlways(s) ==
  /\ phase[s] = "request"
  /\ phase' = [phase EXCEPT ![s] = "watch"]
  /\ UNCHANGED <<svars, answer, sent, held, cancelled, run, published, faults>>

(* The cache answers a request at once if its version is not the one on    *)
(* offer or if the stream has not received the resource it names, and      *)
(* leaves a watch open otherwise.                                          *)
CreateWatch(s) ==
  /\ phase[s] = "request"
  /\ IF Info(s) # VersionString(served) \/ (s \in Named /\ answer[s] = "none")
       THEN /\ phase' = [phase EXCEPT ![s] = "response"]
            /\ sent' = [sent EXCEPT ![s] = Response(s, served)]
       ELSE /\ phase' = [phase EXCEPT ![s] = "watch"]
            /\ UNCHANGED sent
  /\ UNCHANGED <<svars, answer, held, cancelled, run, published, faults>>

(* Envoy accepts a response, or rejects it and repeats its last version.   *)
Receive(s) ==
  /\ phase[s] = "response"
  /\ \/ /\ sent[s].config \notin Rejected
        /\ held' = [held EXCEPT ![s] = sent[s]]
        /\ answer' = [answer EXCEPT ![s] = "ack"]
     \/ /\ sent[s].config \in Rejected
        /\ answer' = [answer EXCEPT ![s] = "nack"]
        /\ UNCHANGED held
  /\ phase' = [phase EXCEPT ![s] = "request"]
  /\ sent' = [sent EXCEPT ![s] = Nil]
  /\ UNCHANGED <<svars, cancelled, run, published, faults>>

(* The watches that a new snapshot finds behind. *)
Behind(snapshot) ==
  {s \in Subs : phase[s] = "watch" /\ Info(s) # VersionString(snapshot)}

(* Mutant of SetSnapshot: open watches are not answered. *)
SetSnapshotSilently ==
  /\ published < MaxPublish
  /\ published' = published + 1
  /\ Publish
  /\ UNCHANGED <<streamVars, cancelled, run, faults>>

(* SetSnapshot replaces the snapshot and answers the watches it is behind; *)
(* once the context is done it may give up at any of them, and the error   *)
(* is dropped by updateSnapshot.                                           *)
SetSnapshot ==
  /\ published < MaxPublish
  /\ published' = published + 1
  /\ Publish
  /\ \E answered \in SUBSET Behind(served') :
       /\ cancelled \/ answered = Behind(served')
       /\ phase' = [s \in Subs |-> IF s \in answered THEN "response" ELSE phase[s]]
       /\ sent' = [s \in Subs |-> IF s \in answered THEN Response(s, served') ELSE sent[s]]
  /\ UNCHANGED <<answer, held, cancelled, run, faults>>

-----------------------------------------------------------------------------
Fault ==
  /\ faults < MaxFaults
  /\ faults' = faults + 1
  /\ UNCHANGED published

(* A connection is lost, with what was under way on it. *)
Break(s) ==
  /\ Fault
  /\ phase[s] # "down"
  /\ phase' = [phase EXCEPT ![s] = "down"]
  /\ answer' = [answer EXCEPT ![s] = "none"]
  /\ sent' = [sent EXCEPT ![s] = Nil]
  /\ UNCHANGED <<svars, held, cancelled, run>>

(* watchSignal cancels the context. *)
Cancel ==
  /\ Fault
  /\ ~cancelled
  /\ cancelled' = TRUE
  /\ UNCHANGED <<svars, streamVars, run>>

(* The process ends, cancelled or not, and a new one starts with an empty  *)
(* cache and counters at 0.  Envoy keeps what it holds.                    *)
Restart ==
  /\ Fault
  /\ counter' = [t \in Types |-> 0]
  /\ created' = {}
  /\ served' = Nil
  /\ cancelled' = FALSE
  /\ run' = run + 1
  /\ phase' = [s \in Subs |-> "down"]
  /\ answer' = [s \in Subs |-> "none"]
  /\ sent' = [s \in Subs |-> Nil]
  /\ UNCHANGED held

Stream(s) == Connect(s) \/ CreateWatch(s) \/ Receive(s)

DNext ==
  \/ Build
  \/ SetSnapshot
  \/ \E s \in Subs : Stream(s) \/ Break(s)
  \/ Cancel
  \/ Restart

DSpec == DInit /\ [][DNext]_dvars

(* Envoy reconnects and answers; the server serves each stream.  Reloads,  *)
(* faults and restarts need not happen.                                    *)
FairDSpec == DSpec /\ \A s \in Subs : WF_dvars(Stream(s))

-----------------------------------------------------------------------------
(* Variables have the type their comments give; a response is under way    *)
(* exactly in its phase, and streams need a snapshot to be served from.    *)
DTypeOK ==
  /\ counter \in [Types -> Nat]
  /\ created \in SUBSET [type : Types, version : Nat, config : Config]
  /\ served \in Snapshot \cup {Nil}
  /\ cancelled \in BOOLEAN
  /\ phase \in [Subs -> {"down", "request", "watch", "response"}]
  /\ answer \in [Subs -> {"none", "ack", "nack"}]
  /\ sent \in [Subs -> DiscoveryResponse \cup {Nil}]
  /\ held \in [Subs -> DiscoveryResponse \cup {Nil}]
  /\ run \in Nat /\ published \in Nat /\ faults \in Nat
  /\ \A s \in Subs : (phase[s] = "response") = (sent[s] # Nil)
  /\ \A s \in Subs : phase[s] # "down" => served # Nil

(* A watch is left open only while its version is the one on offer, so no  *)
(* snapshot slips between a request and its watch or past an open watch;   *)
(* an error of SetSnapshot, which updateSnapshot ignores, can leave one    *)
(* behind only in a process that is about to end.                          *)
OpenWatchCurrent ==
  ~cancelled => \A s \in Subs : phase[s] = "watch" => Info(s) = VersionString(served)

(* Envoy waits with other content than an acceptable one on offer only if  *)
(* it got its own from an earlier process whose version string was the     *)
(* same: within a process equal version strings mean equal contents, for   *)
(* each type (versionString).  A stream that names its resources gets them *)
(* whatever their version, so it must have rejected what it got first.     *)
StaleOnlyAfterRestart ==
  \A s \in Subs :
    /\ ~cancelled
    /\ phase[s] = "watch"
    /\ served[s].config \notin Rejected
    /\ held[s].config # served[s].config
    => held[s].run < run /\ (s \in Named => answer[s] = "nack")

(* Envoy ends with what is served, whatever connections and processes were *)
(* lost on the way, unless it rejects that content, or a new process took  *)
(* up a version string that Envoy knew from an earlier one.                *)
UpToDate(s) == held[s] # Nil /\ held[s].config = served[s].config

Unlucky(s) ==
  /\ held[s] # Nil
  /\ held[s].run < run
  /\ Info(s) = VersionString(served)
  /\ s \in Named => answer[s] = "nack"

EnvoyCatchesUp ==
  <>[](served # Nil /\ ~cancelled =>
         \A s \in Subs : UpToDate(s) \/ served[s].config \in Rejected \/ Unlucky(s))
=============================================================================
