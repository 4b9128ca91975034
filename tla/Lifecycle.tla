----------------------------- MODULE Lifecycle -----------------------------
(***************************************************************************)
(* The life of the server process: serverAction, watchSignal, and the two  *)
(* gRPC servers that Start brings up in goroutines of its own.             *)
(*                                                                         *)
(* ReloadAll and Watch, which WatchFile details, are one step here: they   *)
(* succeed or fail.  Signals and the gRPC library are external; of the     *)
(* library it counts that Serve after Stop closes the listener and returns *)
(* ErrServerStopped, and that Stop makes a running Serve return nil.       *)
(***************************************************************************)
EXTENDS Naturals, Sequences

CONSTANTS
  Flaky,   \* services whose listener may fail while it is served
  MaxHups  \* bound on the SIGHUPs sent

Services == {"xds", "als"}
Signals == {"TERM", "HUP", "QUIT", "INT"}
NotifyOrder == <<"TERM", "HUP", "QUIT", "INT">>

ASSUME LifecycleAssumption ==
  /\ Flaky \subseteq Services
  /\ MaxHups \in Nat

VARIABLES
  process,  \* "running", "exited" (main returned) or "killed" (by a signal)
  main,     \* next step of serverAction
  sig,      \* next step of watchSignal
  notified, \* calls of signal.Notify made
  pending,  \* signals caught and not yet offered to the trap channel
  hups,     \* SIGHUPs sent
  done,     \* cancel() was called
  start,    \* next step of Start
  busy,     \* services whose address another process listens on
  bound,    \* services whose address the process listens on
  serve,    \* serve[s]: state of the goroutine that calls Serve
  stopped   \* services whose gRPC server was stopped

sigVars == <<sig, notified, pending, hups, done>>
srvVars == <<start, bound, serve, stopped>>
vars == <<process, main, sig, notified, pending, hups, done, start, busy, bound,
          serve, stopped>>

Init ==
  /\ process = "running"
  /\ main = "load"
  /\ sig = "off"
  /\ notified = 0
  /\ pending = {}
  /\ hups = 0
  /\ done = FALSE
  /\ start = "off"
  /\ busy \in SUBSET Services
  /\ bound = {}
  /\ serve = [s \in Services |-> "off"]
  /\ stopped = {}

-----------------------------------------------------------------------------
(* serverAction.                                                           *)

(* The initial ReloadAll and Watch: an error of either ends the process.   *)
Load ==
  /\ main = "load"
  /\ \/ main' = "goSignal" /\ UNCHANGED process
     \/ main' = "returned" /\ process' = "exited"
  /\ UNCHANGED <<sigVars, srvVars, busy>>

GoSignal ==
  /\ main = "goSignal"
  /\ main' = "goStart"
  /\ sig' = "notify"
  /\ UNCHANGED <<process, notified, pending, hups, done, srvVars, busy>>

GoStart ==
  /\ main = "goStart"
  /\ main' = "wait"
  /\ start' = "listenXds"
  /\ UNCHANGED <<process, sigVars, bound, serve, stopped, busy>>

(* "wait stop": whatever becomes of Start, main waits for the context.     *)
WaitDone ==
  /\ main = "wait"
  /\ done
  /\ main' = "stopXds"
  /\ UNCHANGED <<process, sigVars, srvVars, busy>>

StopService(s) ==
  /\ stopped' = stopped \cup {s}
  /\ IF serve[s] = "serving"
       THEN /\ serve' = [serve EXCEPT ![s] = "returned"]
            /\ bound' = bound \ {s}
       ELSE UNCHANGED <<serve, bound>>
  /\ UNCHANGED <<sigVars, start, busy>>

(* Mutant of StopXds: the second server is forgotten.                      *)
StopXdsOnly ==
  /\ main = "stopXds"
  /\ StopService("xds")
  /\ main' = "returned"
  /\ process' = "exited"

(* server.Stop: the two gRPC servers in turn.  When main returns the       *)
(* process ends, and every goroutine with it.                              *)
StopXds ==
  /\ main = "stopXds"
  /\ StopService("xds")
  /\ main' = "stopAls"
  /\ UNCHANGED process

StopAls ==
  /\ main = "stopAls"
  /\ StopService("als")
  /\ main' = "returned"
  /\ process' = "exited"

Main == Load \/ GoSignal \/ GoStart \/ WaitDone \/ StopXds \/ StopAls

-----------------------------------------------------------------------------
(* watchSignal.                                                            *)

Caught == {NotifyOrder[k] : k \in 1 .. notified}

(* Mutant of Notify: one call too many.                                    *)
NotifyTooOften ==
  /\ sig = "notify"
  /\ notified' = notified + 1
  /\ sig' = IF notified = Len(NotifyOrder) THEN "select" ELSE "notify"
  /\ UNCHANGED <<process, main, pending, hups, done, srvVars, busy>>

(* The four calls of signal.Notify, one signal each. *)
Notify ==
  /\ sig = "notify"
  /\ notified' = notified + 1
  /\ sig' = IF notified' = Len(NotifyOrder) THEN "select" ELSE "notify"
  /\ UNCHANGED <<process, main, pending, hups, done, srvVars, busy>>

(* Mutant of Trap: a stop signal does not end the loop.                    *)
TrapAndContinue(s) ==
  IF s = "HUP" THEN sig' = "reload" /\ UNCHANGED done
               ELSE done' = TRUE /\ UNCHANGED sig

(* A signal is received: a SIGHUP starts a reload, any other one cancels   *)
(* the context and ends the loop.                                          *)
Trap(s) ==
  IF s = "HUP" THEN sig' = "reload" /\ UNCHANGED done
               ELSE sig' = "returned" /\ done' = TRUE

(* The runtime offers a caught signal to the unbuffered trap channel: it   *)
(* is received if the loop waits in its select, and dropped if not.        *)
Deliver(s) ==
  /\ s \in pending
  /\ pending' = pending \ {s}
  /\ IF sig = "select" THEN Trap(s) ELSE UNCHANGED <<sig, done>>
  /\ UNCHANGED <<process, main, notified, hups, srvVars, busy>>

(* Mutant of Reloaded: a failed reload ends the loop.                       *)
ReloadedOrReturned ==
  /\ sig = "reload"
  /\ sig' \in {"select", "returned"}
  /\ UNCHANGED <<process, main, notified, pending, hups, done, srvVars, busy>>

(* ReloadAll ends; an error is logged and the loop goes on.                *)
Reloaded ==
  /\ sig = "reload"
  /\ sig' = "select"
  /\ UNCHANGED <<process, main, notified, pending, hups, done, srvVars, busy>>

WatchSignal == Notify \/ Reloaded

-----------------------------------------------------------------------------
(* Start and the goroutines that serve.                                    *)

Listen(s, here, next) ==
  /\ start = here
  /\ IF s \in busy
       THEN start' = "returned" /\ UNCHANGED bound
       ELSE start' = next /\ bound' = bound \cup {s}
  /\ UNCHANGED <<process, main, sigVars, serve, stopped, busy>>

(* Mutant of GoServe: the goroutine of als is forgotten.                   *)
GoServeXds ==
  /\ start = "serve"
  /\ start' = "receive"
  /\ serve' = [serve EXCEPT !["xds"] = "starting"]
  /\ UNCHANGED <<process, main, sigVars, bound, stopped, busy>>

(* The services are registered and the two goroutines started. *)
GoServe ==
  /\ start = "serve"
  /\ start' = "receive"
  /\ serve' = [s \in Services |-> "starting"]
  /\ UNCHANGED <<process, main, sigVars, bound, stopped, busy>>

(* Start returns the first error, which serverAction ignores; nobody is    *)
(* left to receive a second one.                                           *)
ReceiveError ==
  /\ start = "receive"
  /\ \E s \in Services :
       /\ serve[s] = "failed"
       /\ serve' = [serve EXCEPT ![s] = "returned"]
  /\ start' = "returned"
  /\ UNCHANGED <<process, main, sigVars, bound, stopped, busy>>

Start ==
  \/ Listen("xds", "listenXds", "listenAls")
  \/ Listen("als", "listenAls", "serve")
  \/ GoServe
  \/ ReceiveError

Serve(s) ==
  /\ serve[s] = "starting"
  /\ IF s \in stopped
       THEN serve' = [serve EXCEPT ![s] = "failed"] /\ bound' = bound \ {s}
       ELSE serve' = [serve EXCEPT ![s] = "serving"] /\ UNCHANGED bound
  /\ UNCHANGED <<process, main, sigVars, start, stopped, busy>>

(* Accept fails for good, and Serve returns the error. *)
ServeFails(s) ==
  /\ s \in Flaky
  /\ serve[s] = "serving"
  /\ serve' = [serve EXCEPT ![s] = "failed"]
  /\ bound' = bound \ {s}
  /\ UNCHANGED <<process, main, sigVars, start, stopped, busy>>

-----------------------------------------------------------------------------
(* The operator (external).  Every signal of this program terminates a     *)
(* process that does not catch it.                                         *)
Raise(s) ==
  /\ s = "HUP" => hups < MaxHups
  /\ hups' = IF s = "HUP" THEN hups + 1 ELSE hups
  /\ IF s \in Caught
       THEN pending' = pending \cup {s} /\ UNCHANGED process
       ELSE process' = "killed" /\ UNCHANGED pending
  /\ UNCHANGED <<main, sig, notified, done, srvVars, busy>>

-----------------------------------------------------------------------------
Next ==
  /\ process = "running"
  /\ \/ Main
     \/ WatchSignal
     \/ Start
     \/ \E s \in Services : Serve(s) \/ ServeFails(s)
     \/ \E s \in Signals : Raise(s) \/ Deliver(s)

Spec == Init /\ [][Next]_vars

Runs(A) == process = "running" /\ A

(* Every goroutine runs on when it can, and the runtime offers every       *)
(* signal it caught; nobody has to send one.                               *)
Fairness ==
  /\ WF_vars(Runs(Main))
  /\ WF_vars(Runs(WatchSignal))
  /\ WF_vars(Runs(Start))
  /\ \A s \in Services : WF_vars(Runs(Serve(s)))
  /\ \A s \in Signals : WF_vars(Runs(Deliver(s)))

FairSpec == Spec /\ Fairness

-----------------------------------------------------------------------------
(* Variables hold values of their types, and the goroutines run only after *)
(* main started them.                                                      *)
TypeOK ==
  /\ process \in {"running", "exited", "killed"}
  /\ main \in {"load", "goSignal", "goStart", "wait", "stopXds", "stopAls", "returned"}
  /\ sig \in {"off", "notify", "select", "reload", "returned"}
  /\ notified \in 0 .. Len(NotifyOrder)
  /\ pending \subseteq Caught
  /\ hups \in 0 .. MaxHups
  /\ done \in BOOLEAN
  /\ start \in {"off", "listenXds", "listenAls", "serve", "receive", "returned"}
  /\ busy \subseteq Services
  /\ bound \subseteq Services \ busy
  /\ serve \in [Services -> {"off", "starting", "serving", "failed", "returned"}]
  /\ stopped \subseteq Services
  /\ main \in {"load", "goSignal"} => sig = "off"
  /\ main \in {"load", "goSignal", "goStart"} => start = "off"

(* A service that was stopped never serves again, although Start may still *)
(* be under way, and a process that main ends serves nothing any more      *)
(* (server.Start races server.Stop).                                       *)
StopSticks ==
  /\ \A s \in stopped : serve[s] # "serving"
  /\ process = "exited" => \A s \in Services : serve[s] # "serving"

(* Once the context is cancelled, a SIGHUP no longer starts a ReloadAll    *)
(* (watchSignal returns on the first stop signal it receives).             *)
NoReloadAfterCancel == [][done => sig' # "reload"]_sig

(* If both addresses are free, both services come up and stay up until     *)
(* their own listener fails or the process is asked to stop, in whatever   *)
(* order the goroutines of Start run and whatever the other one meets.  (If *)
(* one address is taken, Start gives up, serverAction does not notice, and *)
(* xds may hold an address it never serves.)                               *)
ListenerFailed(s) == s \in Flaky /\ serve[s] \in {"failed", "returned"}

ServicesComeUp ==
  busy = {} =>
    <>[](process = "running" /\ ~done =>
           \A s \in Services : serve[s] = "serving" \/ ListenerFailed(s))

(* An operator, or a supervisor, that sends SIGTERM until the process ends *)
(* ends it, however many SIGTERMs are dropped because they arrive during a *)
(* reload (the trap channel of watchSignal has no buffer), and whatever    *)
(* became of Start.                                                        *)
Insistent == WF_vars(Runs(Raise("TERM")))

InsistenceEnds == Insistent => <>(process # "running")
=============================================================================
