-------------------------- MODULE LifecycleProofs --------------------------
(***************************************************************************)
(* Proofs about Lifecycle, for any flaky services and any number of        *)
(* SIGHUPs: the types, that a stop sticks whatever Start has reached, and  *)
(* that nothing is reloaded after the cancellation.                        *)
(***************************************************************************)
EXTENDS Lifecycle, TLAPS

(* The signal handler: calls of Notify are left while it makes them, and   *)
(* the context is done only when it has returned.                          *)
HandlerInv ==
  /\ sig = "off" => notified = 0
  /\ sig = "notify" => notified < 4
  /\ done => sig = "returned"

(* The goroutines that serve exist only once Start has both listeners, and *)
(* main stops the two servers in turn.                                     *)
ServeInv ==
  /\ start \in {"off", "listenXds", "listenAls", "serve"}
       => \A s \in Services : serve[s] = "off"
  /\ main = "stopAls" => "xds" \in stopped

LInv == TypeOK /\ HandlerInv /\ ServeInv /\ StopSticks

-----------------------------------------------------------------------------
LEMMA FourSignals == Len(NotifyOrder) = 4
  BY DEF NotifyOrder

(* What was caught stays caught. *)
LEMMA CaughtGrows ==
  ASSUME notified \in Nat, notified' \in Nat, notified <= notified'
  PROVE  Caught \subseteq Caught'
<1>1. 1 .. notified \subseteq 1 .. notified'
  OBVIOUS
<1> QED
  BY <1>1 DEF Caught

LEMMA InitInv == Init => LInv
<1> SUFFICES ASSUME Init
             PROVE  LInv
  OBVIOUS
<1>1. TypeOK
  <2>1. hups \in 0 .. MaxHups /\ notified \in 0 .. Len(NotifyOrder)
    BY LifecycleAssumption, FourSignals DEF Init
  <2>2. serve \in [Services -> {"off", "starting", "serving", "failed", "returned"}]
    BY DEF Init
  <2>3. busy \subseteq Services /\ bound \subseteq Services \ busy /\ stopped \subseteq Services
    BY DEF Init
  <2> QED
    BY <2>1, <2>2, <2>3 DEF Init, TypeOK
<1>2. HandlerInv /\ ServeInv /\ StopSticks
  BY DEF Init, HandlerInv, ServeInv, StopSticks
<1> QED
  BY <1>1, <1>2 DEF LInv

-----------------------------------------------------------------------------
(* The steps of main.                                                      *)
LEMMA MainInv ==
  ASSUME LInv, process = "running", Main
  PROVE  LInv'
<1>1. TypeOK /\ HandlerInv /\ ServeInv /\ StopSticks
  BY DEF LInv
<1>2. CASE Load
  <2>1. TypeOK' /\ HandlerInv' /\ ServeInv'
    BY <1>1, <1>2 DEF Load, TypeOK, HandlerInv, ServeInv, sigVars, srvVars, Caught
  <2>2. \A s \in Services : serve'[s] = "off"
    BY <1>1, <1>2 DEF Load, TypeOK, ServeInv, srvVars
  <2>3. StopSticks'
    BY <1>1, <1>2, <2>2 DEF Load, StopSticks, srvVars
  <2> QED
    BY <2>1, <2>3 DEF LInv
<1>3. CASE GoSignal
  <2>1. TypeOK'
    BY <1>1, <1>3 DEF GoSignal, TypeOK, srvVars, Caught
  <2>2. HandlerInv' /\ ServeInv' /\ StopSticks'
    BY <1>1, <1>3 DEF GoSignal, TypeOK, HandlerInv, ServeInv, StopSticks, srvVars
  <2> QED
    BY <2>1, <2>2 DEF LInv
<1>4. CASE GoStart
  <2>1. TypeOK'
    BY <1>1, <1>4 DEF GoStart, TypeOK, sigVars, Caught
  <2>2. HandlerInv' /\ ServeInv' /\ StopSticks'
    BY <1>1, <1>4 DEF GoStart, TypeOK, HandlerInv, ServeInv, StopSticks, sigVars
  <2> QED
    BY <2>1, <2>2 DEF LInv
<1>5. CASE WaitDone
  <2>1. TypeOK'
    BY <1>1, <1>5 DEF WaitDone, TypeOK, sigVars, srvVars, Caught
  <2>2. HandlerInv' /\ ServeInv' /\ StopSticks'
    BY <1>1, <1>5 DEF WaitDone, HandlerInv, ServeInv, StopSticks, sigVars, srvVars
  <2> QED
    BY <2>1, <2>2 DEF LInv
<1>6. ASSUME NEW s \in Services, main \in {"stopXds", "stopAls"}, StopService(s),
             main' \in {"stopAls", "returned"}, process' \in {"running", "exited"}
      PROVE  /\ TypeOK' /\ HandlerInv' /\ s \in stopped' /\ stopped \subseteq stopped'
             /\ start \in {"off", "listenXds", "listenAls", "serve"}
                  => \A x \in Services : serve'[x] = "off"
             /\ \A x \in stopped' : serve'[x] # "serving"
  <2>1. /\ stopped' = stopped \cup {s} /\ UNCHANGED <<sig, notified, pending, hups, done>>
        /\ start' = start /\ busy' = busy
    BY <1>6 DEF StopService, sigVars
  <2>2. /\ serve' \in [Services -> {"off", "starting", "serving", "failed", "returned"}]
        /\ bound' \subseteq bound
        /\ \A x \in Services : serve'[x] = IF x = s /\ serve[s] = "serving" THEN "returned"
                                            ELSE serve[x]
    BY <1>1, <1>6 DEF StopService, TypeOK
  <2>3. TypeOK'
    BY <1>1, <1>6, <2>1, <2>2 DEF TypeOK, Caught
  <2>4. HandlerInv'
    BY <1>1, <2>1 DEF HandlerInv
  <2>5. \A x \in stopped' : serve'[x] # "serving"
    <3> SUFFICES ASSUME NEW x \in stopped'
                 PROVE  serve'[x] # "serving"
      OBVIOUS
    <3>1. x \in Services /\ (x = s \/ x \in stopped)
      BY <1>1, <2>1 DEF TypeOK
    <3> QED
      BY <1>1, <2>2, <3>1 DEF StopSticks
  <2> QED
    BY <1>1, <2>1, <2>2, <2>3, <2>4, <2>5 DEF ServeInv
<1>7. CASE StopXds
  <2>1. /\ "xds" \in Services /\ main \in {"stopXds", "stopAls"} /\ StopService("xds")
        /\ main' = "stopAls" /\ process' = "running"
    BY <1>7 DEF StopXds, Services
  <2>2. start' = start
    BY <2>1 DEF StopService
  <2>3. /\ TypeOK' /\ HandlerInv' /\ "xds" \in stopped'
        /\ start \in {"off", "listenXds", "listenAls", "serve"}
             => \A x \in Services : serve'[x] = "off"
        /\ \A x \in stopped' : serve'[x] # "serving"
    BY <1>6, <2>1
  <2> QED
    BY <2>1, <2>2, <2>3 DEF LInv, ServeInv, StopSticks
<1>8. CASE StopAls
  <2>1. /\ "als" \in Services /\ main \in {"stopXds", "stopAls"} /\ StopService("als")
        /\ main = "stopAls" /\ main' = "returned" /\ process' = "exited"
    BY <1>8 DEF StopAls, Services
  <2>2. start' = start
    BY <2>1 DEF StopService
  <2>3. /\ TypeOK' /\ HandlerInv' /\ "als" \in stopped' /\ stopped \subseteq stopped'
        /\ start \in {"off", "listenXds", "listenAls", "serve"}
             => \A x \in Services : serve'[x] = "off"
        /\ \A x \in stopped' : serve'[x] # "serving"
    BY <1>6, <2>1
  <2>4. \A x \in Services : x \in stopped'
    BY <1>1, <2>1, <2>3 DEF ServeInv, Services
  <2> QED
    BY <2>1, <2>2, <2>3, <2>4 DEF LInv, ServeInv, StopSticks
<1> QED
  BY <1>2, <1>3, <1>4, <1>5, <1>7, <1>8 DEF Main

-----------------------------------------------------------------------------
(* The steps of the signal handler, the runtime and the operator.          *)
LEMMA SignalInv ==
  ASSUME LInv, process = "running",
         WatchSignal \/ \E s \in Signals : Raise(s) \/ Deliver(s)
  PROVE  LInv'
<1>1. TypeOK /\ HandlerInv /\ ServeInv /\ StopSticks
  BY DEF LInv
<1>2. CASE Notify
  <2>1. notified \in Nat /\ notified < 4 /\ notified' = notified + 1
    BY <1>1, <1>2, FourSignals DEF Notify, TypeOK, HandlerInv
  <2>2. Caught \subseteq Caught'
    BY <2>1, CaughtGrows
  <2>3. TypeOK'
    BY <1>1, <1>2, <2>1, <2>2, FourSignals DEF Notify, TypeOK, srvVars
  <2>4. HandlerInv'
    BY <1>1, <1>2, <2>1, FourSignals DEF Notify, HandlerInv
  <2>5. ServeInv' /\ StopSticks'
    BY <1>1, <1>2 DEF Notify, ServeInv, StopSticks, srvVars
  <2> QED
    BY <2>3, <2>4, <2>5 DEF LInv
<1>3. CASE Reloaded
  <2>1. TypeOK'
    BY <1>1, <1>3 DEF Reloaded, TypeOK, srvVars, Caught
  <2>2. HandlerInv' /\ ServeInv' /\ StopSticks'
    BY <1>1, <1>3 DEF Reloaded, HandlerInv, ServeInv, StopSticks, srvVars
  <2> QED
    BY <2>1, <2>2 DEF LInv
<1>4. ASSUME NEW s \in Signals, Raise(s)
      PROVE  LInv'
  <2>1. hups' \in 0 .. MaxHups
    BY <1>1, <1>4, LifecycleAssumption DEF Raise, TypeOK
  <2>2. TypeOK'
    BY <1>1, <1>4, <2>1 DEF Raise, TypeOK, srvVars, Caught
  <2>3. HandlerInv' /\ ServeInv' /\ StopSticks'
    BY <1>1, <1>4 DEF Raise, HandlerInv, ServeInv, StopSticks, srvVars
  <2> QED
    BY <2>2, <2>3 DEF LInv
<1>5. ASSUME NEW s \in Signals, Deliver(s)
      PROVE  LInv'
  <2>1. TypeOK'
    BY <1>1, <1>5 DEF Deliver, Trap, TypeOK, srvVars, Caught
  <2>2. HandlerInv' /\ ServeInv' /\ StopSticks'
    BY <1>1, <1>5 DEF Deliver, Trap, HandlerInv, ServeInv, StopSticks, srvVars
  <2> QED
    BY <2>1, <2>2 DEF LInv
<1> QED
  BY <1>2, <1>3, <1>4, <1>5 DEF WatchSignal

-----------------------------------------------------------------------------
(* The steps of Start and of the goroutines that serve.                    *)
LEMMA StartInv ==
  ASSUME LInv, process = "running", Start
  PROVE  LInv'
<1>1. TypeOK /\ HandlerInv /\ ServeInv /\ StopSticks
  BY DEF LInv
<1>2. ASSUME NEW s \in Services, NEW here, NEW next, Listen(s, here, next),
             <<here, next>> \in {<<"listenXds", "listenAls">>, <<"listenAls", "serve">>}
      PROVE  LInv'
  <2>1. /\ here \in {"listenXds", "listenAls"} /\ next \in {"listenAls", "serve"}
        /\ start = here /\ main' = main /\ process' = process
        /\ sig' = sig /\ serve' = serve /\ stopped' = stopped /\ busy' = busy
    BY <1>2 DEF Listen, sigVars
  <2>2. bound' \subseteq Services \ busy
    BY <1>1, <1>2 DEF Listen, TypeOK
  <2>3. TypeOK'
    BY <1>1, <1>2, <2>1, <2>2 DEF Listen, TypeOK, sigVars, Caught
  <2>4. HandlerInv' /\ ServeInv' /\ StopSticks'
    BY <1>1, <1>2, <2>1 DEF Listen, HandlerInv, ServeInv, StopSticks, sigVars
  <2> QED
    BY <2>3, <2>4 DEF LInv
<1>3. CASE GoServe
  <2>1. TypeOK'
    BY <1>1, <1>3 DEF GoServe, TypeOK, sigVars, Caught
  <2>2. HandlerInv' /\ ServeInv' /\ StopSticks'
    BY <1>1, <1>3 DEF GoServe, TypeOK, HandlerInv, ServeInv, StopSticks, sigVars
  <2> QED
    BY <2>1, <2>2 DEF LInv
<1>4. CASE ReceiveError
  <2>1. TypeOK'
    BY <1>1, <1>4 DEF ReceiveError, TypeOK, sigVars, Caught
  <2>2. \A x \in Services : serve'[x] = "serving" => serve[x] = "serving"
    BY <1>1, <1>4 DEF ReceiveError, TypeOK
  <2>3. HandlerInv' /\ ServeInv' /\ StopSticks'
    BY <1>1, <1>4, <2>2 DEF ReceiveError, TypeOK, HandlerInv, ServeInv, StopSticks, sigVars
  <2> QED
    BY <2>1, <2>3 DEF LInv
<1> QED
  BY <1>2, <1>3, <1>4 DEF Start, Services

LEMMA ServiceInv ==
  ASSUME LInv, process = "running", NEW s \in Services, Serve(s) \/ ServeFails(s)
  PROVE  LInv'
<1>1. TypeOK /\ HandlerInv /\ ServeInv /\ StopSticks
  BY DEF LInv
<1>2. /\ UNCHANGED <<process, main, sig, notified, pending, hups, done, start, stopped, busy>>
      /\ bound' \subseteq bound
      /\ serve' \in [Services -> {"off", "starting", "serving", "failed", "returned"}]
      /\ serve[s] # "off"
      /\ \A x \in Services : serve'[x] = "serving" => serve[x] = "serving" \/ x \notin stopped
  BY <1>1 DEF Serve, ServeFails, TypeOK, sigVars
<1>3. TypeOK'
  BY <1>1, <1>2 DEF TypeOK, Caught
<1>4. HandlerInv' /\ ServeInv'
  BY <1>1, <1>2 DEF HandlerInv, ServeInv
<1>5. StopSticks'
  BY <1>1, <1>2 DEF StopSticks, TypeOK
<1> QED
  BY <1>3, <1>4, <1>5 DEF LInv

-----------------------------------------------------------------------------
LEMMA StepInv == LInv /\ [Next]_vars => LInv'
<1> SUFFICES ASSUME LInv, [Next]_vars
             PROVE  LInv'
  OBVIOUS
<1>1. CASE Next
  BY <1>1, MainInv, SignalInv, StartInv, ServiceInv DEF Next
<1>2. CASE UNCHANGED vars
  BY <1>2 DEF vars, LInv, TypeOK, HandlerInv, ServeInv, StopSticks, Caught
<1> QED
  BY <1>1, <1>2

(* The inductive invariant of the life cycle holds for every instance.     *)
THEOREM LifecycleInvariance == Spec => []LInv
  BY InitInv, StepInv, PTL DEF Spec

(* Variables have their types, and no goroutine runs before it is started  *)
(* (serverAction, watchSignal, server.Start), for any number of SIGHUPs.   *)
THEOREM LifecycleTyped == Spec => []TypeOK
<1>1. LInv => TypeOK
  BY DEF LInv
<1> QED
  BY <1>1, LifecycleInvariance, PTL

(* A server that was stopped never serves, wherever Start was when main    *)
(* stopped it (server.Start races server.Stop).                            *)
THEOREM StopIsFinal == Spec => []StopSticks
<1>1. LInv => StopSticks
  BY DEF LInv
<1> QED
  BY <1>1, LifecycleInvariance, PTL

(* No reload starts once the context is cancelled (watchSignal).           *)
THEOREM CancelIsFinal == Spec => NoReloadAfterCancel
<1>1. LInv /\ [Next]_vars => [done => sig' # "reload"]_sig
  <2> SUFFICES ASSUME LInv, [Next]_vars, done, sig' # sig
               PROVE  sig' # "reload"
    OBVIOUS
  <2>1. sig = "returned" /\ main \notin {"load", "goSignal"}
    BY DEF LInv, HandlerInv, TypeOK
  <2> QED
    BY <2>1 DEF Next, Main, Load, GoSignal, GoStart, WaitDone, StopXds, StopAls,
      StopService, WatchSignal, Notify, Reloaded, Start, Listen, GoServe, ReceiveError,
      Serve, ServeFails, Raise, Deliver, vars, sigVars
<1> QED
  BY <1>1, LifecycleInvariance, PTL DEF Spec, NoReloadAfterCancel
=============================================================================
