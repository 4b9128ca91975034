--------------------------- MODULE DeliveryProofs ---------------------------
(***************************************************************************)
(* The safety properties of Delivery, for any contents, streams and        *)
(* bounds.                                                                 *)
(***************************************************************************)
EXTENDS Delivery, TLAPS

(* A resource of type t that this process created. *)
Made(t, v, c) == [type |-> t, version |-> v, config |-> c] \in created

(* Versions are handed out once, and the snapshot is made of resources of  *)
(* this process.                                                           *)
CreatedInv ==
  /\ \A b \in created : b.version <= counter[b.type]
  /\ \A a, b \in created : a.type = b.type /\ a.version = b.version => a = b
  /\ served # Nil => \A t \in Types : Made(t, served[t].version, served[t].config)

(* So is a response that was sent by this process.                         *)
Genuine(s, m) ==
  m # Nil => m.run <= run /\ (m.run = run => Made(s, m.version[s], m.config))

ResponseInv ==
  \A s \in Subs : /\ Genuine(s, held[s])
                  /\ Genuine(s, sent[s])
                  /\ sent[s] # Nil => sent[s].run = run

(* What was accepted on a stream is held still, and a stream that names    *)
(* resources waits only after it got an answer.                            *)
AnswerInv ==
  \A s \in Subs : /\ answer[s] = "ack" => held[s] # Nil /\ held[s].run = run
                  /\ phase[s] = "watch" /\ s \in Named => answer[s] # "none"

DInv == DTypeOK /\ CreatedInv /\ ResponseInv /\ AnswerInv /\ OpenWatchCurrent

-----------------------------------------------------------------------------
(* Within a process, equal versions of a type mean equal contents. *)
LEMMA SameVersionSameContent ==
  ASSUME DInv, NEW s \in Subs, served # Nil, held[s] # Nil, held[s].run = run,
         Info(s) = VersionString(served)
  PROVE  held[s].config = served[s].config
<1>1. s \in Types
  BY DeliveryAssumption
<1>2. Made(s, held[s].version[s], held[s].config)
  BY DEF DInv, ResponseInv, Genuine
<1>3. Made(s, served[s].version, served[s].config)
  BY <1>1 DEF DInv, CreatedInv
<1>4. held[s].version[s] = served[s].version
  BY <1>1 DEF Info, VersionString
<1> QED
  BY <1>2, <1>3, <1>4 DEF DInv, CreatedInv, Made

LEMMA StaleFollows == DInv => StaleOnlyAfterRestart
<1> SUFFICES ASSUME DInv, NEW s \in Subs, ~cancelled, phase[s] = "watch",
                    held[s].config # served[s].config
             PROVE  held[s].run < run /\ (s \in Named => answer[s] = "nack")
  BY DEF StaleOnlyAfterRestart
<1>1. DTypeOK
  BY DEF DInv
<1>2. served # Nil /\ served \in Snapshot
  BY <1>1 DEF DTypeOK
<1>3. VersionString(served) \in Version
  BY <1>2 DEF Snapshot, VersionString, Version
<1>4. Info(s) = VersionString(served) /\ held[s] # Nil
  BY <1>3, DeliveryAssumption DEF DInv, OpenWatchCurrent, Info
<1>5. held[s].run # run
  BY <1>2, <1>4, SameVersionSameContent
<1>6. held[s].run \in Nat /\ run \in Nat /\ held[s].run <= run
  BY <1>1, <1>4 DEF DInv, ResponseInv, Genuine, DTypeOK, DiscoveryResponse
<1>7. answer[s] # "ack" /\ (s \in Named => answer[s] # "none")
  BY <1>5 DEF DInv, AnswerInv
<1>8. answer[s] \in {"none", "ack", "nack"}
  BY <1>1 DEF DTypeOK
<1> QED
  BY <1>5, <1>6, <1>7, <1>8

-----------------------------------------------------------------------------
(* One lemma per step.                                                     *)

LEMMA InitInv == DInit => DInv
<1> SUFFICES ASSUME DInit
             PROVE  DInv
  OBVIOUS
<1>1. DTypeOK
  BY DEF DInit, Init, DTypeOK
<1>2. CreatedInv /\ ResponseInv /\ AnswerInv /\ OpenWatchCurrent
  BY DEF DInit, Init, CreatedInv, ResponseInv, Genuine, AnswerInv, OpenWatchCurrent
<1> QED
  BY <1>1, <1>2 DEF DInv

(* A new resource has a version of its own. *)
LEMMA BuildInv ==
  ASSUME DInv, Build
  PROVE  DInv'
<1>1. DTypeOK
  BY DEF DInv
<1>2. PICK t \in Types : \E c \in Configs[t] : Create(t, c)
  BY DEF Build
<1>3. PICK c \in Configs[t] : Create(t, c)
  BY <1>2
<1> DEFINE new == [type |-> t, version |-> counter[t] + 1, config |-> c]
<1>4. c \in Config
  BY DiscoveryAssumption
<1>5. counter[t] \in Nat
  BY <1>1 DEF DTypeOK
<1>6. new \in [type : Types, version : Nat, config : Config]
  BY <1>4, <1>5
<1>7. /\ counter' = [counter EXCEPT ![t] = counter[t] + 1]
      /\ created' = created \cup {new}
      /\ UNCHANGED <<served, streamVars, cancelled, run, published, faults>>
  BY <1>3 DEF Build, Create
<1>8. DTypeOK'
  <2>1. counter' \in [Types -> Nat]
    BY <1>1, <1>5, <1>7 DEF DTypeOK
  <2>2. created' \in SUBSET [type : Types, version : Nat, config : Config]
    BY <1>1, <1>6, <1>7 DEF DTypeOK
  <2> QED
    BY <1>1, <1>7, <2>1, <2>2 DEF DTypeOK, streamVars
<1>9. \A b \in created : b.type \in Types /\ b.version \in Nat
  BY <1>1 DEF DTypeOK
<1>10. CreatedInv'
  <2>1. \A b \in created' : b.version <= counter'[b.type]
    <3> SUFFICES ASSUME NEW b \in created'
                 PROVE  b.version <= counter'[b.type]
      OBVIOUS
    <3>1. CASE b = new
      BY <1>1, <1>5, <1>7, <3>1 DEF DTypeOK
    <3>2. CASE b \in created
      <4>1. b.version <= counter[b.type] /\ counter[b.type] \in Nat
        BY <1>1, <1>9, <3>2 DEF DInv, CreatedInv, DTypeOK
      <4>2. counter'[b.type] = counter[b.type] \/ counter'[b.type] = counter[b.type] + 1
        BY <1>1, <1>7, <1>9, <3>2 DEF DTypeOK
      <4> QED
        BY <1>9, <3>2, <4>1, <4>2
    <3> QED
      BY <1>7, <3>1, <3>2
  <2>2. \A a \in created : a.type = t => a.version # new.version
    <3> SUFFICES ASSUME NEW a \in created, a.type = t
                 PROVE  a.version # counter[t] + 1
      OBVIOUS
    <3>1. a.version <= counter[t] /\ a.version \in Nat
      BY <1>9 DEF DInv, CreatedInv
    <3> QED
      BY <1>5, <3>1
  <2>3. \A a, b \in created' : a.type = b.type /\ a.version = b.version => a = b
    BY <1>7, <2>2 DEF DInv, CreatedInv
  <2>4. served' # Nil =>
          \A x \in Types : Made(x, served[x].version, served[x].config)'
    BY <1>7 DEF DInv, CreatedInv, Made
  <2> QED
    BY <1>7, <2>1, <2>3, <2>4 DEF CreatedInv, Made
<1>11. ResponseInv'
  BY <1>7 DEF DInv, ResponseInv, Genuine, Made, streamVars
<1>12. AnswerInv' /\ OpenWatchCurrent'
  BY <1>7 DEF DInv, AnswerInv, OpenWatchCurrent, Info, VersionString, streamVars
<1> QED
  BY <1>8, <1>10, <1>11, <1>12 DEF DInv

(* A response made of the snapshot is a response of this process. *)
LEMMA ResponseGood ==
  ASSUME DTypeOK, NEW snapshot \in Snapshot, NEW s \in Subs,
         \A t \in Types : Made(t, snapshot[t].version, snapshot[t].config)
  PROVE  /\ Response(s, snapshot) \in DiscoveryResponse
         /\ Response(s, snapshot).run = run
         /\ Made(s, Response(s, snapshot).version[s], Response(s, snapshot).config)
<1>1. s \in Types
  BY DeliveryAssumption
<1>2. VersionString(snapshot) \in Version
  BY DEF Snapshot, Version, VersionString
<1>3. snapshot[s].config \in Config
  BY <1>1 DEF Snapshot
<1>4. run \in Nat
  BY DEF DTypeOK
<1>5. Response(s, snapshot) \in DiscoveryResponse /\ Response(s, snapshot).run = run
  BY <1>2, <1>3, <1>4 DEF Response, DiscoveryResponse
<1>6. Response(s, snapshot).version[s] = snapshot[s].version
  BY <1>1 DEF Response, VersionString
<1>7. Response(s, snapshot).config = snapshot[s].config
  BY DEF Response
<1> QED
  BY <1>1, <1>5, <1>6, <1>7

(* Steps of a stream leave the control plane alone. *)
LEMMA ConnectInv ==
  ASSUME DInv, NEW s \in Subs, Connect(s)
  PROVE  DInv'
<1>1. DTypeOK
  BY DEF DInv
<1>2. /\ phase[s] = "down" /\ served # Nil
      /\ phase' = [phase EXCEPT ![s] = "request"]
      /\ UNCHANGED <<svars, answer, sent, held, cancelled, run, published, faults>>
  BY DEF Connect
<1>3. DTypeOK'
  BY <1>1, <1>2 DEF DTypeOK, svars
<1>4. CreatedInv' /\ ResponseInv'
  BY <1>2 DEF DInv, CreatedInv, ResponseInv, Genuine, Made, svars
<1>5. AnswerInv' /\ OpenWatchCurrent'
  BY <1>1, <1>2 DEF DInv, DTypeOK, AnswerInv, OpenWatchCurrent, Info, VersionString, svars
<1> QED
  BY <1>3, <1>4, <1>5 DEF DInv

LEMMA CreateWatchInv ==
  ASSUME DInv, NEW s \in Subs, CreateWatch(s)
  PROVE  DInv'
<1>1. DTypeOK
  BY DEF DInv
<1>2. phase[s] = "request" /\ served # Nil /\ sent[s] = Nil
  BY <1>1 DEF CreateWatch, DTypeOK
<1>3. UNCHANGED <<svars, answer, held, cancelled, run, published, faults>>
  BY DEF CreateWatch
<1>4. CreatedInv'
  BY <1>3 DEF DInv, CreatedInv, Made, svars
<1>5. CASE /\ phase' = [phase EXCEPT ![s] = "response"]
           /\ sent' = [sent EXCEPT ![s] = Response(s, served)]
  <2>1. /\ Response(s, served) \in DiscoveryResponse
        /\ Response(s, served).run = run
        /\ Made(s, Response(s, served).version[s], Response(s, served).config)
    BY <1>1, <1>2, ResponseGood DEF DTypeOK, DInv, CreatedInv
  <2>2. Response(s, served) # Nil
    BY <2>1, DeliveryAssumption
  <2>3. run \in Nat
    BY <1>1 DEF DTypeOK
  <2>4. DTypeOK'
    BY <1>1, <1>2, <1>3, <1>5, <2>1, <2>2 DEF DTypeOK, svars
  <2>5. ResponseInv'
    <3> SUFFICES ASSUME NEW x \in Subs
                 PROVE  /\ Genuine(x, held[x])'
                        /\ Genuine(x, sent[x])'
                        /\ sent'[x] # Nil => sent'[x].run = run'
      BY DEF ResponseInv
    <3>1. Genuine(x, held[x])'
      BY <1>3 DEF DInv, ResponseInv, Genuine, Made, svars
    <3>2. CASE x = s
      <4>1. sent'[x] = Response(s, served)
        BY <1>1, <1>5, <3>2 DEF DTypeOK
      <4> QED
        BY <1>3, <2>1, <2>3, <3>1, <3>2, <4>1 DEF Genuine, Made, svars
    <3>3. CASE x # s
      <4>1. sent'[x] = sent[x]
        BY <1>1, <1>5, <3>3 DEF DTypeOK
      <4> QED
        BY <1>3, <3>1, <4>1 DEF DInv, ResponseInv, Genuine, Made, svars
    <3> QED
      BY <3>2, <3>3
  <2>6. AnswerInv' /\ OpenWatchCurrent'
    BY <1>1, <1>3, <1>5
    DEF DInv, DTypeOK, AnswerInv, OpenWatchCurrent, Info, VersionString, svars
  <2> QED
    BY <1>4, <2>4, <2>5, <2>6 DEF DInv
<1>6. CASE /\ Info(s) = VersionString(served)
           /\ ~(s \in Named /\ answer[s] = "none")
           /\ phase' = [phase EXCEPT ![s] = "watch"]
           /\ UNCHANGED sent
  <2>1. DTypeOK'
    BY <1>1, <1>2, <1>3, <1>6 DEF DTypeOK, svars
  <2>2. ResponseInv'
    BY <1>3, <1>6 DEF DInv, ResponseInv, Genuine, Made, svars
  <2>3. AnswerInv'
    BY <1>1, <1>3, <1>6 DEF DInv, DTypeOK, AnswerInv
  <2>4. OpenWatchCurrent'
    BY <1>1, <1>3, <1>6 DEF DInv, DTypeOK, OpenWatchCurrent, Info, VersionString, svars
  <2> QED
    BY <1>4, <2>1, <2>2, <2>3, <2>4 DEF DInv
<1> QED
  BY <1>5, <1>6 DEF CreateWatch

LEMMA ReceiveInv ==
  ASSUME DInv, NEW s \in Subs, Receive(s)
  PROVE  DInv'
<1>1. DTypeOK
  BY DEF DInv
<1>2. phase[s] = "response" /\ sent[s] # Nil /\ sent[s] \in DiscoveryResponse
  BY <1>1 DEF Receive, DTypeOK
<1>3. /\ phase' = [phase EXCEPT ![s] = "request"]
      /\ sent' = [sent EXCEPT ![s] = Nil]
      /\ UNCHANGED <<svars, cancelled, run, published, faults>>
  BY DEF Receive
<1>4. \/ /\ held' = [held EXCEPT ![s] = sent[s]]
         /\ answer' = [answer EXCEPT ![s] = "ack"]
      \/ answer' = [answer EXCEPT ![s] = "nack"] /\ held' = held
  BY DEF Receive
<1>5. DTypeOK'
  <2>1. held' \in [Subs -> DiscoveryResponse \cup {Nil}]
    BY <1>1, <1>2, <1>4 DEF DTypeOK
  <2>2. answer' \in [Subs -> {"none", "ack", "nack"}]
    BY <1>1, <1>4 DEF DTypeOK
  <2>3. /\ phase' \in [Subs -> {"down", "request", "watch", "response"}]
        /\ sent' \in [Subs -> DiscoveryResponse \cup {Nil}]
        /\ \A x \in Subs : (phase'[x] = "response") = (sent'[x] # Nil)
        /\ \A x \in Subs : phase'[x] # "down" => served' # Nil
    BY <1>1, <1>2, <1>3 DEF DTypeOK, svars
  <2> QED
    BY <1>1, <1>3, <2>1, <2>2, <2>3 DEF DTypeOK, svars
<1>6. CreatedInv'
  BY <1>3 DEF DInv, CreatedInv, Made, svars
<1>7. ResponseInv'
  <2> SUFFICES ASSUME NEW x \in Subs
               PROVE  /\ Genuine(x, held[x])'
                      /\ Genuine(x, sent[x])'
                      /\ sent'[x] # Nil => sent'[x].run = run'
    BY DEF ResponseInv
  <2>1. held'[x] = held[x] \/ held'[x] = sent[x]
    BY <1>1, <1>4 DEF DTypeOK
  <2>2. sent'[x] = sent[x] \/ sent'[x] = Nil
    BY <1>1, <1>3 DEF DTypeOK
  <2>3. Genuine(x, held[x]) /\ Genuine(x, sent[x]) /\ (sent[x] # Nil => sent[x].run = run)
    BY DEF DInv, ResponseInv
  <2>4. run' = run /\ created' = created
    BY <1>3 DEF svars
  <2>5. Genuine(x, held[x])'
    BY <2>1, <2>3, <2>4 DEF Genuine, Made
  <2>6. Genuine(x, sent[x])'
    BY <2>2, <2>3, <2>4 DEF Genuine, Made
  <2> QED
    BY <2>2, <2>3, <2>4, <2>5, <2>6
<1>8. AnswerInv'
  <2> SUFFICES ASSUME NEW x \in Subs
               PROVE  /\ answer'[x] = "ack" => held'[x] # Nil /\ held'[x].run = run'
                      /\ phase'[x] = "watch" /\ x \in Named => answer'[x] # "none"
    BY DEF AnswerInv
  <2>1. CASE x = s
    <3>1. phase'[x] = "request"
      BY <1>1, <1>3, <2>1 DEF DTypeOK
    <3>2. \/ held'[x] = sent[s]
          \/ answer'[x] = "nack"
      BY <1>1, <1>4, <2>1 DEF DTypeOK
    <3> QED
      BY <1>2, <1>3, <2>1, <3>1, <3>2 DEF DInv, ResponseInv
  <2>2. CASE x # s
    BY <1>1, <1>3, <1>4, <2>2 DEF DInv, DTypeOK, AnswerInv
  <2> QED
    BY <2>1, <2>2
<1>9. OpenWatchCurrent'
  BY <1>1, <1>3, <1>4 DEF DInv, DTypeOK, OpenWatchCurrent, Info, VersionString, svars
<1> QED
  BY <1>5, <1>6, <1>7, <1>8, <1>9 DEF DInv

(* What is published is made of resources of this process. *)
LEMMA PublishGood ==
  ASSUME DTypeOK, Publish
  PROVE  /\ served' \in Snapshot
         /\ \A t \in Types : Made(t, served'[t].version, served'[t].config)
<1>1. ASSUME NEW t \in Types
      PROVE  /\ served'[t] \in [version : Nat, config : Config]
             /\ Made(t, served'[t].version, served'[t].config)
  <2>1. PICK b \in created : /\ b.type = t
                             /\ served'[t] = [version |-> b.version, config |-> b.config]
    BY <1>1 DEF Publish, Selections, Offered
  <2>2. b \in [type : Types, version : Nat, config : Config]
    BY DEF DTypeOK
  <2>3. b = [type |-> t, version |-> b.version, config |-> b.config]
    BY <2>1, <2>2
  <2> QED
    BY <2>1, <2>2, <2>3 DEF Made
<1>2. served' = [t \in Types |-> served'[t]]
  BY DEF Publish, Selections
<1> QED
  BY <1>1, <1>2 DEF Snapshot

LEMMA SetSnapshotInv ==
  ASSUME DInv, SetSnapshot
  PROVE  DInv'
<1>1. DTypeOK
  BY DEF DInv
<1>2. /\ UNCHANGED <<counter, created, answer, held, cancelled, run, faults>>
      /\ published' = published + 1
      /\ Publish
  BY DEF SetSnapshot, Publish
<1>3. /\ served' \in Snapshot /\ served' # Nil
      /\ \A t \in Types : Made(t, served'[t].version, served'[t].config)
  BY <1>1, <1>2, PublishGood, DeliveryAssumption
<1>4. PICK answered \in SUBSET Behind(served') :
        /\ cancelled \/ answered = Behind(served')
        /\ phase' = [s \in Subs |-> IF s \in answered THEN "response" ELSE phase[s]]
        /\ sent' = [s \in Subs |-> IF s \in answered THEN Response(s, served')
                                                     ELSE sent[s]]
  BY DEF SetSnapshot
<1>5. \A s \in Subs : /\ Response(s, served') \in DiscoveryResponse
                      /\ Response(s, served') # Nil
                      /\ Response(s, served').run = run
                      /\ Made(s, Response(s, served').version[s], Response(s, served').config)
  BY <1>1, <1>3, ResponseGood, DeliveryAssumption
<1>6. \A s \in answered : s \in Subs /\ phase[s] = "watch"
  BY DEF Behind
<1>7. DTypeOK'
  <2>1. phase' \in [Subs -> {"down", "request", "watch", "response"}]
    BY <1>1, <1>4 DEF DTypeOK
  <2>2. sent' \in [Subs -> DiscoveryResponse \cup {Nil}]
    BY <1>1, <1>4, <1>5 DEF DTypeOK
  <2>3. \A s \in Subs : (phase'[s] = "response") = (sent'[s] # Nil)
    BY <1>1, <1>4, <1>5 DEF DTypeOK
  <2>4. published' \in Nat
    BY <1>1, <1>2 DEF DTypeOK
  <2> QED
    BY <1>1, <1>2, <1>3, <2>1, <2>2, <2>3, <2>4 DEF DTypeOK
<1>8. CreatedInv'
  BY <1>2, <1>3 DEF DInv, CreatedInv, Made
<1>9. ResponseInv'
  <2> SUFFICES ASSUME NEW x \in Subs
               PROVE  /\ Genuine(x, held[x])'
                      /\ Genuine(x, sent[x])'
                      /\ sent'[x] # Nil => sent'[x].run = run'
    BY DEF ResponseInv
  <2>1. Genuine(x, held[x]) /\ Genuine(x, sent[x]) /\ (sent[x] # Nil => sent[x].run = run)
    BY DEF DInv, ResponseInv
  <2>2. run' = run /\ created' = created /\ held' = held
    BY <1>2
  <2>3. Genuine(x, held[x])'
    BY <2>1, <2>2 DEF Genuine, Made
  <2>4. CASE x \in answered
    <3>1. sent'[x] = Response(x, served')
      BY <1>4, <2>4
    <3>2. Genuine(x, Response(x, served'))
      <4>1. run \in Nat
        BY <1>1 DEF DTypeOK
      <4> QED
        BY <1>5, <4>1 DEF Genuine
    <3>3. Genuine(x, sent[x])'
      BY <2>2, <3>1, <3>2 DEF Genuine, Made
    <3> QED
      BY <1>5, <2>2, <2>3, <3>1, <3>3
  <2>5. CASE x \notin answered
    <3>1. sent'[x] = sent[x]
      BY <1>4, <2>5
    <3>2. Genuine(x, sent[x])'
      BY <2>1, <2>2, <3>1 DEF Genuine, Made
    <3> QED
      BY <2>1, <2>2, <2>3, <3>1, <3>2
  <2> QED
    BY <2>4, <2>5
<1>10. AnswerInv'
  BY <1>2, <1>4 DEF DInv, AnswerInv
<1>11. OpenWatchCurrent'
  <2> SUFFICES ASSUME ~cancelled', NEW x \in Subs, phase'[x] = "watch"
               PROVE  Info(x)' = VersionString(served')
    BY DEF OpenWatchCurrent, VersionString
  <2>1. phase[x] = "watch" /\ x \notin answered
    BY <1>4
  <2>2. x \notin Behind(served')
    BY <1>2, <1>4, <2>1
  <2>3. Info(x)' = Info(x)
    BY <1>2 DEF Info
  <2> QED
    BY <2>1, <2>2, <2>3 DEF Behind
<1> QED
  BY <1>7, <1>8, <1>9, <1>10, <1>11 DEF DInv

LEMMA FaultInv ==
  ASSUME DInv, Cancel \/ Restart \/ \E s \in Subs : Break(s)
  PROVE  DInv'
<1>1. DTypeOK
  BY DEF DInv
<1>2. ASSUME NEW s \in Subs, Break(s)
      PROVE  DInv'
  <2>1. /\ UNCHANGED <<svars, held, cancelled, run, published>>
        /\ faults' = faults + 1
        /\ phase' = [phase EXCEPT ![s] = "down"]
        /\ answer' = [answer EXCEPT ![s] = "none"]
        /\ sent' = [sent EXCEPT ![s] = Nil]
    BY <1>2 DEF Break, Fault
  <2>2. DTypeOK'
    BY <1>1, <2>1 DEF DTypeOK, svars
  <2>3. CreatedInv'
    BY <2>1 DEF DInv, CreatedInv, Made, svars
  <2>4. ResponseInv'
    <3> SUFFICES ASSUME NEW x \in Subs
                 PROVE  /\ Genuine(x, held[x])'
                        /\ Genuine(x, sent[x])'
                        /\ sent'[x] # Nil => sent'[x].run = run'
      BY DEF ResponseInv
    <3>1. sent'[x] = sent[x] \/ sent'[x] = Nil
      BY <1>1, <2>1 DEF DTypeOK
    <3>2. Genuine(x, held[x]) /\ Genuine(x, sent[x]) /\ (sent[x] # Nil => sent[x].run = run)
      BY DEF DInv, ResponseInv
    <3> QED
      BY <2>1, <3>1, <3>2 DEF Genuine, Made, svars
  <2>5. AnswerInv' /\ OpenWatchCurrent'
    BY <1>1, <2>1
    DEF DInv, DTypeOK, AnswerInv, OpenWatchCurrent, Info, VersionString, svars
  <2> QED
    BY <2>2, <2>3, <2>4, <2>5 DEF DInv
<1>3. CASE Cancel
  <2>1. /\ UNCHANGED <<svars, streamVars, run, published>>
        /\ faults' = faults + 1
        /\ cancelled' = TRUE
    BY <1>3 DEF Cancel, Fault
  <2>2. DTypeOK'
    BY <1>1, <2>1 DEF DTypeOK, svars, streamVars
  <2>3. CreatedInv' /\ ResponseInv'
    BY <2>1 DEF DInv, CreatedInv, ResponseInv, Genuine, Made, svars, streamVars
  <2>4. AnswerInv' /\ OpenWatchCurrent'
    BY <2>1 DEF DInv, AnswerInv, OpenWatchCurrent, streamVars
  <2> QED
    BY <2>2, <2>3, <2>4 DEF DInv
<1>4. CASE Restart
  <2>1. /\ counter' = [t \in Types |-> 0] /\ created' = {} /\ served' = Nil
        /\ cancelled' = FALSE /\ run' = run + 1
        /\ phase' = [s \in Subs |-> "down"]
        /\ answer' = [s \in Subs |-> "none"]
        /\ sent' = [s \in Subs |-> Nil]
        /\ held' = held /\ faults' = faults + 1 /\ published' = published
    BY <1>4 DEF Restart, Fault
  <2>2. DTypeOK'
    <3>1. run' \in Nat /\ faults' \in Nat /\ published' \in Nat
      BY <1>1, <2>1 DEF DTypeOK
    <3>2. counter' \in [Types -> Nat]
      BY <2>1
    <3>3. created' \in SUBSET [type : Types, version : Nat, config : Config]
      BY <2>1
    <3>4. phase' \in [Subs -> {"down", "request", "watch", "response"}]
      BY <2>1
    <3>5. answer' \in [Subs -> {"none", "ack", "nack"}]
      BY <2>1
    <3>6. sent' \in [Subs -> DiscoveryResponse \cup {Nil}]
      BY <2>1
    <3>7. held' \in [Subs -> DiscoveryResponse \cup {Nil}]
      BY <1>1, <2>1 DEF DTypeOK
    <3>8. ASSUME NEW x \in Subs
          PROVE  phase'[x] = "down" /\ sent'[x] = Nil
      BY <2>1
    <3>9. /\ \A x \in Subs : (phase'[x] = "response") = (sent'[x] # Nil)
          /\ \A x \in Subs : phase'[x] # "down" => served' # Nil
      BY <3>8
    <3>10. served' \in Snapshot \cup {Nil} /\ cancelled' \in BOOLEAN
      BY <2>1
    <3> QED
      BY <3>1, <3>2, <3>3, <3>4, <3>5, <3>6, <3>7, <3>9, <3>10 DEF DTypeOK
  <2>3. CreatedInv'
    BY <2>1 DEF CreatedInv
  <2>4. ResponseInv'
    <3> SUFFICES ASSUME NEW x \in Subs, held[x] # Nil
                 PROVE  held[x].run <= run + 1 /\ held[x].run # run + 1
      BY <2>1 DEF ResponseInv, Genuine
    <3>1. held[x].run \in Nat /\ run \in Nat /\ held[x].run <= run
      BY <1>1 DEF DInv, DTypeOK, ResponseInv, Genuine, DiscoveryResponse
    <3> QED
      BY <3>1
  <2>5. AnswerInv' /\ OpenWatchCurrent'
    BY <2>1 DEF AnswerInv, OpenWatchCurrent
  <2> QED
    BY <2>2, <2>3, <2>4, <2>5 DEF DInv
<1> QED
  BY <1>2, <1>3, <1>4

-----------------------------------------------------------------------------
(* The inductive invariant of delivery holds for every instance. *)
THEOREM DeliveryInvariance == DSpec => []DInv
<1>1. DInv /\ [DNext]_dvars => DInv'
  <2> SUFFICES ASSUME DInv, [DNext]_dvars
               PROVE  DInv'
    OBVIOUS
  <2>1. CASE Build
    BY <2>1, BuildInv
  <2>2. CASE SetSnapshot
    BY <2>2, SetSnapshotInv
  <2>3. ASSUME NEW s \in Subs, Stream(s) \/ Break(s)
        PROVE  DInv'
    BY <2>3, ConnectInv, CreateWatchInv, ReceiveInv, FaultInv DEF Stream
  <2>4. CASE Cancel \/ Restart
    BY <2>4, FaultInv
  <2>5. CASE UNCHANGED dvars
    <3>1. /\ UNCHANGED <<counter, created, served, phase, answer, sent, held>>
          /\ UNCHANGED <<cancelled, run, published, faults>>
      BY <2>5 DEF dvars, svars, streamVars
    <3>2. DTypeOK' /\ CreatedInv'
      BY <3>1 DEF DInv, DTypeOK, CreatedInv, Made
    <3>3. ResponseInv' /\ AnswerInv' /\ OpenWatchCurrent'
      BY <3>1 DEF DInv, ResponseInv, Genuine, Made, AnswerInv, OpenWatchCurrent, Info,
                  VersionString
    <3> QED
      BY <3>2, <3>3 DEF DInv
  <2> QED
    BY <2>1, <2>2, <2>3, <2>4, <2>5 DEF DNext
<1> QED
  BY <1>1, InitInv, PTL DEF DSpec

(* Streams, responses and what Envoy holds are well formed, and nothing is *)
(* served before the first snapshot (Connect, CreateWatch).                *)
THEOREM DeliveryTyped == DSpec => []DTypeOK
<1>1. DInv => DTypeOK
  BY DEF DInv
<1> QED
  BY <1>1, DeliveryInvariance, PTL

(* No snapshot slips past an open watch (SetSnapshot, CreateWatch). *)
THEOREM WatchesAreCurrent == DSpec => []OpenWatchCurrent
<1>1. DInv => OpenWatchCurrent
  BY DEF DInv
<1> QED
  BY <1>1, DeliveryInvariance, PTL

(* Old content is kept only when a new process repeats a version string. *)
THEOREM StaleMeansRestart == DSpec => []StaleOnlyAfterRestart
<1> QED
  BY StaleFollows, DeliveryInvariance, PTL

=============================================================================
