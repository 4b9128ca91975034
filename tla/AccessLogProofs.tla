--------------------------- MODULE AccessLogProofs ---------------------------
(***************************************************************************)
(* Proofs about AccessLog, for any number of loggers, streams and buffers  *)
(* and any size of the pool: no buffer has two users, so every line of the *)
(* output is one entry, and the entries of a handler come out in order.    *)
(***************************************************************************)
EXTENDS AccessLog, SequenceTheorems, TLAPS

Holding == {"fill", "end", "write", "put"}

(* A buffer has one holder at most, and is not in the pool meanwhile. *)
PoolInv ==
  /\ \A s, t \in Streams : s # t /\ buf[s] # None => buf[s] # buf[t]
  /\ \A s \in Streams : buf[s] \notin pool

(* What a buffer contains follows from the step of its holder, and a       *)
(* buffer that nobody holds is empty.                                      *)
TextInv ==
  /\ \A s \in Streams :
       /\ pc[s] = "fill" => text[buf[s]] = <<>>
       /\ pc[s] = "end" => text[buf[s]] = <<<<logs[s][i[s]], "head">>>>
       /\ pc[s] = "write" => text[buf[s]] = Line(logs[s][i[s]])
  /\ \A b \in Buffers : (\A s \in Streams : buf[s] # b) => text[b] = <<>>

(* Entries come from Envoy. *)
EntryInv ==
  /\ \A s \in Streams : \A k \in 1 .. Len(logs[s]) : logs[s][k] \in 1 .. sent
  /\ \A s \in Streams : \A m \in 1 .. Len(inbox[s]) :
       \A k \in 1 .. Len(inbox[s][m]) : inbox[s][m][k] \in 1 .. sent

(* A handler starts with the first entry. *)
StartInv == \A s \in Streams : pc[s] \in {"unused", "recv"} => i[s] = 1

AInv == TypeOK /\ PoolInv /\ TextInv /\ EntryInv /\ StartInv /\ LinesWhole

(* Nothing is held or written at first. *)
LEMMA AInitInv == Init => AInv
<1> SUFFICES ASSUME Init PROVE AInv
  OBVIOUS
<1>1. TypeOK
  BY AccessLogAssumption DEF Init, TypeOK, Steps, Entries, Text
<1>2. PoolInv /\ TextInv
  BY DEF Init, PoolInv, TextInv
<1>3. EntryInv /\ StartInv /\ LinesWhole
  BY DEF Init, EntryInv, StartInv, LinesWhole
<1> QED
  BY <1>1, <1>2, <1>3 DEF AInv

(* Taking a message keeps the invariant: the handler holds no buffer yet,  *)
(* and the entries it takes were sent.                                     *)
LEMMA RecvInv ==
  ASSUME AInv, NEW s \in Streams, Recv(s)
  PROVE  AInv'
<1>1. TypeOK /\ PoolInv /\ TextInv /\ EntryInv /\ StartInv /\ LinesWhole
  BY DEF AInv
<1>2. /\ pc[s] = "recv" /\ inbox[s] # <<>>
      /\ logs' = [logs EXCEPT ![s] = Head(inbox[s])]
      /\ inbox' = [inbox EXCEPT ![s] = Tail(inbox[s])]
      /\ pc' = [pc EXCEPT ![s] = IF Head(inbox[s]) = <<>> THEN "returned" ELSE "get"]
      /\ UNCHANGED <<cur, cut, messages, sent, i, buf, pool, text, out>>
  BY DEF Recv, Goto, clientVars
<1>3. /\ inbox \in [Streams -> Seq(Seq(Entries))]
      /\ logs \in [Streams -> Seq(Entries)]
      /\ pc \in [Streams -> Steps \cup {"unused", "returned"}]
  BY <1>1 DEF TypeOK
<1>4. inbox[s] \in Seq(Seq(Entries))
  BY <1>3
<1>5. /\ Head(inbox[s]) \in Seq(Entries)
      /\ Tail(inbox[s]) \in Seq(Seq(Entries))
      /\ Head(inbox[s]) = inbox[s][1]
      /\ Len(inbox[s]) \in Nat /\ Len(inbox[s]) >= 1
      /\ Len(Tail(inbox[s])) = Len(inbox[s]) - 1
      /\ \A m \in 1 .. Len(Tail(inbox[s])) : Tail(inbox[s])[m] = inbox[s][m + 1]
  BY <1>2, <1>4
<1>6. Head(inbox[s]) # <<>> => Len(Head(inbox[s])) >= 1
  BY <1>5
<1>7. TypeOK'
  <2>1. /\ logs' \in [Streams -> Seq(Entries)]
        /\ inbox' \in [Streams -> Seq(Seq(Entries))]
        /\ pc' \in [Streams -> Steps \cup {"unused", "returned"}]
    BY <1>2, <1>3, <1>5 DEF Steps
  <2>2. ASSUME NEW t \in Streams
        PROVE  /\ pc'[t] \in {"get", "fill", "end", "write", "put"}
                    => i'[t] <= Len(logs'[t])
               /\ pc'[t] \in Holding <=> buf'[t] # None
    BY <1>1, <1>2, <1>3, <1>6 DEF TypeOK, StartInv, Holding
  <2> QED
    BY <1>1, <1>2, <2>1, <2>2 DEF TypeOK, Holding
<1>8. PoolInv' /\ StartInv' /\ LinesWhole'
  BY <1>1, <1>2, <1>3 DEF PoolInv, StartInv, LinesWhole
<1>9. TextInv'
  BY <1>1, <1>2, <1>3 DEF TextInv
<1>10. EntryInv'
  <2>1. \A m \in 1 .. Len(inbox[s]) :
          \A k \in 1 .. Len(inbox[s][m]) : inbox[s][m][k] \in 1 .. sent
    BY <1>1 DEF EntryInv
  <2>2. \A k \in 1 .. Len(Head(inbox[s])) : Head(inbox[s])[k] \in 1 .. sent
    BY <1>5, <2>1
  <2>3. ASSUME NEW m \in 1 .. Len(Tail(inbox[s]))
        PROVE  \A k \in 1 .. Len(Tail(inbox[s])[m]) : Tail(inbox[s])[m][k] \in 1 .. sent
    <3>1. m + 1 \in 1 .. Len(inbox[s]) /\ Tail(inbox[s])[m] = inbox[s][m + 1]
      BY <1>5
    <3> QED
      BY <2>1, <3>1
  <2> QED
    BY <1>1, <1>2, <1>3, <2>2, <2>3 DEF EntryInv
<1> QED
  BY <1>7, <1>8, <1>9, <1>10 DEF AInv

(* A handler that ends without a message held nothing. *)
LEMMA RecvErrorInv ==
  ASSUME AInv, NEW s \in Streams, RecvError(s)
  PROVE  AInv'
<1>1. /\ pc[s] = "recv"
      /\ pc' = [pc EXCEPT ![s] = "returned"]
      /\ UNCHANGED <<cur, cut, messages, sent, inbox, logs, i, buf, pool, text, out>>
  BY DEF RecvError, Goto, clientVars
<1>2. TypeOK'
  BY <1>1 DEF AInv, TypeOK, Steps
<1>3. PoolInv' /\ TextInv' /\ EntryInv' /\ StartInv' /\ LinesWhole'
  BY <1>1 DEF AInv, TypeOK, PoolInv, TextInv, EntryInv, StartInv, LinesWhole
<1> QED
  BY <1>2, <1>3 DEF AInv

(* The buffer that Get returns has no other user and is empty. *)
LEMMA GetInv ==
  ASSUME AInv, NEW s \in Streams, Get(s)
  PROVE  AInv'
<1>1. TypeOK /\ PoolInv /\ TextInv /\ EntryInv /\ StartInv /\ LinesWhole
  BY DEF AInv
<1>2. PICK b \in Buffers :
        /\ \A t \in Streams : buf[t] # b
        /\ buf' = [buf EXCEPT ![s] = b]
        /\ pool' = pool \ {b}
  <2>1. PICK b \in IF pool # {} THEN pool ELSE Buffers \ Held :
          /\ buf' = [buf EXCEPT ![s] = b]
          /\ pool' = pool \ {b}
    BY DEF Get
  <2>2. CASE pool # {}
    <3>1. b \in pool /\ \A t \in Streams : buf[t] \notin pool
      BY <1>1, <2>1, <2>2 DEF PoolInv
    <3>2. b \in Buffers
      BY <3>1, <1>1 DEF TypeOK
    <3> QED
      BY <3>1, <3>2, <2>1
  <2>3. CASE pool = {}
    <3>1. b \in Buffers /\ b # None /\ b \notin Held
      BY <2>1, <2>3, AccessLogAssumption
    <3>2. \A t \in Streams : buf[t] # b
      BY <3>1 DEF Held
    <3> QED
      BY <2>1, <3>1, <3>2
  <2> QED
    BY <2>2, <2>3
<1>3. /\ pc[s] = "get"
      /\ pc' = [pc EXCEPT ![s] = "fill"]
      /\ UNCHANGED <<cur, cut, messages, sent, inbox, logs, i, text, out>>
  BY DEF Get, Goto, clientVars
<1>4. b # None
  BY AccessLogAssumption
<1>5. TypeOK'
  <2>1. /\ buf' \in [Streams -> Buffers \cup {None}]
        /\ pool' \in SUBSET Buffers
        /\ pc' \in [Streams -> Steps \cup {"unused", "returned"}]
    BY <1>1, <1>2, <1>3 DEF TypeOK, Steps
  <2>2. ASSUME NEW t \in Streams
        PROVE  /\ pc'[t] \in {"get", "fill", "end", "write", "put"}
                    => i'[t] <= Len(logs'[t])
               /\ pc'[t] \in Holding <=> buf'[t] # None
    BY <1>1, <1>2, <1>3, <1>4 DEF TypeOK, Holding
  <2> QED
    BY <1>1, <1>3, <2>1, <2>2 DEF TypeOK, Holding
<1>6. PoolInv'
  BY <1>1, <1>2, <1>4 DEF PoolInv, TypeOK
<1>7. TextInv'
  <2>1. text[b] = <<>>
    BY <1>1, <1>2 DEF TextInv
  <2>2. /\ buf \in [Streams -> Buffers \cup {None}] /\ buf[s] = None
        /\ pc \in [Streams -> Steps \cup {"unused", "returned"}]
    BY <1>1, <1>3 DEF TypeOK
  <2>3. ASSUME NEW c \in Buffers, \A t \in Streams : buf'[t] # c
        PROVE  text'[c] = <<>>
    <3>1. \A t \in Streams : buf[t] # c
      BY <1>2, <2>2, <2>3, AccessLogAssumption
    <3> QED
      BY <1>1, <1>3, <3>1 DEF TextInv
  <2>4. ASSUME NEW t \in Streams
        PROVE  /\ pc'[t] = "fill" => text'[buf'[t]] = <<>>
               /\ pc'[t] = "end" => text'[buf'[t]] = <<<<logs'[t][i'[t]], "head">>>>
               /\ pc'[t] = "write" => text'[buf'[t]] = Line(logs'[t][i'[t]])
    BY <1>1, <1>2, <1>3, <2>1, <2>2 DEF TextInv
  <2> QED
    BY <2>3, <2>4 DEF TextInv, Line
<1>8. EntryInv' /\ StartInv' /\ LinesWhole'
  BY <1>1, <1>3 DEF EntryInv, StartInv, LinesWhole, TypeOK
<1> QED
  BY <1>5, <1>6, <1>7, <1>8 DEF AInv

(* What Append makes of no piece and of one. *)
LEMMA AppendToNone == ASSUME NEW a PROVE Append(<<>>, a) = <<a>>
<1> DEFINE S == {a}
<1>1. <<>> \in Seq(S) /\ a \in S
  OBVIOUS
<1> QED
  BY <1>1

LEMMA AppendToOne == ASSUME NEW a, NEW b PROVE Append(<<a>>, b) = <<a, b>>
<1> DEFINE S == {a, b}
<1>1. <<a>> \in Seq(S) /\ b \in S /\ <<a, b>> \in Seq(S)
  OBVIOUS
<1>2. /\ Append(<<a>>, b) \in Seq(S) /\ Len(Append(<<a>>, b)) = 2
      /\ Append(<<a>>, b)[1] = a /\ Append(<<a>>, b)[2] = b
  BY <1>1
<1> HIDE DEF S
<1>3. \A k \in 1 .. 2 : Append(<<a>>, b)[k] = <<a, b>>[k]
  BY <1>2
<1> QED
  BY <1>1, <1>2, <1>3, SeqEqual

(* Appending to the buffer that a handler holds disturbs nobody else. *)
LEMMA WriteToInv ==
  ASSUME AInv, NEW s \in Streams, NEW piece \in {"head", "tail"}, NEW next \in Steps,
         \/ pc[s] = "fill" /\ piece = "head" /\ next = "end"
         \/ pc[s] = "end" /\ piece = "tail" /\ next = "write",
         WriteTo(s, piece, next)
  PROVE  AInv'
<1>1. TypeOK /\ PoolInv /\ TextInv /\ EntryInv /\ StartInv /\ LinesWhole
  BY DEF AInv
<1>2. /\ text' = [text EXCEPT ![buf[s]] = Append(@, <<logs[s][i[s]], piece>>)]
      /\ pc' = [pc EXCEPT ![s] = next]
      /\ UNCHANGED <<cur, cut, messages, sent, inbox, logs, i, buf, pool, out>>
  BY DEF WriteTo, Goto, clientVars
<1>3. /\ buf \in [Streams -> Buffers \cup {None}]
      /\ buf[s] \in Buffers
      /\ text \in [Buffers -> Text]
      /\ pc \in [Streams -> Steps \cup {"unused", "returned"}]
      /\ logs[s] \in Seq(Entries)
      /\ i[s] \in Nat \ {0} /\ i[s] <= Len(logs[s])
  BY <1>1 DEF TypeOK
<1>4. logs[s][i[s]] \in Entries
  BY <1>3
<1>5. TypeOK'
  <2>1. text' \in [Buffers -> Text]
    <3>1. Append(text[buf[s]], <<logs[s][i[s]], piece>>) \in Text
      BY <1>3, <1>4 DEF Text
    <3> QED
      BY <1>2, <1>3, <3>1
  <2>2. pc' \in [Streams -> Steps \cup {"unused", "returned"}]
    BY <1>2, <1>3
  <2>3. ASSUME NEW t \in Streams
        PROVE  /\ pc'[t] \in {"get", "fill", "end", "write", "put"}
                    => i'[t] <= Len(logs'[t])
               /\ pc'[t] \in Holding <=> buf'[t] # None
    BY <1>1, <1>2, <1>3 DEF TypeOK, Holding
  <2> QED
    BY <1>1, <1>2, <2>1, <2>2, <2>3 DEF TypeOK, Holding
<1>6. PoolInv' /\ EntryInv' /\ StartInv' /\ LinesWhole'
  BY <1>1, <1>2, <1>3 DEF PoolInv, EntryInv, StartInv, LinesWhole
<1>7. TextInv'
  <2>1. text'[buf[s]] = Append(text[buf[s]], <<logs[s][i[s]], piece>>)
    BY <1>2, <1>3
  <2>2. \A c \in Buffers : c # buf[s] => text'[c] = text[c]
    BY <1>2, <1>3
  <2>3. /\ pc[s] = "fill" => text[buf[s]] = <<>>
        /\ pc[s] = "end" => text[buf[s]] = <<<<logs[s][i[s]], "head">>>>
    BY <1>1 DEF TextInv
  <2>4. /\ pc'[s] = "end" => text'[buf[s]] = <<<<logs[s][i[s]], "head">>>>
        /\ pc'[s] = "write" => text'[buf[s]] = Line(logs[s][i[s]])
    <3>1. CASE pc[s] = "fill"
      <4>1. text'[buf[s]] = Append(<<>>, <<logs[s][i[s]], "head">>)
        BY <2>1, <2>3, <3>1
      <4>2. text'[buf[s]] = <<<<logs[s][i[s]], "head">>>>
        BY <4>1, AppendToNone
      <4> QED
        BY <1>2, <1>3, <3>1, <4>2
    <3>2. CASE pc[s] = "end"
      <4>1. text'[buf[s]] = Append(<<<<logs[s][i[s]], "head">>>>, <<logs[s][i[s]], "tail">>)
        BY <2>1, <2>3, <3>2
      <4>2. text'[buf[s]] = Line(logs[s][i[s]])
        BY <4>1, AppendToOne DEF Line
      <4> QED
        BY <1>2, <1>3, <3>2, <4>2
    <3> QED
      BY <3>1, <3>2
  <2>5. ASSUME NEW t \in Streams, t # s, pc[t] \in {"fill", "end", "write"}
        PROVE  text'[buf[t]] = text[buf[t]]
    BY <1>1, <1>3, <2>2, <2>5 DEF PoolInv, TypeOK
  <2>6. pc'[s] = next /\ \A t \in Streams : t # s => pc'[t] = pc[t]
    BY <1>2, <1>3
  <2>7. ASSUME NEW t \in Streams
        PROVE  /\ pc'[t] = "fill" => text'[buf'[t]] = <<>>
               /\ pc'[t] = "end" => text'[buf'[t]] = <<<<logs'[t][i'[t]], "head">>>>
               /\ pc'[t] = "write" => text'[buf'[t]] = Line(logs'[t][i'[t]])
    BY <1>1, <1>2, <2>4, <2>5, <2>6 DEF TextInv
  <2>8. \A c \in Buffers : (\A t \in Streams : buf'[t] # c) => text'[c] = <<>>
    BY <1>1, <1>2, <2>2 DEF TextInv
  <2> QED
    BY <2>7, <2>8 DEF TextInv, Line
<1> QED
  BY <1>5, <1>6, <1>7 DEF AInv

(* What a handler writes out is the whole line of its entry. *)
LEMMA WriteInv ==
  ASSUME AInv, NEW s \in Streams, Write(s)
  PROVE  AInv'
<1>1. TypeOK /\ PoolInv /\ TextInv /\ EntryInv /\ StartInv /\ LinesWhole
  BY DEF AInv
<1>2. /\ pc[s] = "write"
      /\ out' = Append(out, text[buf[s]])
      /\ pc' = [pc EXCEPT ![s] = "put"]
      /\ UNCHANGED <<cur, cut, messages, sent, inbox, logs, i, buf, pool, text>>
  BY DEF Write, Goto, clientVars
<1>3. /\ buf[s] \in Buffers
      /\ text[buf[s]] \in Text
      /\ out \in Seq(Text)
      /\ pc \in [Streams -> Steps \cup {"unused", "returned"}]
      /\ logs[s] \in Seq(Entries)
      /\ i[s] \in Nat \ {0} /\ i[s] <= Len(logs[s])
  BY <1>1, <1>2 DEF TypeOK
<1>4. TypeOK'
  <2>1. out' \in Seq(Text) /\ pc' \in [Streams -> Steps \cup {"unused", "returned"}]
    BY <1>2, <1>3 DEF Steps
  <2>2. ASSUME NEW t \in Streams
        PROVE  /\ pc'[t] \in {"get", "fill", "end", "write", "put"}
                    => i'[t] <= Len(logs'[t])
               /\ pc'[t] \in Holding <=> buf'[t] # None
    BY <1>1, <1>2, <1>3 DEF TypeOK, Holding
  <2> QED
    BY <1>1, <1>2, <2>1, <2>2 DEF TypeOK, Holding
<1>5. PoolInv' /\ EntryInv' /\ StartInv' /\ TextInv'
  BY <1>1, <1>2, <1>3 DEF PoolInv, EntryInv, StartInv, TextInv, Line
<1>6. LinesWhole'
  <2>1. text[buf[s]] = Line(logs[s][i[s]])
    BY <1>1, <1>2 DEF TextInv
  <2>2. logs[s][i[s]] \in 1 .. sent
    BY <1>1, <1>3 DEF EntryInv
  <2>3. ASSUME NEW k \in 1 .. Len(out')
        PROVE  \E entry \in 1 .. sent : out'[k] = Line(entry)
    <3>1. CASE k = Len(out) + 1
      BY <1>2, <1>3, <2>1, <2>2, <3>1
    <3>2. CASE k # Len(out) + 1
      <4>1. k \in 1 .. Len(out) /\ out'[k] = out[k]
        BY <1>2, <1>3, <3>2
      <4> QED
        BY <1>1, <4>1 DEF LinesWhole
    <3> QED
      BY <3>1, <3>2
  <2> QED
    BY <1>2, <2>3 DEF LinesWhole, Line
<1> QED
  BY <1>4, <1>5, <1>6 DEF AInv

(* The buffer is empty when the pool has it back. *)
LEMMA PutInv ==
  ASSUME AInv, NEW s \in Streams, Put(s)
  PROVE  AInv'
<1>1. TypeOK /\ PoolInv /\ TextInv /\ EntryInv /\ StartInv /\ LinesWhole
  BY DEF AInv
<1>2. /\ pc[s] = "put"
      /\ text' = [text EXCEPT ![buf[s]] = <<>>]
      /\ pool' \in {pool, pool \cup {buf[s]}}
      /\ buf' = [buf EXCEPT ![s] = None]
      /\ i' = [i EXCEPT ![s] = @ + 1]
      /\ pc' = [pc EXCEPT ![s] = IF i[s] = Len(logs[s]) THEN "returned" ELSE "get"]
      /\ UNCHANGED <<cur, cut, messages, sent, inbox, logs, out>>
  BY DEF Put, Goto, clientVars
<1>3. /\ buf \in [Streams -> Buffers \cup {None}] /\ buf[s] \in Buffers
      /\ text \in [Buffers -> Text]
      /\ pool \in SUBSET Buffers
      /\ pc \in [Streams -> Steps \cup {"unused", "returned"}]
      /\ logs \in [Streams -> Seq(Entries)]
      /\ i \in [Streams -> Nat \ {0}] /\ i[s] <= Len(logs[s])
  BY <1>1, <1>2 DEF TypeOK
<1>4. TypeOK'
  <2>1. /\ buf' \in [Streams -> Buffers \cup {None}]
        /\ text' \in [Buffers -> Text]
        /\ pool' \in SUBSET Buffers
        /\ pc' \in [Streams -> Steps \cup {"unused", "returned"}]
        /\ i' \in [Streams -> Nat \ {0}]
    BY <1>2, <1>3 DEF Steps, Text
  <2>2. i[s] # Len(logs[s]) => i[s] + 1 <= Len(logs[s])
    BY <1>3
  <2>3. ASSUME NEW t \in Streams
        PROVE  /\ pc'[t] \in {"get", "fill", "end", "write", "put"}
                    => i'[t] <= Len(logs'[t])
               /\ pc'[t] \in Holding <=> buf'[t] # None
    BY <1>1, <1>2, <1>3, <2>2 DEF TypeOK, Holding
  <2> QED
    BY <1>1, <1>2, <2>1, <2>3 DEF TypeOK, Holding
<1>5. PoolInv'
  BY <1>1, <1>2, <1>3, AccessLogAssumption DEF PoolInv
<1>6. EntryInv' /\ LinesWhole'
  BY <1>1, <1>2 DEF EntryInv, LinesWhole
<1>7. StartInv'
  BY <1>1, <1>2, <1>3 DEF StartInv
<1>8. TextInv'
  <2>1. pc'[s] \notin Holding /\ \A t \in Streams : t # s => pc'[t] = pc[t]
    BY <1>2, <1>3 DEF Holding
  <2>2. ASSUME NEW t \in Streams, t # s, pc[t] \in {"fill", "end", "write"}
        PROVE  buf'[t] = buf[t] /\ i'[t] = i[t] /\ text'[buf[t]] = text[buf[t]]
    BY <1>1, <1>2, <1>3, <2>2 DEF PoolInv, TypeOK
  <2>3. ASSUME NEW t \in Streams
        PROVE  /\ pc'[t] = "fill" => text'[buf'[t]] = <<>>
               /\ pc'[t] = "end" => text'[buf'[t]] = <<<<logs'[t][i'[t]], "head">>>>
               /\ pc'[t] = "write" => text'[buf'[t]] = Line(logs'[t][i'[t]])
    BY <1>1, <1>2, <2>1, <2>2 DEF TextInv, Holding
  <2>4. ASSUME NEW c \in Buffers, \A t \in Streams : buf'[t] # c
        PROVE  text'[c] = <<>>
    <3>1. CASE c = buf[s]
      BY <1>2, <1>3, <3>1
    <3>2. CASE c # buf[s]
      <4>1. \A t \in Streams : buf[t] # c
        BY <1>2, <1>3, <2>4, <3>2
      <4> QED
        BY <1>1, <1>2, <1>3, <3>2, <4>1 DEF TextInv
    <3> QED
      BY <3>1, <3>2
  <2> QED
    BY <2>3, <2>4 DEF TextInv, Line
<1> QED
  BY <1>4, <1>5, <1>6, <1>7, <1>8 DEF AInv

(* A message adds entries that are new and disturbs no handler. *)
LEMMA FlushInv ==
  ASSUME AInv, NEW e \in Envoys, NEW n \in 0 .. MaxEntries, Flush(e, n)
  PROVE  AInv'
<1> DEFINE msg == [k \in 1 .. n |-> sent + k]
<1>1. TypeOK /\ PoolInv /\ TextInv /\ EntryInv /\ StartInv /\ LinesWhole
  BY DEF AInv
<1>2. n \in Nat /\ sent \in Nat /\ sent' = sent + n
  BY <1>1, AccessLogAssumption DEF Flush, TypeOK
<1>3. /\ msg \in Seq(Entries) /\ Len(msg) = n
      /\ \A k \in 1 .. Len(msg) : msg[k] \in 1 .. sent'
  <2>1. msg \in [1 .. n -> Entries]
    BY <1>2 DEF Entries
  <2> QED
    BY <1>2, <2>1
<1> HIDE DEF msg
<1>4. PICK s \in Streams :
        /\ inbox' \in {[inbox EXCEPT ![s] = Append(@, msg)], [inbox EXCEPT ![s] = <<msg>>]}
        /\ \/ cur' = cur /\ pc' = pc
           \/ /\ pc[s] = "unused"
              /\ cur' = [cur EXCEPT ![e] = s]
              /\ pc' = [pc EXCEPT ![s] = "recv"]
  <2>1. cur[e] # None => cur[e] \in Streams
    BY <1>1 DEF TypeOK
  <2> QED
    BY <2>1 DEF Flush, Goto, msg
<1>5. /\ messages' \in 0 .. MaxMessages
      /\ UNCHANGED <<cut, logs, i, buf, pool, text, out>>
  <2>1. messages \in 0 .. MaxMessages /\ MaxMessages \in Nat
    BY <1>1, AccessLogAssumption DEF TypeOK
  <2> QED
    BY <2>1 DEF Flush
<1>6. /\ inbox \in [Streams -> Seq(Seq(Entries))]
      /\ pc \in [Streams -> Steps \cup {"unused", "returned"}]
      /\ cur \in [Envoys -> Streams \cup {None}]
      /\ Len(inbox[s]) \in Nat
  BY <1>1 DEF TypeOK
<1>7. TypeOK'
  <2>1. /\ inbox' \in [Streams -> Seq(Seq(Entries))]
        /\ pc' \in [Streams -> Steps \cup {"unused", "returned"}]
        /\ cur' \in [Envoys -> Streams \cup {None}]
        /\ sent' \in Nat
    <3>1. inbox[s] \in Seq(Seq(Entries))
      BY <1>6
    <3>2. Append(inbox[s], msg) \in Seq(Seq(Entries)) /\ <<msg>> \in Seq(Seq(Entries))
      BY <1>3, <3>1
    <3>3. inbox' \in [Streams -> Seq(Seq(Entries))]
      BY <1>4, <1>6, <3>2
    <3>4. sent' \in Nat
      BY <1>2
    <3>5. /\ pc' \in [Streams -> Steps \cup {"unused", "returned"}]
          /\ cur' \in [Envoys -> Streams \cup {None}]
      <4>1. [pc EXCEPT ![s] = "recv"] \in [Streams -> Steps \cup {"unused", "returned"}]
        BY <1>6 DEF Steps
      <4>2. [cur EXCEPT ![e] = s] \in [Envoys -> Streams \cup {None}]
        BY <1>6
      <4> QED
        BY <1>4, <1>6, <4>1, <4>2
    <3> QED
      BY <3>3, <3>4, <3>5
  <2>2. ASSUME NEW t \in Streams
        PROVE  /\ pc'[t] \in {"get", "fill", "end", "write", "put"}
                    => i'[t] <= Len(logs'[t])
               /\ pc'[t] \in Holding <=> buf'[t] # None
    BY <1>1, <1>4, <1>5, <1>6 DEF TypeOK, Holding
  <2> QED
    BY <1>1, <1>5, <2>1, <2>2 DEF TypeOK, Holding
<1>8. PoolInv' /\ StartInv' /\ TextInv'
  BY <1>1, <1>4, <1>5, <1>6 DEF PoolInv, StartInv, TextInv, Line
<1>9. LinesWhole'
  BY <1>1, <1>2, <1>5 DEF LinesWhole, Line
<1>10. EntryInv'
  <2>1. 1 .. sent \subseteq 1 .. sent'
    BY <1>2
  <2>2. \A t \in Streams : \A k \in 1 .. Len(logs'[t]) : logs'[t][k] \in 1 .. sent'
    BY <1>1, <1>5, <2>1 DEF EntryInv
  <2>3. ASSUME NEW t \in Streams, NEW m \in 1 .. Len(inbox'[t])
        PROVE  \/ inbox'[t][m] = msg
               \/ m \in 1 .. Len(inbox[t]) /\ inbox'[t][m] = inbox[t][m]
    <3>1. CASE t # s
      BY <1>4, <1>6, <2>3, <3>1
    <3>2. CASE t = s /\ inbox' = [inbox EXCEPT ![s] = Append(@, msg)]
      <4>1. inbox[s] \in Seq(Seq(Entries)) /\ inbox'[s] = Append(inbox[s], msg)
        BY <1>6, <3>2
      <4> QED
        BY <1>3, <2>3, <3>2, <4>1
    <3>3. CASE t = s /\ inbox' = [inbox EXCEPT ![s] = <<msg>>]
      BY <1>6, <2>3, <3>3
    <3> QED
      BY <1>4, <3>1, <3>2, <3>3
  <2>4. ASSUME NEW t \in Streams, NEW m \in 1 .. Len(inbox'[t]),
               NEW k \in 1 .. Len(inbox'[t][m])
        PROVE  inbox'[t][m][k] \in 1 .. sent'
    <3>1. CASE inbox'[t][m] = msg
      BY <1>3, <3>1
    <3>2. CASE m \in 1 .. Len(inbox[t]) /\ inbox'[t][m] = inbox[t][m]
      BY <1>1, <2>1, <3>2 DEF EntryInv
    <3> QED
      BY <2>3, <3>1, <3>2
  <2> QED
    BY <2>2, <2>4 DEF EntryInv
<1> QED
  BY <1>7, <1>8, <1>9, <1>10 DEF AInv

(* The ends of streams concern Envoy only. *)
LEMMA StreamEndInv ==
  ASSUME AInv, NEW e \in Envoys, SeeEnd(e) \/ Break(e)
  PROVE  AInv'
<1>1. TypeOK'
  BY DEF AInv, TypeOK, SeeEnd, Break
<1>2. PoolInv' /\ TextInv' /\ EntryInv' /\ StartInv' /\ LinesWhole'
  <2>1. UNCHANGED <<sent, inbox, pc, logs, i, buf, pool, text, out>>
    BY DEF SeeEnd, Break
  <2> QED
    BY <2>1 DEF AInv, PoolInv, TextInv, EntryInv, StartInv, LinesWhole, Line
<1> QED
  BY <1>1, <1>2 DEF AInv

(* Every step of the handlers and of Envoy keeps the invariant. *)
LEMMA ANextInv == AInv /\ [Next]_vars => AInv'
<1> SUFFICES ASSUME AInv, [Next]_vars PROVE AInv'
  OBVIOUS
<1>1. ASSUME NEW s \in Streams, Handler(s) PROVE AInv'
  <2>1. CASE Recv(s)
    BY <2>1, RecvInv
  <2>2. CASE RecvError(s)
    BY <2>2, RecvErrorInv
  <2>3. CASE Get(s)
    BY <2>3, GetInv
  <2>4. CASE Fill(s)
    BY <2>4, WriteToInv DEF Fill, Steps
  <2>5. CASE End(s)
    BY <2>5, WriteToInv DEF End, Steps
  <2>6. CASE Write(s)
    BY <2>6, WriteInv
  <2>7. CASE Put(s)
    BY <2>7, PutInv
  <2> QED
    BY <1>1, <2>1, <2>2, <2>3, <2>4, <2>5, <2>6, <2>7 DEF Handler
<1>2. ASSUME NEW e \in Envoys, Envoy(e) PROVE AInv'
  BY <1>2, FlushInv, StreamEndInv DEF Envoy
<1>3. CASE UNCHANGED vars
  <2>1. TypeOK'
    BY <1>3 DEF AInv, TypeOK, vars, clientVars
  <2>2. PoolInv' /\ TextInv' /\ EntryInv' /\ StartInv' /\ LinesWhole'
    BY <1>3 DEF AInv, PoolInv, TextInv, EntryInv, StartInv, LinesWhole, vars,
                clientVars, Line
  <2> QED
    BY <2>1, <2>2 DEF AInv
<1> QED
  BY <1>1, <1>2, <1>3 DEF Next

(* A handler that writes has an entry and a buffer of its own to write it  *)
(* to (StreamAccessLogs), for any number of streams and buffers.           *)
THEOREM AccessLogTyped == Spec => []TypeOK
<1>1. AInv => TypeOK
  BY DEF AInv
<1> QED
  BY <1>1, AInitInv, ANextInv, PTL DEF Spec

(* Every line of the output is one entry that Envoy sent, whole and alone, *)
(* however the handlers interleave and whatever the pool keeps.            *)
THEOREM AccessLogLinesWhole == Spec => []LinesWhole
<1>1. AInv => LinesWhole
  BY DEF AInv
<1> QED
  BY <1>1, AInitInv, ANextInv, PTL DEF Spec

-----------------------------------------------------------------------------
(* The order of the output.                                                *)

(* Where an entry is: in a message that was received, or in one that waits. *)
Holds(x, s, k) == s \in Streams /\ k \in 1 .. Len(logs[s]) /\ logs[s][k] = x

Waits(x, s, m, k) ==
  /\ s \in Streams /\ m \in 1 .. Len(inbox[s]) /\ k \in 1 .. Len(inbox[s][m])
  /\ inbox[s][m][k] = x

(* It is in one place only. *)
UniqueInv ==
  /\ \A x, s, k, t, l : Holds(x, s, k) /\ Holds(x, t, l) => s = t /\ k = l
  /\ \A x, s, m, k, t, n, l :
       Waits(x, s, m, k) /\ Waits(x, t, n, l) => s = t /\ m = n /\ k = l
  /\ \A x, s, k, t, n, l : ~ (Holds(x, s, k) /\ Waits(x, t, n, l))

(* A handler that has received nothing has nothing to write. *)
EmptyInv == \A s \in Streams : pc[s] \in {"unused", "recv"} => logs[s] = <<>>

(* Every line belongs to an entry that a handler is done with. *)
OwnedInv ==
  \A n \in 1 .. Len(out) : \E s \in Streams : \E k \in 1 .. Len(logs[s]) :
    k <= Done(s) /\ out[n] = Line(logs[s][k])

BInv == UniqueInv /\ EmptyInv /\ OwnedInv /\ WrittenInOrder

(* Entries have different lines.                                           *)
LEMMA LineInjective == ASSUME NEW a, NEW b, Line(a) = Line(b) PROVE a = b
<1>1. Line(a)[1][1] = Line(b)[1][1]
  OBVIOUS
<1> QED
  BY <1>1 DEF Line

(* What a handler has done can be counted.                                 *)
LEMMA DoneType ==
  ASSUME TypeOK, NEW s \in Streams
  PROVE  Done(s) \in Nat /\ Done(s) <= Len(logs[s]) + i[s]
<1>1. i[s] \in Nat /\ i[s] >= 1 /\ Len(logs[s]) \in Nat
  BY DEF TypeOK
<1> QED
  BY <1>1 DEF Done

(* At the start no entry is anywhere.                                      *)
LEMMA BInitInv == Init => BInv
BY DEF Init, BInv, UniqueInv, Holds, Waits, EmptyInv, OwnedInv, WrittenInOrder, InOrder

(* Who writes no line and keeps his entries and his position stays in order. *)
LEMMA InOrderFrame ==
  ASSUME NEW s \in Streams, logs'[s] = logs[s], Done(s)' = Done(s), UNCHANGED out,
         NEW k, InOrder(s, k)
  PROVE  InOrder(s, k)'
<1>1. \A entry : Places(entry)' = Places(entry)
  BY DEF Places, Line
<1> QED
  BY <1>1 DEF InOrder

(* A step that writes no line and changes no message. *)
LEMMA QuietInv ==
  ASSUME AInv, BInv, UNCHANGED <<inbox, logs, out>>, EmptyInv',
         \A s \in Streams : Done(s)' = Done(s)
  PROVE  BInv'
<1>1. UniqueInv'
  BY DEF BInv, UniqueInv, Holds, Waits
<1>2. OwnedInv'
  BY DEF BInv, OwnedInv, Line
<1>3. WrittenInOrder'
  BY InOrderFrame DEF BInv, WrittenInOrder
<1> QED
  BY <1>1, <1>2, <1>3 DEF BInv

(* The message that a handler takes moves from its inbox to its log. *)
LEMMA RecvOrder ==
  ASSUME AInv, BInv, NEW s \in Streams, Recv(s)
  PROVE  BInv'
<1>1. TypeOK /\ StartInv /\ UniqueInv /\ EmptyInv /\ OwnedInv /\ WrittenInOrder
  BY DEF AInv, BInv
<1>2. /\ pc[s] = "recv" /\ inbox[s] # <<>>
      /\ logs' = [logs EXCEPT ![s] = Head(inbox[s])]
      /\ inbox' = [inbox EXCEPT ![s] = Tail(inbox[s])]
      /\ pc' = [pc EXCEPT ![s] = IF Head(inbox[s]) = <<>> THEN "returned" ELSE "get"]
      /\ UNCHANGED <<i, out>>
  BY DEF Recv, Goto
<1>3. /\ inbox \in [Streams -> Seq(Seq(Entries))]
      /\ logs \in [Streams -> Seq(Entries)]
      /\ pc \in [Streams -> Steps \cup {"unused", "returned"}]
      /\ logs[s] = <<>> /\ i[s] = 1
  BY <1>1, <1>2 DEF TypeOK, EmptyInv, StartInv
<1>4. /\ Head(inbox[s]) = inbox[s][1]
      /\ Len(inbox[s]) \in Nat /\ Len(inbox[s]) >= 1
      /\ Len(Tail(inbox[s])) = Len(inbox[s]) - 1
      /\ \A m \in 1 .. Len(Tail(inbox[s])) : Tail(inbox[s])[m] = inbox[s][m + 1]
  BY <1>2, <1>3
<1>5. /\ logs'[s] = inbox[s][1] /\ 1 \in 1 .. Len(inbox[s])
      /\ \A t \in Streams : t # s => logs'[t] = logs[t] /\ inbox'[t] = inbox[t]
  BY <1>2, <1>3, <1>4
<1>6. /\ \A x, t, m, k : Waits(x, t, m, k)' =>
           m \in Nat /\ m >= 1 /\ Waits(x, t, IF t = s THEN m + 1 ELSE m, k)
      /\ \A x, t, k : Holds(x, t, k)' =>
           IF t = s THEN Waits(x, s, 1, k) ELSE Holds(x, t, k)
  <2>1. ASSUME NEW x, NEW t, NEW m, NEW k, Waits(x, t, m, k)'
        PROVE  m \in Nat /\ m >= 1 /\ Waits(x, t, IF t = s THEN m + 1 ELSE m, k)
    <3>1. CASE t = s
      <4>1. m \in 1 .. Len(Tail(inbox[s]))
        BY <2>1, <3>1, <1>2, <1>3 DEF Waits
      <4>2. m + 1 \in 1 .. Len(inbox[s]) /\ inbox'[s][m] = inbox[s][m + 1]
        BY <4>1, <1>2, <1>3, <1>4
      <4> QED
        BY <2>1, <3>1, <4>1, <4>2, <1>4 DEF Waits
    <3>2. CASE t # s
      BY <2>1, <3>2, <1>5 DEF Waits
    <3> QED
      BY <3>1, <3>2
  <2>2. ASSUME NEW x, NEW t, NEW k, Holds(x, t, k)'
        PROVE  IF t = s THEN Waits(x, s, 1, k) ELSE Holds(x, t, k)
    BY <2>2, <1>5 DEF Holds, Waits
  <2> QED
    BY <2>1, <2>2
<1>7. UniqueInv'
  <2>1. ASSUME NEW x, NEW t, NEW k, NEW u, NEW l, Holds(x, t, k)', Holds(x, u, l)'
        PROVE  t = u /\ k = l
    BY <2>1, <1>6, <1>1 DEF UniqueInv
  <2>2. ASSUME NEW x, NEW t, NEW m, NEW k, NEW u, NEW n, NEW l,
               Waits(x, t, m, k)', Waits(x, u, n, l)'
        PROVE  t = u /\ m = n /\ k = l
    BY <2>2, <1>6, <1>1 DEF UniqueInv
  <2>3. ASSUME NEW x, NEW t, NEW k, NEW u, NEW n, NEW l,
               Holds(x, t, k)', Waits(x, u, n, l)'
        PROVE  FALSE
    <3>1. Waits(x, u, IF u = s THEN n + 1 ELSE n, l) /\ n \in Nat /\ n >= 1
      BY <2>3, <1>6
    <3>2. CASE t = s
      BY <3>1, <3>2, <2>3, <1>6, <1>1 DEF UniqueInv
    <3>3. CASE t # s
      BY <3>1, <3>3, <2>3, <1>6, <1>1 DEF UniqueInv
    <3> QED
      BY <3>2, <3>3
  <2> QED
    BY <2>1, <2>2, <2>3 DEF UniqueInv
<1>8. EmptyInv'
  BY <1>1, <1>2, <1>3, <1>5 DEF EmptyInv
<1>9. /\ Done(s) = 0 /\ Done(s)' = 0
      /\ \A t \in Streams : t # s => Done(t)' = Done(t)
  <2>1. Done(s) = 0
    BY <1>2, <1>3 DEF Done
  <2>2. Done(s)' = 0
    <3>1. CASE Head(inbox[s]) = <<>>
      BY <3>1, <1>2, <1>3 DEF Done
    <3>2. CASE Head(inbox[s]) # <<>>
      BY <3>2, <1>2, <1>3 DEF Done
    <3> QED
      BY <3>1, <3>2
  <2> QED
    BY <2>1, <2>2, <1>2, <1>3, <1>5 DEF Done
<1>10. OwnedInv'
  <2> SUFFICES ASSUME NEW n \in 1 .. Len(out)
               PROVE  \E t \in Streams : \E k \in 1 .. Len(logs'[t]) :
                        k <= Done(t)' /\ out[n] = Line(logs'[t][k])
    BY <1>2 DEF OwnedInv, Line
  <2>1. PICK t \in Streams : \E k \in 1 .. Len(logs[t]) :
          k <= Done(t) /\ out[n] = Line(logs[t][k])
    BY <1>1 DEF OwnedInv
  <2>2. t # s
    BY <2>1, <1>3
  <2> QED
    BY <2>1, <2>2, <1>5, <1>9
<1>11. WrittenInOrder'
  <2>1. ASSUME NEW k \in 1 .. Len(logs'[s]) PROVE Places(logs[s][k])' = {}
    <3> SUFFICES ASSUME NEW n \in 1 .. Len(out), out[n] = Line(logs'[s][k]) PROVE FALSE
      BY <1>2 DEF Places, Line
    <3>1. PICK t \in Streams : \E l \in 1 .. Len(logs[t]) : out[n] = Line(logs[t][l])
      BY <1>1 DEF OwnedInv
    <3>2. PICK l \in 1 .. Len(logs[t]) : out[n] = Line(logs[t][l])
      BY <3>1
    <3>3. logs[t][l] = logs'[s][k]
      BY <3>2, LineInjective
    <3>4. Holds(logs'[s][k], t, l) /\ Waits(logs'[s][k], s, 1, k)
      BY <3>2, <3>3, <1>5 DEF Holds, Waits
    <3> QED
      BY <3>4, <1>1 DEF UniqueInv
  <2>2. ASSUME NEW t \in Streams, NEW k \in 1 .. Len(logs'[t])
        PROVE  InOrder(t, k)'
    <3>1. CASE t = s
      <4>1. k \in 1 .. Len(logs'[s]) /\ Len(logs'[s]) \in Nat
        BY <3>1, <1>1, <1>2, <1>3, <1>4, <1>5
      <4>2. ~ (k <= Done(s)') /\ Places(logs[s][k])' = {}
        BY <4>1, <2>1, <1>9
      <4> QED
        BY <4>2, <3>1 DEF InOrder
    <3>2. CASE t # s
      <4>1. logs'[t] = logs[t] /\ Done(t)' = Done(t) /\ InOrder(t, k)
        BY <3>2, <1>1, <1>5, <1>9 DEF WrittenInOrder
      <4> QED
        BY <4>1, <1>2, InOrderFrame
    <3> QED
      BY <3>1, <3>2
  <2> QED
    BY <2>2 DEF WrittenInOrder
<1> QED
  BY <1>7, <1>8, <1>10, <1>11 DEF BInv

(* A handler that starts, fills or gives back a buffer, or fails to        *)
(* receive, is done with the same entries as before.                       *)
LEMMA QuietHandler ==
  ASSUME AInv, BInv, NEW s \in Streams,
         RecvError(s) \/ Get(s) \/ Fill(s) \/ End(s) \/ Put(s)
  PROVE  BInv'
<1>1. TypeOK /\ EmptyInv
  BY DEF AInv, BInv
<1>2. /\ pc \in [Streams -> Steps \cup {"unused", "returned"}]
      /\ i \in [Streams -> Nat \ {0}]
  BY <1>1 DEF TypeOK
<1>3. UNCHANGED <<inbox, logs, out>>
  BY DEF RecvError, Get, Fill, End, WriteTo, Put
<1>4. /\ pc[s] \in {"recv", "get", "fill", "end", "put"}
      /\ pc'[s] \notin {"unused", "recv"}
      /\ \A t \in Streams : t # s => pc'[t] = pc[t] /\ i'[t] = i[t]
  BY <1>2 DEF RecvError, Get, Fill, End, WriteTo, Put, Goto
<1>5. EmptyInv'
  BY <1>1, <1>3, <1>4 DEF EmptyInv
<1>6. Done(s)' = Done(s)
  <2>1. CASE RecvError(s)
    <3>1. logs[s] = <<>> /\ i[s] = 1
      BY <2>1, <1>1 DEF RecvError, EmptyInv, AInv, StartInv
    <3> QED
      BY <2>1, <3>1, <1>2, <1>3 DEF Done, RecvError, Goto
  <2>2. CASE Get(s) \/ Fill(s) \/ End(s)
    BY <2>2, <1>2, <1>3 DEF Done, Get, Fill, End, WriteTo, Goto
  <2>3. CASE Put(s)
    <3>1. Done(s) = i[s] /\ i'[s] = i[s] + 1 /\ i[s] \in Nat
      BY <2>3, <1>2 DEF Done, Put
    <3>2. CASE i[s] = Len(logs[s])
      BY <2>3, <3>1, <3>2, <1>2, <1>3 DEF Done, Put, Goto
    <3>3. CASE i[s] # Len(logs[s])
      BY <2>3, <3>1, <3>3, <1>2, <1>3 DEF Done, Put, Goto
    <3> QED
      BY <3>2, <3>3
  <2> QED
    BY <2>1, <2>2, <2>3
<1>7. \A t \in Streams : Done(t)' = Done(t)
  BY <1>3, <1>4, <1>6 DEF Done
<1> QED
  BY <1>3, <1>5, <1>7, QuietInv

(* The line of the entry that a handler is at goes out behind the others.  *)
LEMMA WriteOrder ==
  ASSUME AInv, BInv, NEW s \in Streams, Write(s)
  PROVE  BInv'
<1>1. TypeOK /\ TextInv /\ UniqueInv /\ EmptyInv /\ OwnedInv /\ WrittenInOrder
  BY DEF AInv, BInv
<1>2. /\ pc[s] = "write" /\ out' = Append(out, Line(logs[s][i[s]]))
      /\ pc' = [pc EXCEPT ![s] = "put"]
      /\ UNCHANGED <<inbox, logs, i>>
  BY <1>1 DEF Write, Goto, TextInv
<1>3. /\ out \in Seq(Text) /\ i[s] \in Nat /\ i[s] \in 1 .. Len(logs[s])
      /\ pc \in [Streams -> Steps \cup {"unused", "returned"}]
      /\ Len(logs[s]) \in Nat
  BY <1>1, <1>2 DEF TypeOK
<1> DEFINE new == Len(out) + 1
<1>4. /\ Len(out) \in Nat /\ Len(out') = new
      /\ \A n \in 1 .. Len(out) : out'[n] = out[n]
      /\ out'[new] = Line(logs[s][i[s]])
  <2>1. Line(logs[s][i[s]]) \in Text
    BY <1>1, <1>3 DEF Line, Text, Entries, TypeOK
  <2> QED
    BY <2>1, <1>2, <1>3
<1>5. /\ Done(s) = i[s] - 1 /\ Done(s)' = i[s]
      /\ \A t \in Streams : t # s => Done(t)' = Done(t)
  BY <1>2, <1>3 DEF Done
<1>6. \A x : Places(x)' = IF x = logs[s][i[s]] THEN Places(x) \cup {new} ELSE Places(x)
  <2> SUFFICES ASSUME NEW x
               PROVE  Places(x)' = IF x = logs[s][i[s]] THEN Places(x) \cup {new} ELSE Places(x)
    OBVIOUS
  <2>1. Line(x) = Line(logs[s][i[s]]) <=> x = logs[s][i[s]]
    BY LineInjective
  <2>2. Places(x)' = {n \in 1 .. new : out'[n] = Line(x)}
    BY <1>4 DEF Places, Line
  <2>3. \A n : n \in 1 .. new <=> n \in 1 .. Len(out) \/ n = new
    BY <1>4
  <2> QED
    BY <2>1, <2>2, <2>3, <1>4 DEF Places
<1>7. UniqueInv' /\ EmptyInv'
  BY <1>1, <1>2, <1>3 DEF UniqueInv, Holds, Waits, EmptyInv
<1>8. OwnedInv'
  <2> SUFFICES ASSUME NEW n \in 1 .. new
               PROVE  \E t \in Streams : \E k \in 1 .. Len(logs[t]) :
                        k <= Done(t)' /\ out'[n] = Line(logs[t][k])
    <3>1. logs' = logs /\ Len(out') = new
      BY <1>2, <1>4
    <3> QED
      BY <3>1 DEF OwnedInv, Line
  <2>1. CASE n = new
    <3>1. out'[n] = Line(logs[s][i[s]]) /\ i[s] <= Done(s)'
      BY <2>1, <1>3, <1>4, <1>5
    <3> QED
      BY <3>1, <1>3
  <2>2. CASE n # new
    <3>1. n \in 1 .. Len(out) /\ out'[n] = out[n]
      BY <2>2, <1>4
    <3>2. PICK t \in Streams : \E k \in 1 .. Len(logs[t]) :
            k <= Done(t) /\ out[n] = Line(logs[t][k])
      BY <3>1, <1>1 DEF OwnedInv
    <3>3. PICK k \in 1 .. Len(logs[t]) : k <= Done(t) /\ out[n] = Line(logs[t][k])
      BY <3>2
    <3>4. k <= Done(t)'
      BY <3>3, <1>3, <1>5
    <3> QED
      BY <3>1, <3>3, <3>4
  <2> QED
    BY <2>1, <2>2
<1>9. \A t \in Streams : \A k \in 1 .. Len(logs[t]) :
        Places(logs[t][k])' = IF t = s /\ k = i[s] THEN Places(logs[t][k]) \cup {new}
                              ELSE Places(logs[t][k])
  <2> SUFFICES ASSUME NEW t \in Streams, NEW k \in 1 .. Len(logs[t])
               PROVE  logs[t][k] = logs[s][i[s]] <=> t = s /\ k = i[s]
    BY <1>2, <1>6
  <2>1. Holds(logs[t][k], t, k) /\ Holds(logs[s][i[s]], s, i[s])
    BY <1>3 DEF Holds
  <2> QED
    BY <2>1, <1>1 DEF UniqueInv
<1>10. WrittenInOrder'
  <2> SUFFICES ASSUME NEW t \in Streams, NEW k \in 1 .. Len(logs[t])
               PROVE  InOrder(t, k)'
    BY <1>2 DEF WrittenInOrder
  <2>1. /\ InOrder(t, k) /\ k \in Nat /\ k >= 1 /\ Len(logs[t]) \in Nat
        /\ \A j \in 1 .. (k - 1) : j \in 1 .. Len(logs[t]) /\ j < k
    BY <1>1 DEF WrittenInOrder, TypeOK
  <2>2. \A e : \A n \in Places(e) : n < new
    BY <1>4 DEF Places
  <2>3. CASE t = s /\ k = i[s]
    <3>1. Places(logs[t][k]) = {}
      BY <2>1, <2>3, <1>5 DEF InOrder
    <3>2. Places(logs[t][k])' = Places(logs[t][k]) \cup {new}
      BY <2>3, <1>9
    <3>3. Places(logs[t][k])' = {new} /\ new \in 1 .. Len(out')
      BY <3>1, <3>2, <1>4
    <3>4. ASSUME NEW j \in 1 .. (k - 1) PROVE Places(logs[t][j])' = Places(logs[t][j])
      <4>1. j \in 1 .. Len(logs[t]) /\ j # k
        BY <2>1
      <4> QED
        BY <4>1, <2>3, <1>9
    <3>5. \A j \in 1 .. (k - 1) : \A m \in Places(logs[t][j])', n \in Places(logs[t][k])' : m < n
      BY <3>3, <3>4, <2>2
    <3>6. ~ (k > Done(t)')
      BY <2>1, <2>3, <1>5
    <3> QED
      BY <3>3, <3>5, <3>6, <1>2 DEF InOrder
  <2>4. CASE ~ (t = s /\ k = i[s])
    <3>1. Places(logs[t][k])' = Places(logs[t][k])
      BY <2>4, <1>9
    <3>2. (k <= Done(t)' <=> k <= Done(t)) /\ (k > Done(t)' <=> k > Done(t))
      BY <2>1, <2>4, <1>3, <1>5
    <3>3. k <= Done(t) => \E n \in 1 .. Len(out') : Places(logs[t][k]) = {n}
      BY <2>1, <1>4 DEF InOrder
    <3>4. \A j \in 1 .. (k - 1) : \A m \in Places(logs[t][j])', n \in Places(logs[t][k])' : m < n
      <4> SUFFICES ASSUME NEW j \in 1 .. (k - 1), NEW m \in Places(logs[t][j])',
                          NEW n \in Places(logs[t][k])'
                   PROVE  m < n
        OBVIOUS
      <4>1. CASE t = s /\ j = i[s]
        <5>1. k > Done(s)
          BY <4>1, <2>1, <1>3, <1>5
        <5> QED
          BY <5>1, <4>1, <3>1, <2>1 DEF InOrder
      <4>2. CASE ~ (t = s /\ j = i[s])
        <5>1. m \in Places(logs[t][j]) /\ n \in Places(logs[t][k])
          BY <4>2, <3>1, <2>1, <1>9
        <5> QED
          BY <5>1, <2>1 DEF InOrder
      <4> QED
        BY <4>1, <4>2
    <3> QED
      BY <3>1, <3>2, <3>3, <3>4, <2>1, <1>2 DEF InOrder
  <2> QED
    BY <2>3, <2>4
<1> QED
  BY <1>7, <1>8, <1>10 DEF BInv

(* The entries of a new message have numbers of their own. *)
LEMMA FlushOrder ==
  ASSUME AInv, BInv, NEW e \in Envoys, NEW n \in 0 .. MaxEntries, Flush(e, n)
  PROVE  BInv'
<1>1. TypeOK /\ EntryInv /\ UniqueInv /\ EmptyInv /\ OwnedInv /\ WrittenInOrder
  BY DEF AInv, BInv
<1> DEFINE msg == [k \in 1 .. n |-> sent + k]
<1>0. sent \in Nat /\ n \in Nat
  BY <1>1, AccessLogAssumption DEF TypeOK
<1>m. msg \in Seq(Entries) /\ Len(msg) = n /\ \A k \in 1 .. n : msg[k] = sent + k
  <2>1. msg \in [1 .. n -> Entries]
    BY <1>0 DEF Entries
  <2> QED
    BY <1>0, <2>1
<1>2. UNCHANGED <<logs, i, out>>
  BY DEF Flush
<1>s. PICK s \in Streams :
        /\ \E queue \in {<<>>, inbox[s]} : inbox' = [inbox EXCEPT ![s] = Append(queue, msg)]
        /\ pc' = pc \/ (pc[s] = "unused" /\ pc' = [pc EXCEPT ![s] = "recv"])
  <2>1. CASE cur[e] # None
    BY <2>1, <1>1 DEF Flush, TypeOK
  <2>2. CASE cur[e] = None
    <3>1. PICK s \in Streams : /\ pc[s] = "unused" /\ pc' = [pc EXCEPT ![s] = "recv"]
                               /\ inbox' = [inbox EXCEPT ![s] = <<msg>>]
      BY <2>2 DEF Flush, Goto
    <3>2. <<msg>> = Append(<<>>, msg)
      BY AppendToNone
    <3> QED
      BY <3>1, <3>2
  <2> QED
    BY <2>1, <2>2
<1> HIDE DEF msg
<1>3. PICK queue \in {<<>>, inbox[s]} : inbox' = [inbox EXCEPT ![s] = Append(queue, msg)]
  BY <1>s
<1>4. /\ inbox \in [Streams -> Seq(Seq(Entries))] /\ sent \in Nat /\ n \in Nat
      /\ pc \in [Streams -> Steps \cup {"unused", "returned"}]
      /\ queue \in Seq(Seq(Entries)) /\ Len(queue) \in Nat
      /\ msg \in Seq(Entries) /\ Len(msg) = n
  <2>1. /\ inbox \in [Streams -> Seq(Seq(Entries))] /\ sent \in Nat /\ n \in Nat
        /\ pc \in [Streams -> Steps \cup {"unused", "returned"}]
    BY <1>1, AccessLogAssumption DEF TypeOK
  <2>2. queue \in Seq(Seq(Entries)) /\ Len(queue) \in Nat
    <3>1. CASE queue = <<>>
      BY <3>1
    <3>2. CASE queue = inbox[s]
      BY <3>2, <2>1
    <3> QED
      BY <3>1, <3>2
  <2> QED
    BY <2>1, <2>2, <1>m
<1>5. /\ inbox'[s] = Append(queue, msg) /\ Len(inbox'[s]) = Len(queue) + 1
      /\ inbox'[s][Len(queue) + 1] = msg
      /\ \A m \in 1 .. Len(queue) : inbox'[s][m] = queue[m]
      /\ \A t \in Streams : t # s => inbox'[t] = inbox[t]
  BY <1>3, <1>4
<1>6. ASSUME NEW x, NEW t, NEW m, NEW k, Waits(x, t, m, k)'
      PROVE  \/ Waits(x, t, m, k) /\ ~ (x > sent)
             \/ t = s /\ m = Len(queue) + 1 /\ k \in Nat /\ x = sent + k /\ x > sent
  <2>1. CASE t # s
    <3>1. Waits(x, t, m, k)
      BY <2>1, <1>5, <1>6 DEF Waits
    <3>2. x \in 1 .. sent
      BY <3>1, <1>1 DEF Waits, EntryInv
    <3> QED
      BY <3>1, <3>2, <1>4
  <2>2. CASE t = s /\ m # Len(queue) + 1
    <3>1. m \in 1 .. Len(queue) /\ inbox'[s][m] = queue[m]
      BY <2>2, <1>4, <1>5, <1>6 DEF Waits
    <3>2. Waits(x, s, m, k)
      BY <2>2, <3>1, <1>3, <1>6 DEF Waits
    <3>3. x \in 1 .. sent
      BY <3>2, <1>1 DEF Waits, EntryInv
    <3> QED
      BY <3>2, <3>3, <2>2, <1>4
  <2>3. CASE t = s /\ m = Len(queue) + 1
    BY <2>3, <1>m, <1>4, <1>5, <1>6 DEF Waits
  <2> QED
    BY <2>1, <2>2, <2>3
<1>7. \A x, t, k : Holds(x, t, k) => ~ (x > sent)
  BY <1>1, <1>4 DEF Holds, EntryInv
<1>8. UniqueInv'
  <2>1. \A x, t, k : Holds(x, t, k)' <=> Holds(x, t, k)
    BY <1>2 DEF Holds
  <2>2. ASSUME NEW x, NEW t, NEW m, NEW k, NEW u, NEW l, NEW o,
               Waits(x, t, m, k)', Waits(x, u, o, l)'
        PROVE  t = u /\ m = o /\ k = l
    <3>1. CASE x > sent
      <4>1. /\ t = s /\ m = Len(queue) + 1 /\ k \in Nat /\ x = sent + k
            /\ u = s /\ o = Len(queue) + 1 /\ l \in Nat /\ x = sent + l
        BY <3>1, <2>2, <1>6
      <4>2. k = l
        BY <4>1, <1>0
      <4> QED
        BY <4>1, <4>2
    <3>2. CASE ~ (x > sent)
      <4>1. Waits(x, t, m, k) /\ Waits(x, u, o, l)
        BY <3>2, <2>2, <1>6
      <4> QED
        BY <4>1, <1>1 DEF UniqueInv
    <3> QED
      BY <3>1, <3>2
  <2> QED
    BY <2>1, <2>2, <1>1, <1>6, <1>7 DEF UniqueInv
<1>9. EmptyInv'
  BY <1>1, <1>2, <1>s, <1>4 DEF EmptyInv
<1>10. \A t \in Streams : Done(t)' = Done(t)
  BY <1>2, <1>s, <1>4 DEF Done
<1>11. OwnedInv'
  BY <1>1, <1>2, <1>10 DEF OwnedInv, Line
<1>12. WrittenInOrder'
  BY <1>1, <1>2, <1>10, InOrderFrame DEF WrittenInOrder
<1> QED
  BY <1>8, <1>9, <1>11, <1>12 DEF BInv

LEMMA BNextInv == AInv /\ BInv /\ [Next]_vars => BInv'
<1> SUFFICES ASSUME AInv, BInv, [Next]_vars PROVE BInv'
  OBVIOUS
<1>1. ASSUME NEW s \in Streams, Handler(s) PROVE BInv'
  BY <1>1, RecvOrder, QuietHandler, WriteOrder DEF Handler
<1>2. ASSUME NEW e \in Envoys, Envoy(e) PROVE BInv'
  <2>1. CASE \E n \in 0 .. MaxEntries : Flush(e, n)
    BY <2>1, FlushOrder
  <2>2. CASE SeeEnd(e) \/ Break(e)
    <3>1. UNCHANGED <<inbox, pc, logs, i, out>>
      BY <2>2 DEF SeeEnd, Break
    <3> QED
      BY <3>1, QuietInv DEF BInv, EmptyInv, Done
  <2> QED
    BY <2>1, <2>2, <1>2 DEF Envoy
<1>3. CASE UNCHANGED vars
  BY <1>3, QuietInv DEF BInv, EmptyInv, Done, vars
<1> QED
  BY <1>1, <1>2, <1>3 DEF Next

(* What a handler received comes out in its order, nothing twice, nothing  *)
(* skipped, and all of it once StreamAccessLogs has returned, for any      *)
(* number of streams that write at once.                                   *)
THEOREM AccessLogWrittenInOrder == Spec => []WrittenInOrder
<1>1. BInv => WrittenInOrder
  BY DEF BInv
<1> QED
  BY <1>1, AInitInv, ANextInv, BInitInv, BNextInv, PTL DEF Spec

=============================================================================
