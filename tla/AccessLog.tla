----------------------------- MODULE AccessLog -----------------------------
(***************************************************************************)
(* The access log service: StreamAccessLogs runs once per gRPC stream,     *)
(* takes one message off it, and writes a line per log entry through       *)
(* buffers of a pool that all streams share.                               *)
(*                                                                         *)
(* An entry is a number, its line the two pieces "head" and "tail" (the    *)
(* fields, then the line feed), so that a buffer shared by two handlers or *)
(* not emptied shows in the output.  The pool (octu0/bp), gRPC and Envoy   *)
(* are external, modelled by what the handler relies on.                   *)
(***************************************************************************)
EXTENDS Naturals, FiniteSets, SequencesExt

CONSTANTS
  Envoys,       \* loggers of Envoy, each with one stream at a time
  Streams,      \* gRPC streams, each used once
  Buffers,      \* buffers that acclogBufPool can allocate
  PoolSize,     \* buffers that the pool keeps
  MaxEntries,   \* bound on the entries of a message
  MaxMessages,  \* bound on the messages sent
  None          \* no stream, no buffer

ASSUME AccessLogAssumption ==
  /\ PoolSize \in Nat
  /\ MaxEntries \in Nat
  /\ MaxMessages \in Nat
  /\ None \notin Streams \cup Buffers
  /\ IsFiniteSet(Buffers) /\ IsFiniteSet(Streams)
  /\ Cardinality(Buffers) >= Cardinality(Streams)

VARIABLES
  cur,       \* cur[e]: stream that logger e sends on
  cut,       \* streams whose connection was lost
  messages,  \* messages sent so far
  sent,      \* entries sent so far; entries are numbered from 1
  inbox,     \* inbox[s]: messages on stream s not yet received
  pc,        \* pc[s]: next step of the handler of stream s
  logs,      \* logs[s]: entries of the message the handler received
  i,         \* i[s]: index in logs[s] of the entry being written
  buf,       \* buf[s]: buffer the handler holds
  pool,      \* buffers in the pool
  text,      \* text[b]: content of buffer b
  out        \* lines written to standard output

clientVars == <<cur, cut, messages, sent>>
vars == <<cur, cut, messages, sent, inbox, pc, logs, i, buf, pool, text, out>>

Steps == {"recv", "get", "fill", "end", "write", "put"}

Init ==
  /\ cur = [e \in Envoys |-> None]
  /\ cut = {}
  /\ messages = 0
  /\ sent = 0
  /\ inbox = [s \in Streams |-> <<>>]
  /\ pc = [s \in Streams |-> "unused"]
  /\ logs = [s \in Streams |-> <<>>]
  /\ i = [s \in Streams |-> 1]
  /\ buf = [s \in Streams |-> None]
  /\ pool = {}
  /\ text = [b \in Buffers |-> <<>>]
  /\ out = <<>>

Goto(s, step) == pc' = [pc EXCEPT ![s] = step]

-----------------------------------------------------------------------------
(* The handler, StreamAccessLogs.                                          *)

(* stream.Recv succeeds: the one message this handler will ever take.      *)
(* Without entries (a TCP log, say) the handler returns at once.           *)
Recv(s) ==
  /\ pc[s] = "recv"
  /\ inbox[s] # <<>>
  /\ logs' = [logs EXCEPT ![s] = Head(inbox[s])]
  /\ inbox' = [inbox EXCEPT ![s] = Tail(inbox[s])]
  /\ Goto(s, IF Head(inbox[s]) = <<>> THEN "returned" ELSE "get")
  /\ UNCHANGED <<clientVars, i, buf, pool, text, out>>

(* stream.Recv fails. *)
RecvError(s) ==
  /\ pc[s] = "recv"
  /\ s \in cut
  /\ Goto(s, "returned")
  /\ UNCHANGED <<clientVars, inbox, logs, i, buf, pool, text, out>>

Held == {buf[s] : s \in Streams} \ {None}

(* Mutant of Get: nothing is allocated when the pool is empty.             *)
GetFromPool(s) ==
  /\ pc[s] = "get"
  /\ \E b \in pool :
       /\ buf' = [buf EXCEPT ![s] = b]
       /\ pool' = pool \ {b}
  /\ Goto(s, "fill")
  /\ UNCHANGED <<clientVars, inbox, logs, i, text, out>>

(* acclogBufPool.Get: a buffer of the pool, or a new one if it is empty.   *)
Get(s) ==
  /\ pc[s] = "get"
  /\ \E b \in IF pool # {} THEN pool ELSE Buffers \ Held :
       /\ buf' = [buf EXCEPT ![s] = b]
       /\ pool' = pool \ {b}
  /\ Goto(s, "fill")
  /\ UNCHANGED <<clientVars, inbox, logs, i, text, out>>

(* AccessLog.WriteTo: the fields, and then the line feed. *)
WriteTo(s, piece, next) ==
  /\ text' = [text EXCEPT ![buf[s]] = Append(@, <<logs[s][i[s]], piece>>)]
  /\ Goto(s, next)
  /\ UNCHANGED <<clientVars, inbox, logs, i, buf, pool, out>>

Fill(s) == pc[s] = "fill" /\ WriteTo(s, "head", "end")

(* Mutant of End: the pool has the buffer back before it is written out.   *)
EndInPool(s) ==
  /\ pc[s] = "end"
  /\ text' = [text EXCEPT ![buf[s]] = Append(@, <<logs[s][i[s]], "tail">>)]
  /\ pool' = pool \cup {buf[s]}
  /\ Goto(s, "write")
  /\ UNCHANGED <<clientVars, inbox, logs, i, buf, out>>

End(s) == pc[s] = "end" /\ WriteTo(s, "tail", "write")

(* One Write call on the standard output per entry; the file's own lock    *)
(* keeps it whole.                                                         *)
Write(s) ==
  /\ pc[s] = "write"
  /\ out' = Append(out, text[buf[s]])
  /\ Goto(s, "put")
  /\ UNCHANGED <<clientVars, inbox, logs, i, buf, pool, text>>

(* Mutants of Put: the loop is left after the first entry, or one too late. *)
PutAndReturn(s) ==
  /\ pc[s] = "put"
  /\ text' = [text EXCEPT ![buf[s]] = <<>>]
  /\ pool' = pool \cup {buf[s]}
  /\ buf' = [buf EXCEPT ![s] = None]
  /\ i' = [i EXCEPT ![s] = @ + 1]
  /\ Goto(s, "returned")
  /\ UNCHANGED <<clientVars, inbox, logs, out>>

PutPastEnd(s) ==
  /\ pc[s] = "put"
  /\ text' = [text EXCEPT ![buf[s]] = <<>>]
  /\ pool' = pool \cup {buf[s]}
  /\ buf' = [buf EXCEPT ![s] = None]
  /\ i' = [i EXCEPT ![s] = @ + 1]
  /\ Goto(s, IF i[s] > Len(logs[s]) THEN "returned" ELSE "get")
  /\ UNCHANGED <<clientVars, inbox, logs, out>>

(* acclogBufPool.Put: the buffer is emptied, and dropped if the pool is    *)
(* full.  The range over logs goes on, or the handler returns nil.         *)
Put(s) ==
  /\ pc[s] = "put"
  /\ text' = [text EXCEPT ![buf[s]] = <<>>]
  /\ pool' = IF Cardinality(pool) < PoolSize THEN pool \cup {buf[s]} ELSE pool
  /\ buf' = [buf EXCEPT ![s] = None]
  /\ i' = [i EXCEPT ![s] = @ + 1]
  /\ Goto(s, IF i[s] = Len(logs[s]) THEN "returned" ELSE "get")
  /\ UNCHANGED <<clientVars, inbox, logs, out>>

Handler(s) ==
  Recv(s) \/ RecvError(s) \/ Get(s) \/ Fill(s) \/ End(s) \/ Write(s) \/ Put(s)

-----------------------------------------------------------------------------
(* Envoy's gRPC access logger (external): it keeps a stream open and       *)
(* flushes its buffered entries on it, and opens another stream only when  *)
(* it has seen the last one end.                                           *)

Flush(e, n) ==
  /\ messages < MaxMessages
  /\ messages' = messages + 1
  /\ sent' = sent + n
  /\ LET msg == [k \in 1 .. n |-> sent + k] IN
     \/ /\ cur[e] # None
        /\ inbox' = [inbox EXCEPT ![cur[e]] = Append(@, msg)]
        /\ UNCHANGED <<cur, pc>>
     \/ /\ cur[e] = None
        /\ \E s \in Streams :
             /\ pc[s] = "unused"
             /\ cur' = [cur EXCEPT ![e] = s]
             /\ inbox' = [inbox EXCEPT ![s] = <<msg>>]
             /\ Goto(s, "recv")
  /\ UNCHANGED <<cut, logs, i, buf, pool, text, out>>

(* The end of the stream reaches Envoy. *)
SeeEnd(e) ==
  /\ cur[e] # None
  /\ pc[cur[e]] = "returned"
  /\ cur' = [cur EXCEPT ![e] = None]
  /\ UNCHANGED <<cut, messages, sent, inbox, pc, logs, i, buf, pool, text, out>>

(* The connection is lost, or the server is stopped. *)
Break(e) ==
  /\ cur[e] # None
  /\ cut' = cut \cup {cur[e]}
  /\ cur' = [cur EXCEPT ![e] = None]
  /\ UNCHANGED <<messages, sent, inbox, pc, logs, i, buf, pool, text, out>>

Envoy(e) == (\E n \in 0 .. MaxEntries : Flush(e, n)) \/ SeeEnd(e) \/ Break(e)

Next == (\E s \in Streams : Handler(s)) \/ (\E e \in Envoys : Envoy(e))

Spec == Init /\ [][Next]_vars

(* Handlers are goroutines: each runs on when it can; Envoy need not send. *)
FairSpec == Spec /\ \A s \in Streams : WF_vars(Handler(s))

-----------------------------------------------------------------------------
Entries == Nat \ {0}
Text == Seq(Entries \X {"head", "tail"})

(* Variables hold values of their types, and a handler that writes has an  *)
(* entry and a buffer to write it to.                                      *)
TypeOK ==
  /\ cur \in [Envoys -> Streams \cup {None}]
  /\ cut \in SUBSET Streams
  /\ messages \in 0 .. MaxMessages
  /\ sent \in Nat
  /\ inbox \in [Streams -> Seq(Seq(Entries))]
  /\ pc \in [Streams -> Steps \cup {"unused", "returned"}]
  /\ logs \in [Streams -> Seq(Entries)]
  /\ i \in [Streams -> Nat \ {0}]
  /\ buf \in [Streams -> Buffers \cup {None}]
  /\ pool \in SUBSET Buffers
  /\ text \in [Buffers -> Text]
  /\ out \in Seq(Text)
  /\ \A s \in Streams :
       /\ pc[s] \in {"get", "fill", "end", "write", "put"} => i[s] <= Len(logs[s])
       /\ pc[s] \in {"fill", "end", "write", "put"} <=> buf[s] # None

Line(entry) == <<<<entry, "head">>, <<entry, "tail">>>>

(* A line of the output is one entry, whole and alone: handlers of other   *)
(* streams that share the pool never write into it (StreamAccessLogs gives *)
(* the buffer back only after it wrote it).                                *)
LinesWhole == \A k \in 1 .. Len(out) : \E entry \in 1 .. sent : out[k] = Line(entry)

(* What a handler received comes out in its order, nothing twice, nothing  *)
(* skipped, and all of it once the handler has returned (the range over    *)
(* the entries in StreamAccessLogs).                                       *)
Places(entry) == {n \in 1 .. Len(out) : out[n] = Line(entry)}

Done(s) ==
  CASE pc[s] = "returned" -> Len(logs[s])
    [] pc[s] = "put" -> i[s]
    [] OTHER -> i[s] - 1

InOrder(s, k) ==
  /\ k <= Done(s) => \E n \in 1 .. Len(out) : Places(logs[s][k]) = {n}
  /\ k > Done(s) => Places(logs[s][k]) = {}
  /\ \A j \in 1 .. (k - 1) : \A m \in Places(logs[s][j]), n \in Places(logs[s][k]) : m < n

WrittenInOrder == \A s \in Streams : \A k \in 1 .. Len(logs[s]) : InOrder(s, k)

(* Every entry of a received message is written in the end, whatever       *)
(* happens to the connection and to the other streams.                     *)
Written(entry) == \E k \in 1 .. Len(out) : out[k] = Line(entry)

ReceivedIsWritten ==
  \A s \in Streams : logs[s] # <<>> ~> \A entry \in ToSet(logs[s]) : Written(entry)

(* "Access log storage using ALS" (README): as long as no connection is    *)
(* lost, every entry that Envoy sent is written in the end.                *)
SentIsWritten == <>[](cut = {} => \A entry \in 1 .. sent : Written(entry))
=============================================================================
