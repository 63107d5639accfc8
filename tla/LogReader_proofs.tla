--------------------------- MODULE LogReader_proofs ---------------------------
(***************************************************************************)
(* Proofs about LogReader, for every number of callers, calls,             *)
(* connections, lines and entries of the channel, and whatever the         *)
(* controller does.                                                        *)
(*                                                                         *)
(* Base is the inductive invariant: ConnInv carries NoLeak and             *)
(* ConnectedIsOpen, ClosedInv carries StaysClosed; CallerInv, for          *)
(* CallerNotNil, is inductive given Base.  LogStream_proofs extends it for InOrder and      *)
(* NoGap.                                                                  *)
(***************************************************************************)
EXTENDS LogReader, SequenceTheorems, TLAPS

-----------------------------------------------------------------------------
(* The inductive invariant                                                 *)

Lines_t == Seq(Line_t)

Net_t == [open : BOOLEAN, peer : {"up", "fin", "rst"}, expired : BOOLEAN, stream : Lines_t,
          req : Seq({"auth", "alarms", "start", "stop"}), sent : 0..MaxLines, bufs : Nat]

\* The places where Connect may go on, and the method that is called holds no lock.
Then_t == {"idle", "spawn", "command"}

Op_t == [m : AllMethods \cup {"none"},
         pc : {"idle", "connect", "auth", "spawn", "command", "reader", "reply", "alarms",
               "close", "stop", "stopReply", "dead"},
         then : Then_t, id : 0..MaxCalls, c : 0..MaxDials, buf : Lines_t, left : Int]

Rd_t == [pc : {"unused", "start", "loop", "read", "send", "reconnect", "reauth", "close",
               "closeChan", "done", "dead"},
         c : 0..MaxDials, buf : Lines_t, hand : Lines_t]

Types ==
  /\ mutex \in Users \cup Readers \cup {NoOne}
  /\ connected \in BOOLEAN /\ panicked \in BOOLEAN /\ userClosed \in BOOLEAN
  /\ dialled \in 0..MaxDials /\ conn \in 0..dialled /\ calls \in 0..MaxCalls
  /\ net \in [Conns -> Net_t]
  /\ op \in [Users -> Op_t] /\ rd \in [Readers -> Rd_t]
  /\ chan \in [Readers -> Lines_t] /\ delivered \in [Readers -> Lines_t]

\* A reader has in its hand the entry it is sending.
Bounded ==
  /\ \A t \in Users : op[t].c <= dialled
  /\ \A r \in Readers : rd[r].c <= dialled /\ Len(rd[r].hand) <= 1 /\ Len(chan[r]) <= ChanCap

\* A call has a number of its own until it returns, and no goroutine has it yet.
IdsInv ==
  /\ panicked => \A t \in Users : op[t].pc = "dead"
  /\ ~panicked => \A r \in Readers : r > calls => rd[r].pc = "unused"
  /\ \A t \in Users : op[t].pc \notin {"idle", "dead"} =>
       op[t].id \in 1..calls /\ rd[op[t].id].pc = "unused"
  /\ \A t, u \in Users : op[t].pc \notin {"idle", "dead"} /\ op[u].pc \notin {"idle", "dead"} =>
       t = u \/ op[t].id # op[u].id

\* The mutex is held where a reply is awaited with it.
LockInv ==
  /\ \A t \in Users : op[t].pc \in {"auth", "stopReply"} => mutex = t
  /\ \A r \in Readers : rd[r].pc = "reauth" => mutex = r

\* lr.conn is closed.
ConnShut == conn # 0 => ~net[conn].open

AuthOf(t) == op[t].pc = "auth" => ~connected /\ conn = dialled /\ conn # 0

ReauthOf(r) == rd[r].pc = "reauth" => ~connected /\ conn # dialled /\ ConnShut

\* lr.conn is open while connected is set and while Connect awaits the authentication.
ConnInv ==
  /\ \A c \in Conns : c > dialled => net[c] = Fresh
  /\ \A t \in Users : AuthOf(t) /\ (op[t].pc = "stopReply" => conn # 0)
  /\ \A r \in Readers : ReauthOf(r)
  /\ ~panicked /\ ~connected => ConnShut \/ \E t \in Users : op[t].pc = "auth"
  /\ ConnectedIsOpen /\ NoLeak

ConnectingAt == {"connect", "auth", "spawn", "command", "reader", "reply", "alarms"}

\* The goroutines of ReadLogs that may still connect.
Ended_t == {"unused", "closeChan", "done"}

ClosedInv ==
  /\ \A t \in Users : op[t].pc \in ConnectingAt => op[t].m \in Connecting
  /\ userClosed /\ ~panicked => \A t \in Users : op[t].pc = "idle" \/ op[t].m \notin Connecting
  /\ userClosed /\ ~panicked /\ (\A r \in Readers : rd[r].pc \in Ended_t) => ~connected

Base == Types /\ Bounded /\ IdsInv /\ LockInv /\ ConnInv /\ ClosedInv

-----------------------------------------------------------------------------
(* The variables stay in their types                                       *)

\* A consumer or a context that LogReader knows nothing of: nothing else changes.
Aside ==
  UNCHANGED <<mutex, connVars, wireVars, calls, op, rd, chan, delivered, panicked, userClosed>>

Step == Next \/ Aside

\* What the proofs below take for granted, of the assumption on the constants.
LEMMA Apart ==
  /\ MaxCalls \in Nat /\ MaxDials \in Nat /\ MaxLines \in Nat /\ ChanCap \in Nat
  /\ Methods \subseteq AllMethods /\ Empty \subseteq 1..MaxLines
  /\ NoOne \notin Users /\ NoOne \notin Readers /\ \A t \in Users : t \notin Readers
  BY LogReaderAssumption DEF LogReaderAssumption, Readers

\* What a read returns: the first line of the buffer, or of what is taken from the stream.
ReadFromBuffer(c, buf, x) ==
  buf # <<>> /\ x.line = Head(buf) /\ x.rest = Tail(buf) /\ x.taken = 0

ReadFromStream(c, buf, x) ==
  /\ buf = <<>> /\ Readable(c) /\ x.taken \in 1..Len(net[c].stream)
  /\ x.line = Head(net[c].stream) /\ x.rest = SubSeq(net[c].stream, 2, x.taken)

LEMMA ReadShape ==
  ASSUME NEW c, NEW buf, NEW x \in Reads(c, buf)
  PROVE  ReadFromBuffer(c, buf, x) \/ ReadFromStream(c, buf, x)
  <1>1. CASE buf # <<>>
    BY <1>1 DEF Reads, ReadFromBuffer
  <1>2. CASE buf = <<>> /\ Readable(c)
    BY <1>2 DEF Reads, ReadFromStream
  <1>3. CASE buf = <<>> /\ ~Readable(c)
    BY <1>3 DEF Reads
  <1> QED BY <1>1, <1>2, <1>3

\* A read returns a line, keeps lines, and takes no more than there is.
LEMMA ReadTypes ==
  ASSUME Types, NEW c \in Conns, NEW buf \in Lines_t, NEW x \in Reads(c, buf)
  PROVE  /\ x.line \in Line_t /\ x.rest \in Lines_t
         /\ x.taken \in 0..Len(net[c].stream)
  <1>0. net[c].stream \in Seq(Line_t) /\ buf \in Seq(Line_t)
    BY DEF Types, Net_t, Lines_t
  <1>1. CASE ReadFromBuffer(c, buf, x)
    <2>1. Head(buf) \in Line_t /\ Tail(buf) \in Seq(Line_t)
      BY <1>0, <1>1, HeadTailProperties DEF ReadFromBuffer
    <2> QED BY <1>0, <1>1, <2>1, LenProperties DEF ReadFromBuffer, Lines_t
  <1>2. CASE ReadFromStream(c, buf, x)
    <2>1. net[c].stream # <<>>
      BY <1>2 DEF ReadFromStream, Readable
    <2>2. Head(net[c].stream) \in Line_t
      BY <1>0, <2>1, HeadTailProperties
    <2>3. Len(net[c].stream) \in Nat
      BY <1>0, LenProperties
    <2>4. SubSeq(net[c].stream, 2, x.taken) \in Seq(Line_t)
      <3>1. \A i \in 2..x.taken : net[c].stream[i] \in Line_t
        BY <1>0, <1>2, <2>3, ElementOfSeq DEF ReadFromStream
      <3> QED BY <1>0, <1>2, <2>3, <3>1, SubSeqProperties DEF ReadFromStream
    <2> QED BY <1>2, <2>2, <2>3, <2>4 DEF ReadFromStream, Lines_t
  <1> QED BY <1>1, <1>2, ReadShape

\* What is left of a sequence of lines, and what is added to it.
LEMMA LeftOver ==
  ASSUME NEW s \in Lines_t, NEW k \in 0..Len(s)
  PROVE  SubSeq(s, k + 1, Len(s)) \in Lines_t
  <1>1. Len(s) \in Nat
    BY LenProperties DEF Lines_t
  <1>2. \A i \in (k + 1)..Len(s) : s[i] \in Line_t
    BY <1>1, ElementOfSeq DEF Lines_t
  <1> QED BY <1>1, <1>2, SubSeqProperties DEF Lines_t

LEMMA Drained ==
  ASSUME NEW n \in [Conns -> Net_t], NEW c \in Conns, NEW k \in 0..Len(n[c].stream)
  PROVE  /\ Drain(n, c, k) \in [Conns -> Net_t]
         /\ Drain(n, c, k)[c] = [n[c] EXCEPT !.stream = SubSeq(n[c].stream, k + 1, Len(n[c].stream))]
         /\ \A d \in Conns : d # c => Drain(n, c, k)[d] = n[d]
  <1>1. n[c].stream \in Lines_t
    BY DEF Net_t
  <1>2. SubSeq(n[c].stream, k + 1, Len(n[c].stream)) \in Lines_t
    BY <1>1, LeftOver
  <1> QED BY <1>2 DEF Drain, Net_t

\* The fields of a connection that is drained.
LEMMA DrainFields ==
  ASSUME NEW n \in [Conns -> Net_t], NEW c \in Conns, NEW k \in 0..Len(n[c].stream)
  PROVE  /\ Drain(n, c, k)[c].stream = SubSeq(n[c].stream, k + 1, Len(n[c].stream))
         /\ Drain(n, c, k)[c].open = n[c].open /\ Drain(n, c, k)[c].peer = n[c].peer
         /\ Drain(n, c, k)[c].sent = n[c].sent /\ Drain(n, c, k)[c].bufs = n[c].bufs
  <1>1. Drain(n, c, k)[c] = [n[c] EXCEPT !.stream = SubSeq(n[c].stream, k + 1, Len(n[c].stream))]
    BY Drained
  <1>2. n[c] \in Net_t
    OBVIOUS
  <1> QED BY <1>1, <1>2 DEF Net_t

LEMMA Buffers ==
  ASSUME NEW n \in [Conns -> Net_t], NEW c \in 0..MaxDials
  PROVE  /\ Buffered(n, c) \in [Conns -> Net_t]
         /\ c # 0 => Buffered(n, c)[c] = [n[c] EXCEPT !.bufs = n[c].bufs + 1]
         /\ \A d \in Conns : d # c => Buffered(n, c)[d] = n[d]
  BY SMTT(60), Apart DEF Buffered, Net_t, Conns

LEMMA Beside ==
  ASSUME NEW n \in [Conns -> Net_t], NEW c \in Conns
  PROVE  /\ ReadBeside(n, c) \in [Conns -> Net_t]
         /\ ReadBeside(n, c)[c] = [n[c] EXCEPT !.bufs = IF n[c].bufs = 0 THEN 0 ELSE n[c].bufs + 1]
         /\ \A d \in Conns : d # c => ReadBeside(n, c)[d] = n[d]
  <1> DEFINE k == IF n[c].bufs = 0 THEN 0 ELSE n[c].bufs + 1
  <1>1. n[c] \in Net_t /\ n[c].bufs \in Nat /\ k \in Nat
    BY DEF Net_t
  <1>2. ReadBeside(n, c) = [n EXCEPT ![c] = [n[c] EXCEPT !.bufs = k]]
    BY DEF ReadBeside
  <1> HIDE DEF k
  <1>3. [n[c] EXCEPT !.bufs = k] \in Net_t
    BY <1>1 DEF Net_t
  <1>4. /\ ReadBeside(n, c) \in [Conns -> Net_t] /\ ReadBeside(n, c)[c] = [n[c] EXCEPT !.bufs = k]
        /\ \A d \in Conns : d # c => ReadBeside(n, c)[d] = n[d]
    BY <1>2, <1>3
  <1> QED BY <1>4 DEF k

LEMMA Shuts ==
  ASSUME NEW n \in [Conns -> Net_t], NEW c \in Conns
  PROVE  /\ Shut(n, c) \in [Conns -> Net_t]
         /\ Shut(n, c)[c] = [n[c] EXCEPT !.open = FALSE, !.expired = FALSE, !.peer = "up",
                                         !.stream = <<>>, !.req = <<>>]
         /\ \A d \in Conns : d # c => Shut(n, c)[d] = n[d]
  <1>1. <<>> \in Lines_t /\ <<>> \in Seq({"auth", "alarms", "start", "stop"})
    BY EmptySeq DEF Lines_t
  <1> QED BY <1>1 DEF Shut, Net_t

LEMMA Appends ==
  ASSUME NEW n \in [Conns -> Net_t], NEW c \in Conns, NEW cmd \in {"auth", "alarms", "start", "stop"}
  PROVE  /\ [n EXCEPT ![c].req = Append(@, cmd)] \in [Conns -> Net_t]
         /\ \A b \in BOOLEAN :
              [n EXCEPT ![c].req = IF b THEN Append(@, cmd) ELSE @] \in [Conns -> Net_t]
         /\ [n EXCEPT ![c].req = IF n[c].peer = "up" THEN Append(@, cmd) ELSE @] \in [Conns -> Net_t]
  <1>1. n[c] \in Net_t /\ n[c].req \in Seq({"auth", "alarms", "start", "stop"})
    BY DEF Net_t
  <1>2. Append(n[c].req, cmd) \in Seq({"auth", "alarms", "start", "stop"})
    BY <1>1, AppendProperties
  <1>3. ASSUME NEW q \in Seq({"auth", "alarms", "start", "stop"})
        PROVE  [n EXCEPT ![c].req = q] \in [Conns -> Net_t]
    BY <1>1, <1>3 DEF Net_t
  <1>4. [n EXCEPT ![c].req = Append(@, cmd)] = [n EXCEPT ![c].req = Append(n[c].req, cmd)]
    OBVIOUS
  <1>5. \A b : [n EXCEPT ![c].req = IF b THEN Append(@, cmd) ELSE @]
              = [n EXCEPT ![c].req = IF b THEN Append(n[c].req, cmd) ELSE n[c].req]
    OBVIOUS
  <1> QED BY <1>1, <1>2, <1>3, <1>4, <1>5

LEMMA FreshTypes == Fresh \in Net_t /\ Dial \in Net_t
  <1>1. <<>> \in Lines_t /\ <<>> \in Seq({"auth", "alarms", "start", "stop"})
        /\ <<"auth">> \in Seq({"auth", "alarms", "start", "stop"})
    BY EmptySeq DEF Lines_t
  <1>2. Fresh \in Net_t
    BY <1>1, Apart DEF Fresh, Net_t
  <1> QED BY <1>1, <1>2 DEF Dial, Net_t

LEMMA NoOpTypes == NoOp \in Op_t /\ NoReader \in Rd_t
  <1>1. <<>> \in Lines_t
    BY EmptySeq DEF Lines_t
  <1> QED BY <1>1, Apart DEF NoOp, NoReader, Op_t, Rd_t, Then_t

\* What a step leaves of the types, by the variables it may change.
OpsKept ==
  /\ op' \in [Users -> Op_t]
  /\ \A u \in Users : op'[u].c \in {0, conn, op[u].c}

RdsKept ==
  /\ rd' \in [Readers -> Rd_t]
  /\ \A r \in Readers : rd'[r].c \in {0, conn, rd[r].c} /\ Len(rd'[r].hand) <= 1

ChanKept ==
  /\ chan' \in [Readers -> Lines_t] /\ delivered' \in [Readers -> Lines_t]
  /\ \A r \in Readers : Len(chan'[r]) <= ChanCap

ScalarsKept ==
  /\ mutex' \in Users \cup Readers \cup {NoOne}
  /\ connected' \in BOOLEAN /\ panicked' \in BOOLEAN /\ userClosed' \in BOOLEAN
  /\ dialled' \in dialled..MaxDials /\ conn' \in 0..dialled' /\ calls' \in 0..MaxCalls

LEMMA Kept ==
  ASSUME Types, Bounded, OpsKept, RdsKept, ChanKept, ScalarsKept, net' \in [Conns -> Net_t]
  PROVE  Types' /\ Bounded'
  <1>1. Types'
    BY Apart DEF Types, OpsKept, RdsKept, ChanKept, ScalarsKept
  <1>2. dialled \in Nat /\ dialled' \in Nat /\ dialled <= dialled' /\ conn \in 0..dialled
    BY Apart DEF Types, ScalarsKept
  <1>3. ASSUME NEW t \in Users PROVE op'[t].c <= dialled'
    <2>1. op[t].c \in Nat /\ op[t].c <= dialled /\ op'[t].c \in {0, conn, op[t].c}
      BY Apart DEF Types, Bounded, OpsKept, Op_t
    <2> QED BY <1>2, <2>1
  <1>4. ASSUME NEW r \in Readers PROVE rd'[r].c <= dialled'
    <2>1. rd[r].c \in Nat /\ rd[r].c <= dialled /\ rd'[r].c \in {0, conn, rd[r].c}
      BY Apart DEF Types, Bounded, RdsKept, Rd_t
    <2> QED BY <1>2, <2>1
  <1> QED BY <1>1, <1>3, <1>4 DEF Bounded, RdsKept, ChanKept

LEMMA Unchanged ==
  ASSUME Types, Bounded
  PROVE  /\ op' = op => OpsKept
         /\ rd' = rd => RdsKept
         /\ UNCHANGED <<chan, delivered>> => ChanKept
         /\ UNCHANGED <<mutex, conn, connected, dialled, calls, panicked, userClosed>> => ScalarsKept
         /\ net' = net => net' \in [Conns -> Net_t]
  <1>1. op' = op => OpsKept
    BY DEF Types, OpsKept
  <1>2. rd' = rd => RdsKept
    BY DEF Types, Bounded, RdsKept
  <1>3. UNCHANGED <<chan, delivered>> => ChanKept
    BY DEF Types, Bounded, ChanKept
  <1>4. UNCHANGED <<mutex, conn, connected, dialled, calls, panicked, userClosed>> => ScalarsKept
    BY Apart DEF Types, ScalarsKept
  <1>5. net' = net => net' \in [Conns -> Net_t]
    BY DEF Types
  <1> QED BY <1>1, <1>2, <1>3, <1>4, <1>5

\* One entry of op or of rd changes.
LEMMA OneOp ==
  ASSUME Types, Bounded, NEW t \in Users, NEW v \in Op_t, v.c \in {0, conn, op[t].c},
         op' = [op EXCEPT ![t] = v]
  PROVE  OpsKept
  BY DEF Types, OpsKept

LEMMA OneRd ==
  ASSUME Types, Bounded, NEW r \in Readers, NEW v \in Rd_t, v.c \in {0, conn, rd[r].c},
         Len(v.hand) <= 1, rd' = [rd EXCEPT ![r] = v]
  PROVE  RdsKept
  BY DEF Types, Bounded, RdsKept

LEMMA PanicTypes ==
  ASSUME Types, Bounded, Panic
  PROVE  OpsKept /\ RdsKept /\ net' = net /\ panicked' = TRUE
  <1>1. \A u \in Users : op[u] \in Op_t /\ [op[u] EXCEPT !.pc = "dead"] \in Op_t
                        /\ [op[u] EXCEPT !.pc = "dead"].c = op[u].c
    BY DEF Types, Op_t
  <1>2. \A r \in Readers : rd[r] \in Rd_t /\ [rd[r] EXCEPT !.pc = "dead"] \in Rd_t
                        /\ [rd[r] EXCEPT !.pc = "dead"].c = rd[r].c
                        /\ [rd[r] EXCEPT !.pc = "dead"].hand = rd[r].hand
    BY DEF Types, Rd_t
  <1>3. OpsKept
    BY <1>1 DEF Panic, OpsKept
  <1>4. RdsKept
    BY <1>2 DEF Panic, RdsKept, Bounded
  <1> QED BY <1>3, <1>4 DEF Panic

LEMMA ReturnTypes ==
  ASSUME Types, Bounded, NEW t \in Users, Return(t)
  PROVE  OpsKept
  <1>1. op[t] \in Op_t
    BY DEF Types
  <1>2. [NoOp EXCEPT !.m = op[t].m, !.id = op[t].id] \in Op_t
        /\ [NoOp EXCEPT !.m = op[t].m, !.id = op[t].id].c = 0
    BY <1>1, NoOpTypes DEF Op_t, NoOp
  <1> QED BY <1>2, OneOp DEF Return

LEMMA GotoTypes ==
  ASSUME Types, Bounded, NEW t \in Users,
         NEW p \in {"idle", "spawn", "command", "auth", "reader", "stopReply"}, Goto(t, p)
  PROVE  OpsKept
  <1>1. op[t] \in Op_t
    BY DEF Types
  <1>2. [op[t] EXCEPT !.pc = p] \in Op_t /\ [op[t] EXCEPT !.pc = p].c = op[t].c
    BY <1>1 DEF Op_t
  <1>3. op' = [op EXCEPT ![t] = [op[t] EXCEPT !.pc = p]]
    BY DEF Goto
  <1> QED BY <1>2, <1>3, OneOp

LEMMA AtTypes ==
  ASSUME Types, Bounded, NEW r \in Readers,
         NEW p \in {"start", "loop", "read", "close", "reconnect", "reauth", "closeChan"}, At(r, p)
  PROVE  RdsKept
  <1>1. rd[r] \in Rd_t /\ Len(rd[r].hand) <= 1
    BY DEF Types, Bounded
  <1>2. [rd[r] EXCEPT !.pc = p] \in Rd_t /\ [rd[r] EXCEPT !.pc = p].c = rd[r].c
        /\ [rd[r] EXCEPT !.pc = p].hand = rd[r].hand
    BY <1>1 DEF Rd_t
  <1>3. rd' = [rd EXCEPT ![r] = [rd[r] EXCEPT !.pc = p]]
    BY DEF At
  <1> QED BY <1>1, <1>2, <1>3, OneRd

-----------------------------------------------------------------------------

InvokeAs(t, m, p) ==
  /\ m \in Methods
  /\ op' = [op EXCEPT ![t] = [NoOp EXCEPT !.m = m, !.id = calls + 1, !.pc = p, !.then = AfterConnect(m)]]
  /\ userClosed' = (userClosed /\ m \notin Connecting)
  /\ \/ m = "Close" /\ p = "close"
     \/ m = "StopRemoteLogMonitor" /\ p = "stop"
     \/ m \in Connecting /\ p = "connect"

LEMMA InvokeShape ==
  ASSUME NEW t \in Users, Invoke(t)
  PROVE  \E m, p : InvokeAs(t, m, p)
  <1>1. PICK m \in Methods :
           /\ op' = [op EXCEPT ![t] = [NoOp EXCEPT !.m = m, !.id = calls + 1,
                       !.pc = CASE m = "Close" -> "close"
                                [] m = "StopRemoteLogMonitor" -> "stop"
                                [] OTHER -> "connect",
                       !.then = AfterConnect(m)]]
           /\ userClosed' = (userClosed /\ m \notin Connecting)
    BY Zenon DEF Invoke
  <1> DEFINE p == CASE m = "Close" -> "close"
                    [] m = "StopRemoteLogMonitor" -> "stop"
                    [] OTHER -> "connect"
  <1>2. \/ m = "Close" /\ p = "close"
        \/ m = "StopRemoteLogMonitor" /\ p = "stop"
        \/ m # "Close" /\ m # "StopRemoteLogMonitor" /\ p = "connect"
    BY Zenon
  <1>3. m \in AllMethods
    BY Apart
  <1>4. m # "Close" /\ m # "StopRemoteLogMonitor" => m \in Connecting
    BY <1>3 DEF AllMethods, Connecting
  <1>5. op' = [op EXCEPT ![t] = [NoOp EXCEPT !.m = m, !.id = calls + 1, !.pc = p, !.then = AfterConnect(m)]]
    BY <1>1
  <1> HIDE DEF p
  <1> QED BY <1>1, <1>2, <1>4, <1>5 DEF InvokeAs

LEMMA AfterTypes == \A m : AfterConnect(m) \in Then_t
  BY Zenon DEF AfterConnect, Then_t

\* What a command does with the line it read.
CommandGoes(t, x) ==
  \/ /\ op[t].m = "StartRemoteLogMonitor"
     /\ op' = [op EXCEPT ![t] = [op[t] EXCEPT !.pc = "connect", !.then = "spawn", !.c = 0]]
  \/ /\ op[t].m = "GetLatestAlarms"
     /\ \/ op' = [op EXCEPT ![t] = [op[t] EXCEPT !.pc = "alarms", !.left = x.line.n, !.buf = x.rest]]
        \/ op' = [op EXCEPT ![t] = [op[t] EXCEPT !.pc = "alarms", !.left = op[t].left - 1, !.buf = x.rest]]
  \/ Return(t)

LEMMA CommandShape ==
  ASSUME Types, NEW t \in Users, NEW x, CommandLine(t, x)
  PROVE  CommandGoes(t, x)
  <1> DEFINE left == IF op[t].pc = "reply" THEN x.line.n ELSE op[t].left - 1
  <1>1. left = x.line.n \/ left = op[t].left - 1
    BY Zenon
  <1>2. op \in [Users -> Op_t]
    BY DEF Types
  <1>3. [op EXCEPT ![t] = [@ EXCEPT !.pc = "alarms", !.left = left, !.buf = x.rest]]
          = [op EXCEPT ![t] = [op[t] EXCEPT !.pc = "alarms", !.left = left, !.buf = x.rest]]
    OBVIOUS
  <1>4. [op EXCEPT ![t] = [@ EXCEPT !.pc = "connect", !.then = "spawn", !.c = 0]]
          = [op EXCEPT ![t] = [op[t] EXCEPT !.pc = "connect", !.then = "spawn", !.c = 0]]
    OBVIOUS
  <1>5. \/ op[t].m = "StartRemoteLogMonitor" /\ op' = [op EXCEPT ![t] = [@ EXCEPT !.pc = "connect", !.then = "spawn", !.c = 0]]
        \/ /\ op[t].m = "GetLatestAlarms"
           /\ op' = [op EXCEPT ![t] = [@ EXCEPT !.pc = "alarms", !.left = left, !.buf = x.rest]]
        \/ Return(t)
    BY Zenon DEF CommandLine
  <1> HIDE DEF left
  <1> QED BY <1>1, <1>3, <1>4, <1>5 DEF CommandGoes

LEMMA CommandTypes ==
  ASSUME Types, Bounded, NEW t \in Users, NEW x, CommandLine(t, x),
         x.line \in Line_t, x.rest \in Lines_t
  PROVE  OpsKept
  <1>1. op[t] \in Op_t /\ op[t].left \in Int /\ x.line.n \in Int
    BY Apart DEF Types, Op_t, Line_t
  <1>2. CASE Return(t)
    BY <1>2, ReturnTypes
  <1>3. ASSUME NEW k \in Int, op' = [op EXCEPT ![t] = [op[t] EXCEPT !.pc = "alarms", !.left = k, !.buf = x.rest]]
        PROVE  OpsKept
    <2>1. [op[t] EXCEPT !.pc = "alarms", !.left = k, !.buf = x.rest] \in Op_t
          /\ [op[t] EXCEPT !.pc = "alarms", !.left = k, !.buf = x.rest].c = op[t].c
      BY <1>1 DEF Op_t
    <2> QED BY <1>3, <2>1, OneOp
  <1>4. CASE op' = [op EXCEPT ![t] = [op[t] EXCEPT !.pc = "connect", !.then = "spawn", !.c = 0]]
    <2>1. [op[t] EXCEPT !.pc = "connect", !.then = "spawn", !.c = 0] \in Op_t
          /\ [op[t] EXCEPT !.pc = "connect", !.then = "spawn", !.c = 0].c = 0
      <3>1. "spawn" \in Then_t /\ 0 \in 0..MaxDials
        BY Apart DEF Then_t
      <3> QED BY <1>1, <3>1 DEF Op_t
    <2> QED BY <1>4, <2>1, OneOp
  <1>5. x.line.n \in Int /\ op[t].left - 1 \in Int
    BY <1>1
  <1> QED BY <1>2, <1>3, <1>4, <1>5, CommandShape DEF CommandGoes

\* Close under the mutex
LEMMA CloseShape ==
  ASSUME CloseLocked
  PROVE  \/ connected /\ net' = Shut(net, conn) /\ connected' = FALSE
         \/ ~connected /\ net' = net /\ connected' = connected
  BY DEF CloseLocked

LEMMA CloseTypes ==
  ASSUME Types, CloseLocked, connected => conn \in Conns
  PROVE  net' \in [Conns -> Net_t] /\ connected' \in BOOLEAN
  <1>1. net \in [Conns -> Net_t] /\ connected \in BOOLEAN
    BY DEF Types
  <1>2. CASE connected /\ net' = Shut(net, conn) /\ connected' = FALSE
    BY <1>1, <1>2, Shuts
  <1>3. CASE net' = net /\ connected' = connected
    BY <1>1, <1>3
  <1> QED BY <1>2, <1>3, CloseShape

LEMMA TypesUser ==
  ASSUME Types, Bounded, IdsInv, ConnInv, NEW t \in Users,
         Invoke(t) \/ UserStep(t) \/ UserLock(t)
  PROVE  Types' /\ Bounded'
  <1>ids. op[t].pc \in {"idle", "dead"} \/ op[t].id \in Readers
    BY Apart DEF IdsInv, Types, Readers
  <1>net. net \in [Conns -> Net_t] /\ conn \in 0..MaxDials /\ dialled \in 0..MaxDials
    BY Apart DEF Types
  <1>op. op \in [Users -> Op_t] /\ op[t] \in Op_t /\ op[t].c \in 0..MaxDials
    BY DEF Types, Op_t
  <1>conns. /\ conn # 0 => conn \in Conns
            /\ op[t].c # 0 => op[t].c \in Conns
            /\ connected => conn \in Conns
            /\ op[t].pc \in {"auth", "stopReply"} => conn \in Conns
    BY <1>net, <1>op, Apart DEF Conns, ConnInv, ConnectedIsOpen, AuthOf
  <1>fin. ASSUME OpsKept, RdsKept, ChanKept, ScalarsKept, net' \in [Conns -> Net_t]
          PROVE  Types' /\ Bounded'
    BY <1>fin, Kept
  <1>1. CASE Invoke(t)
    <2>1. PICK m, p : InvokeAs(t, m, p)
      BY <1>1, InvokeShape
    <2>a. calls' = calls + 1 /\ calls < MaxCalls
      BY <1>1, Zenon DEF Invoke
    <2>2. calls' = calls + 1 /\ calls' \in 0..MaxCalls
      BY <2>a, Apart DEF Types
    <2>3. [NoOp EXCEPT !.m = m, !.id = calls + 1, !.pc = p, !.then = AfterConnect(m)] \in Op_t
          /\ [NoOp EXCEPT !.m = m, !.id = calls + 1, !.pc = p, !.then = AfterConnect(m)].c = 0
      BY <2>1, <2>2, AfterTypes, NoOpTypes, Apart DEF InvokeAs, Op_t, NoOp
    <2>4. OpsKept
      BY <2>1, <2>3, OneOp DEF InvokeAs
    <2>5. UNCHANGED <<mutex, conn, connected, dialled, net, rd, chan, delivered, panicked>>
      BY <1>1 DEF Invoke, connVars, wireVars, chanVars
    <2>6. ScalarsKept
      BY <2>1, <2>2, <2>5, Apart DEF ScalarsKept, Types, InvokeAs
    <2> QED BY <2>4, <2>5, <2>6, <1>fin, Unchanged
  <1>2. CASE ConnectAuth(t)
    <2>1. conn \in Conns
      BY <1>2, <1>conns DEF ConnectAuth
    <2>2. UNCHANGED <<conn, dialled, calls, rd, chan, delivered, panicked, userClosed>> /\ mutex' = NoOne
      BY <1>2 DEF ConnectAuth, chanVars
    <2>3. CASE \E k \in 1..Len(net[conn].stream) :
                 net' = ReadBeside(Drain(net, conn, k), conn) /\ connected' = TRUE /\ Goto(t, op[t].then)
      <3>1. PICK k \in 0..Len(net[conn].stream) : net' = ReadBeside(Drain(net, conn, k), conn)
        BY <2>3, <2>1, <1>net, LenProperties DEF Net_t, Lines_t
      <3>2. net' \in [Conns -> Net_t]
        BY <1>net, <2>1, <3>1, Drained, Beside
      <3>3. op[t].then \in {"idle", "spawn", "command"}
        BY <1>op DEF Op_t, Then_t
      <3>4. OpsKept
        BY <2>3, <3>3, GotoTypes
      <3>5. ScalarsKept
        BY <2>2, <2>3, Apart DEF ScalarsKept, Types
      <3> QED BY <2>2, <3>2, <3>4, <3>5, <1>fin, Unchanged
    <2>4. CASE net' = Shut(net, conn) /\ Return(t) /\ connected' = connected
      <3>1. net' \in [Conns -> Net_t]
        BY <1>net, <2>1, <2>4, Shuts
      <3>2. ScalarsKept
        BY <2>2, <2>4, Apart DEF ScalarsKept, Types
      <3> QED BY <2>2, <2>4, <3>1, <3>2, <1>fin, Unchanged, ReturnTypes
    <2> QED BY <1>2, <2>3, <2>4 DEF ConnectAuth
  <1>3. CASE Spawn(t)
    <2>1. op[t].id \in Readers
      BY <1>3, <1>ids DEF Spawn
    <2>2. At(op[t].id, "start") /\ Return(t)
          /\ UNCHANGED <<mutex, conn, connected, dialled, net, calls, chan, delivered, panicked, userClosed>>
      BY <1>3 DEF Spawn, At, connVars, wireVars, chanVars
    <2>3. OpsKept /\ RdsKept
      BY <2>1, <2>2, AtTypes, ReturnTypes
    <2> QED BY <2>2, <2>3, <1>fin, Unchanged
  <1>4. CASE Command(t)
    <2>1. UNCHANGED <<mutex, conn, connected, dialled, calls, chan, delivered, userClosed>>
      BY <1>4 DEF Command, connVars, chanVars
    <2>2. CASE Panic
      <3>a. panicked' = TRUE
        BY <2>2 DEF Panic
      <3>1. ScalarsKept
        BY <2>1, <3>a, Apart DEF ScalarsKept, Types
      <3> QED BY <2>1, <2>2, <3>1, PanicTypes, <1>fin, Unchanged
    <2>3. CASE conn # 0 /\ (\E cmd \in {"alarms", "start"} : Write(conn, cmd)) /\ Goto(t, "reader")
               /\ UNCHANGED <<rd, panicked>>
      <3>1. conn \in Conns
        BY <2>3, <1>conns
      <3>2. PICK cmd \in {"alarms", "start"} : Write(conn, cmd)
        BY <2>3
      <3>3. net' \in [Conns -> Net_t]
        BY <1>net, <3>1, <3>2, Appends DEF Write
      <3> QED BY <2>1, <2>3, <3>3, GotoTypes, <1>fin, Unchanged
    <2>4. CASE Return(t) /\ UNCHANGED <<rd, net, panicked>>
      BY <2>1, <2>4, ReturnTypes, <1>fin, Unchanged
    <2> QED BY <1>4, <2>2, <2>3, <2>4 DEF Command
  <1>5. CASE CommandReader(t)
    <2>1. UNCHANGED <<mutex, conn, connected, dialled, calls, rd, chan, delivered, panicked, userClosed>>
          /\ net' = Buffered(net, conn)
      BY <1>5 DEF CommandReader, connVars, chanVars
    <2>2. [op[t] EXCEPT !.pc = "reply", !.c = conn] \in Op_t
          /\ [op[t] EXCEPT !.pc = "reply", !.c = conn].c = conn
      BY <1>op, <1>net DEF Op_t
    <2>3. op' = [op EXCEPT ![t] = [op[t] EXCEPT !.pc = "reply", !.c = conn]]
      BY <1>5, <1>op DEF CommandReader
    <2>4. OpsKept
      BY <2>2, <2>3, OneOp
    <2>5. net' \in [Conns -> Net_t]
      BY <2>1, <1>net, Buffers
    <2> QED BY <2>1, <2>4, <2>5, <1>fin, Unchanged
  <1>6. CASE CommandRead(t)
    <2>1. UNCHANGED <<mutex, conn, connected, dialled, calls, chan, delivered, userClosed>>
      BY <1>6 DEF CommandRead, ReadLine, connVars, chanVars
    <2>2. CASE Panic
      <3>a. panicked' = TRUE
        BY <2>2 DEF Panic
      <3>1. ScalarsKept
        BY <2>1, <3>a, Apart DEF ScalarsKept, Types
      <3> QED BY <2>1, <2>2, <3>1, PanicTypes, <1>fin, Unchanged
    <2>3. CASE /\ op[t].c # 0 /\ UNCHANGED <<rd, panicked>>
               /\ \E x \in Reads(op[t].c, op[t].buf) : CommandLine(t, x) /\ net' = Drain(net, op[t].c, x.taken)
      <3>1. op[t].c \in Conns /\ op[t].buf \in Lines_t
        BY <2>3, <1>conns, <1>op DEF Op_t
      <3>2. PICK x \in Reads(op[t].c, op[t].buf) : CommandLine(t, x) /\ net' = Drain(net, op[t].c, x.taken)
        BY <2>3
      <3>3. x.line \in Line_t /\ x.rest \in Lines_t /\ x.taken \in 0..Len(net[op[t].c].stream)
        BY <3>1, ReadTypes
      <3>4. net' \in [Conns -> Net_t]
        BY <1>net, <3>1, <3>2, <3>3, Drained
      <3>5. OpsKept
        BY <3>2, <3>3, CommandTypes
      <3> QED BY <2>1, <2>3, <3>4, <3>5, <1>fin, Unchanged
    <2>4. CASE Return(t) /\ UNCHANGED <<rd, net, panicked>>
      BY <2>1, <2>4, ReturnTypes, <1>fin, Unchanged
    <2> QED BY <1>6, <2>2, <2>3, <2>4 DEF CommandRead, ReadLine
  <1>7. CASE StopReply(t)
    <2>1. conn \in Conns /\ <<>> \in Lines_t
      BY <1>7, <1>conns, EmptySeq DEF StopReply, Lines_t
    <2>2. UNCHANGED <<conn, connected, dialled, calls, rd, chan, delivered, panicked, userClosed>>
          /\ mutex' = NoOne /\ Return(t)
      BY <1>7 DEF StopReply, connVars, chanVars
    <2>3. net' \in [Conns -> Net_t]
      <3>1. ASSUME NEW x \in Reads(conn, <<>>), net' = Drain(net, conn, x.taken)
            PROVE  net' \in [Conns -> Net_t]
        BY <1>net, <2>1, <3>1, ReadTypes, Drained
      <3> QED BY <1>7, <3>1, <1>net DEF StopReply
    <2>4. ScalarsKept
      BY <2>2, Apart DEF ScalarsKept, Types
    <2> QED BY <2>2, <2>3, <2>4, ReturnTypes, <1>fin, Unchanged
  <1>8. CASE ConnectAlready(t)
    <2>1. UNCHANGED <<mutex, conn, connected, dialled, net, calls, rd, chan, delivered, panicked, userClosed>>
          /\ Goto(t, op[t].then)
      BY <1>8 DEF ConnectAlready, connVars, wireVars, chanVars
    <2>2. op[t].then \in {"idle", "spawn", "command"}
      BY <1>op DEF Op_t, Then_t
    <2> QED BY <2>1, <2>2, GotoTypes, <1>fin, Unchanged
  <1>9. CASE ConnectDial(t)
    <2>1. UNCHANGED <<connected, calls, rd, chan, delivered, panicked, userClosed>>
      BY <1>9 DEF ConnectDial, chanVars
    <2>2. CASE /\ dialled < MaxDials /\ dialled' = dialled + 1 /\ conn' = dialled + 1
               /\ net' = [net EXCEPT ![dialled + 1] = Dial] /\ mutex' = t /\ Goto(t, "auth")
      <3>1. net' \in [Conns -> Net_t]
        BY <1>net, <2>2, FreshTypes
      <3>2. dialled' \in dialled..MaxDials /\ conn' \in 0..dialled'
        BY <1>net, <2>2, Apart
      <3>3. ScalarsKept
        BY <2>1, <2>2, <3>2 DEF ScalarsKept, Types
      <3> QED BY <2>1, <2>2, <3>1, <3>3, GotoTypes, <1>fin, Unchanged
    <2>3. CASE conn' = 0 /\ Return(t) /\ UNCHANGED <<mutex, dialled, net>>
      <3>1. dialled' \in dialled..MaxDials /\ conn' \in 0..dialled'
        BY <1>net, <2>3, Apart
      <3>2. ScalarsKept
        BY <2>1, <2>3, <3>1 DEF ScalarsKept, Types
      <3> QED BY <2>1, <2>3, <3>2, ReturnTypes, <1>fin, Unchanged
    <2> QED BY <1>9, <2>2, <2>3 DEF ConnectDial, wireVars
  <1>10. CASE Close(t)
    <2>1. UNCHANGED <<mutex, conn, dialled, calls, rd, chan, delivered, panicked>> /\ Return(t) /\ CloseLocked
      BY <1>10 DEF Close, chanVars
    <2>2. net' \in [Conns -> Net_t] /\ connected' \in BOOLEAN
      BY <2>1, <1>conns, CloseTypes
    <2>3. userClosed' \in BOOLEAN
      BY <1>10 DEF Close
    <2>4. ScalarsKept
      BY <2>1, <2>2, <2>3, Apart DEF ScalarsKept, Types
    <2> QED BY <2>1, <2>2, <2>4, ReturnTypes, <1>fin, Unchanged
  <1>11. CASE Stop(t)
    <2>1. UNCHANGED <<conn, connected, dialled, calls, rd, chan, delivered, panicked, userClosed>>
      BY <1>11 DEF Stop, connVars, chanVars
    <2>2. CASE Return(t) /\ UNCHANGED <<mutex, net>>
      BY <2>1, <2>2, ReturnTypes, <1>fin, Unchanged
    <2>3. CASE /\ connected /\ net' = Buffered([net EXCEPT ![conn].req = Append(@, "stop")], conn)
               /\ mutex' = t /\ Goto(t, "stopReply")
      <3>1. conn \in Conns
        BY <2>3, <1>conns
      <3>2. [net EXCEPT ![conn].req = Append(@, "stop")] \in [Conns -> Net_t]
        BY <1>net, <3>1, Appends
      <3>3. net' \in [Conns -> Net_t]
        BY <1>net, <2>3, <3>2, Buffers
      <3>4. ScalarsKept
        BY <2>1, <2>3, Apart DEF ScalarsKept, Types
      <3> QED BY <2>1, <2>3, <3>3, <3>4, GotoTypes, <1>fin, Unchanged
    <2> QED BY <1>11, <2>2, <2>3 DEF Stop
  <1> QED BY <1>1, <1>2, <1>3, <1>4, <1>5, <1>6, <1>7, <1>8, <1>9, <1>10, <1>11 DEF UserStep, UserLock

LEMMA TypesReader ==
  ASSUME Types, Bounded, IdsInv, ConnInv, NEW r \in Readers,
         ReaderStep(r) \/ ReaderLock(r) \/ Receive(r)
  PROVE  Types' /\ Bounded'
  <1>net. net \in [Conns -> Net_t] /\ conn \in 0..MaxDials /\ dialled \in 0..MaxDials
    BY Apart DEF Types
  <1>rd. /\ rd \in [Readers -> Rd_t] /\ rd[r] \in Rd_t /\ rd[r].c \in 0..MaxDials
         /\ rd[r].hand \in Lines_t /\ Len(rd[r].hand) <= 1 /\ rd[r].buf \in Lines_t
    BY DEF Types, Bounded, Rd_t
  <1>conns. /\ conn # 0 => conn \in Conns
            /\ rd[r].c # 0 => rd[r].c \in Conns
            /\ dialled # 0 => dialled \in Conns
            /\ connected => conn \in Conns
    BY <1>net, <1>rd, Apart DEF Conns, ConnInv, ConnectedIsOpen
  <1>fin. ASSUME OpsKept, RdsKept, ChanKept, ScalarsKept, net' \in [Conns -> Net_t]
          PROVE  Types' /\ Bounded'
    BY <1>fin, Kept
  <1>empty. <<>> \in Lines_t /\ Len(<<>>) = 0
    BY EmptySeq DEF Lines_t
  <1>1. CASE ReaderStart(r)
    <2>1. UNCHANGED <<mutex, conn, connected, dialled, calls, op, chan, delivered, panicked, userClosed>>
          /\ net' = Buffered(net, conn)
      BY <1>1 DEF ReaderStart, connVars, chanVars
    <2>2. [rd[r] EXCEPT !.pc = "loop", !.c = conn] \in Rd_t
          /\ [rd[r] EXCEPT !.pc = "loop", !.c = conn].c = conn
          /\ [rd[r] EXCEPT !.pc = "loop", !.c = conn].hand = rd[r].hand
      BY <1>rd, <1>net DEF Rd_t
    <2>3. rd' = [rd EXCEPT ![r] = [rd[r] EXCEPT !.pc = "loop", !.c = conn]]
      BY <1>1, <1>rd DEF ReaderStart
    <2>4. RdsKept
      BY <2>2, <2>3, <1>rd, OneRd
    <2>5. net' \in [Conns -> Net_t]
      BY <2>1, <1>net, Buffers
    <2> QED BY <2>1, <2>4, <2>5, <1>fin, Unchanged
  <1>2. CASE ReaderPoll(r)
    <2>1. UNCHANGED <<mutex, conn, connected, dialled, net, calls, op, chan, delivered, panicked, userClosed>>
          /\ \E p \in {"close", "read"} : At(r, p)
      BY <1>2 DEF ReaderPoll, connVars, wireVars, chanVars
    <2> QED BY <2>1, AtTypes, <1>fin, Unchanged
  <1>3. CASE ReaderRead(r)
    <2>1. UNCHANGED <<mutex, conn, connected, dialled, calls, chan, delivered, userClosed>>
      BY <1>3 DEF ReaderRead, connVars, chanVars
    <2>2. CASE Panic
      <3>a. panicked' = TRUE
        BY <2>2 DEF Panic
      <3>1. ScalarsKept
        BY <2>1, <3>a, Apart DEF ScalarsKept, Types
      <3> QED BY <2>1, <2>2, <3>1, PanicTypes, <1>fin, Unchanged
    <2>3. ASSUME NEW x \in Reads(rd[r].c, rd[r].buf), rd[r].c # 0, NEW p \in {"loop", "send"},
                 rd' = [rd EXCEPT ![r] = [rd[r] EXCEPT !.buf = x.rest, !.pc = p, !.hand = parseLogEntry(x.line)]],
                 net' = Drain(net, rd[r].c, x.taken), UNCHANGED <<op, panicked>>
          PROVE  Types' /\ Bounded'
      <3>1. rd[r].c \in Conns
        BY <2>3, <1>conns
      <3>2. x.line \in Line_t /\ x.rest \in Lines_t /\ x.taken \in 0..Len(net[rd[r].c].stream)
        BY <3>1, <1>rd, ReadTypes
      <3>3. net' \in [Conns -> Net_t]
        BY <1>net, <2>3, <3>1, <3>2, Drained
      <3>4. parseLogEntry(x.line) \in Lines_t /\ Len(parseLogEntry(x.line)) <= 1
        BY <3>2, <1>empty DEF parseLogEntry, Lines_t
      <3> DEFINE v == [rd[r] EXCEPT !.buf = x.rest, !.pc = p, !.hand = parseLogEntry(x.line)]
      <3>5. v \in Rd_t /\ v.c = rd[r].c /\ v.hand = parseLogEntry(x.line)
        BY <1>rd, <3>2, <3>4 DEF Rd_t
      <3>6. RdsKept
        BY <2>3, <3>4, <3>5, OneRd
      <3> QED BY <2>1, <2>3, <3>3, <3>6, <1>fin, Unchanged
    <2>4. CASE (\E p \in {"close", "reconnect"} : At(r, p)) /\ UNCHANGED <<op, net, panicked>>
      BY <2>1, <2>4, AtTypes, <1>fin, Unchanged
    <2> QED BY <1>3, <2>2, <2>3, <2>4 DEF ReaderRead
  <1>4. CASE ReaderSend(r)
    <2>1. UNCHANGED <<mutex, conn, connected, dialled, net, calls, op, delivered, panicked, userClosed>>
      BY <1>4 DEF ReaderSend, connVars, wireVars
    <2>2. ASSUME NEW p \in {"loop", "close"}, rd' = [rd EXCEPT ![r].pc = p, ![r].hand = <<>>]
          PROVE  RdsKept
      <3> DEFINE v == [rd[r] EXCEPT !.pc = p, !.hand = <<>>]
      <3>1. v \in Rd_t /\ v.c = rd[r].c /\ v.hand = <<>>
        BY <1>rd, <1>empty DEF Rd_t
      <3>2. rd' = [rd EXCEPT ![r] = v]
        BY <2>2, <1>rd
      <3>3. Len(v.hand) <= 1
        BY <3>1, <1>empty
      <3> HIDE DEF v
      <3> QED BY <3>1, <3>2, <3>3, OneRd
    <2>3. CASE Len(chan[r]) < ChanCap /\ chan' = [chan EXCEPT ![r] = @ \o rd[r].hand]
      <3>1. chan \in [Readers -> Lines_t] /\ chan[r] \in Seq(Line_t) /\ delivered \in [Readers -> Lines_t]
        BY DEF Types, Lines_t
      <3>2. chan[r] \o rd[r].hand \in Lines_t /\ Len(chan[r] \o rd[r].hand) = Len(chan[r]) + Len(rd[r].hand)
            /\ Len(chan[r]) \in Nat /\ Len(rd[r].hand) \in Nat
        BY <3>1, <1>rd, ConcatProperties, LenProperties DEF Lines_t
      <3>a. Len(chan[r]) < ChanCap /\ ChanCap \in Nat /\ Len(rd[r].hand) <= 1
        BY <2>3, <1>rd, Apart
      <3>b. \A i, j, k \in Nat : i < k /\ j <= 1 => i + j <= k
        OBVIOUS
      <3>3. Len(chan[r] \o rd[r].hand) <= ChanCap
        BY <3>2, <3>a, <3>b, Zenon
      <3>4. ChanKept
        BY <2>1, <2>3, <3>1, <3>2, <3>3 DEF ChanKept, Bounded
      <3> QED BY <1>4, <2>1, <2>2, <3>4, <1>fin, Unchanged DEF ReaderSend
    <2>4. CASE chan' = chan
      BY <1>4, <2>1, <2>2, <2>4, <1>fin, Unchanged DEF ReaderSend
    <2> QED BY <1>4, <2>3, <2>4 DEF ReaderSend
  <1>5. CASE ReconnectAuth(r)
    <2>1. UNCHANGED <<dialled, calls, op, chan, delivered, panicked, userClosed>>
          /\ mutex' = NoOne /\ At(r, "loop")
      BY <1>5 DEF ReconnectAuth, chanVars
    <2>2. dialled \in Conns
      BY <1>5, <1>net, Apart DEF ReconnectAuth, ConnInv, ReauthOf, Types, Conns
    <2>3. CASE \E k \in 1..Len(net[dialled].stream) :
                 net' = Drain(net, dialled, k) /\ conn' = dialled /\ connected' = TRUE
      <3>1. PICK k \in 0..Len(net[dialled].stream) : net' = Drain(net, dialled, k)
        BY <2>3, <2>2, <1>net, LenProperties DEF Net_t, Lines_t
      <3>2. net' \in [Conns -> Net_t]
        BY <1>net, <2>2, <3>1, Drained
      <3>3. ScalarsKept
        BY <2>1, <2>3, Apart DEF ScalarsKept, Types
      <3> QED BY <2>1, <3>2, <3>3, AtTypes, <1>fin, Unchanged
    <2>4. CASE net' = Shut(net, dialled) /\ UNCHANGED <<conn, connected>>
      <3>1. net' \in [Conns -> Net_t]
        BY <1>net, <2>2, <2>4, Shuts
      <3>2. ScalarsKept
        BY <2>1, <2>4, Apart DEF ScalarsKept, Types
      <3> QED BY <2>1, <3>1, <3>2, AtTypes, <1>fin, Unchanged
    <2> QED BY <1>5, <2>3, <2>4 DEF ReconnectAuth, connVars
  <1>6. CASE CloseChan(r)
    <2>1. UNCHANGED <<mutex, conn, connected, dialled, net, calls, op, chan, delivered, panicked, userClosed>>
      BY <1>6 DEF CloseChan, connVars, wireVars, chanVars
    <2>2. [rd[r] EXCEPT !.pc = "done", !.buf = <<>>] \in Rd_t
          /\ [rd[r] EXCEPT !.pc = "done", !.buf = <<>>].c = rd[r].c
          /\ [rd[r] EXCEPT !.pc = "done", !.buf = <<>>].hand = rd[r].hand
      BY <1>rd, <1>empty DEF Rd_t
    <2>3. rd' = [rd EXCEPT ![r] = [rd[r] EXCEPT !.pc = "done", !.buf = <<>>]]
      BY <1>6, <1>rd DEF CloseChan
    <2>4. RdsKept
      BY <2>2, <2>3, <1>rd, OneRd
    <2> QED BY <2>1, <2>4, <1>fin, Unchanged
  <1>7. CASE Reconnect(r)
    <2>1. UNCHANGED <<conn, calls, op, chan, delivered, panicked, userClosed>> /\ connected' = FALSE
      BY <1>7 DEF Reconnect, chanVars
    <2>2. OldClosed \in [Conns -> Net_t]
      BY <1>net, <1>conns, Shuts DEF OldClosed
    <2>3. CASE /\ dialled < MaxDials /\ dialled' = dialled + 1
               /\ net' = [OldClosed EXCEPT ![dialled + 1] = Dial] /\ mutex' = r /\ At(r, "reauth")
      <3>1. net' \in [Conns -> Net_t]
        BY <2>2, <2>3, FreshTypes
      <3>2. dialled' \in dialled..MaxDials /\ conn' \in 0..dialled'
        BY <1>net, <2>1, <2>3, Apart DEF Types
      <3>3. ScalarsKept
        BY <2>1, <2>3, <3>2 DEF ScalarsKept, Types
      <3> QED BY <2>1, <2>3, <3>1, <3>3, AtTypes, <1>fin, Unchanged
    <2>4. CASE net' = OldClosed /\ At(r, "loop") /\ UNCHANGED <<mutex, dialled>>
      <3>1. dialled' \in dialled..MaxDials /\ conn' \in 0..dialled'
        BY <1>net, <2>1, <2>4, Apart DEF Types
      <3>2. ScalarsKept
        BY <2>1, <2>4, <3>1 DEF ScalarsKept, Types
      <3> QED BY <2>1, <2>2, <2>4, <3>2, AtTypes, <1>fin, Unchanged
    <2> QED BY <1>7, <2>3, <2>4 DEF Reconnect
  <1>8. CASE ReaderClose(r)
    <2>1. UNCHANGED <<mutex, conn, dialled, calls, op, chan, delivered, panicked, userClosed>>
          /\ At(r, "closeChan") /\ CloseLocked
      BY <1>8 DEF ReaderClose, chanVars
    <2>2. net' \in [Conns -> Net_t] /\ connected' \in BOOLEAN
      BY <2>1, <1>conns, CloseTypes
    <2>3. ScalarsKept
      BY <2>1, <2>2, Apart DEF ScalarsKept, Types
    <2> QED BY <2>1, <2>2, <2>3, AtTypes, <1>fin, Unchanged
  <1>9. CASE Receive(r)
    <2>1. UNCHANGED <<mutex, conn, connected, dialled, net, calls, op, rd, panicked, userClosed>>
      BY <1>9 DEF Receive, connVars, wireVars
    <2>2. chan \in [Readers -> Lines_t] /\ delivered \in [Readers -> Lines_t]
          /\ chan[r] \in Seq(Line_t) /\ chan[r] # <<>> /\ delivered[r] \in Seq(Line_t)
      BY <1>9 DEF Types, Lines_t, Receive
    <2>3. Head(chan[r]) \in Line_t /\ Tail(chan[r]) \in Lines_t /\ Len(Tail(chan[r])) = Len(chan[r]) - 1
          /\ Len(chan[r]) \in Nat
      BY <2>2, HeadTailProperties, LenProperties DEF Lines_t
    <2>4. Append(delivered[r], Head(chan[r])) \in Lines_t
      BY <2>2, <2>3, AppendProperties DEF Lines_t
    <2>5. Len(chan[r]) <= ChanCap
      BY DEF Bounded
    <2>6. Len(Tail(chan[r])) <= ChanCap
      BY <2>3, <2>5, Apart
    <2>7. delivered' = [delivered EXCEPT ![r] = Append(delivered[r], Head(chan[r]))]
          /\ chan' = [chan EXCEPT ![r] = Tail(chan[r])]
      BY <1>9, <2>2 DEF Receive
    <2>8. ChanKept
      BY <2>2, <2>3, <2>4, <2>6, <2>7 DEF ChanKept, Bounded
    <2> QED BY <2>1, <2>8, <1>fin, Unchanged
  <1> QED BY <1>1, <1>2, <1>3, <1>4, <1>5, <1>6, <1>7, <1>8, <1>9 DEF ReaderStep, ReaderLock

\* The reply to a command, with the numbered lines it has: those after the latest sent.
AnswerOf(c, n, h, lines) ==
  /\ Up(c) /\ n \in 0..(MaxLines - net[c].sent) /\ h \in Announced(n)
  /\ \/ lines = <<Line("head", h)>> \o Numbered(c, "alarm", n)
     \/ n = 0 /\ lines = <<Line("ok", 0)>>
  /\ net' = [net EXCEPT ![c] = [net[c] EXCEPT !.stream = net[c].stream \o lines, !.req = Tail(net[c].req),
                                             !.sent = net[c].sent + n]]

LEMMA AnswerShape ==
  ASSUME Types, NEW c \in Conns, Answer(c)
  PROVE  \E n, h, lines : AnswerOf(c, n, h, lines)
  <1> DEFINE al == Head(net[c].req) = "alarms"
             ls(n, h) == IF al THEN <<Line("head", h)>> \o Numbered(c, "alarm", n) ELSE <<Line("ok", 0)>>
  <1>1. net \in [Conns -> Net_t]
    BY DEF Types
  <1>0. PICK n \in 0..(MaxLines - net[c].sent) : \E h \in Announced(n) :
          /\ al \/ n = 0
          /\ net' = [net EXCEPT ![c].stream = @ \o ls(n, h), ![c].req = Tail(@), ![c].sent = @ + n]
    BY DEF Answer, Controlled
  <1>2. PICK h \in Announced(n) :
          /\ al \/ n = 0
          /\ net' = [net EXCEPT ![c].stream = @ \o ls(n, h), ![c].req = Tail(@), ![c].sent = @ + n]
    BY <1>0
  <1>3. ASSUME NEW s
        PROVE  [net EXCEPT ![c].stream = @ \o s, ![c].req = Tail(@), ![c].sent = @ + n]
                 = [net EXCEPT ![c] = [net[c] EXCEPT !.stream = net[c].stream \o s, !.req = Tail(net[c].req),
                                                     !.sent = net[c].sent + n]]
    OBVIOUS
  <1>4. Up(c)
    BY DEF Answer
  <1>5. \/ ls(n, h) = <<Line("head", h)>> \o Numbered(c, "alarm", n)
        \/ n = 0 /\ ls(n, h) = <<Line("ok", 0)>>
    BY <1>2
  <1> HIDE DEF ls, al
  <1>6. AnswerOf(c, n, h, ls(n, h))
    BY <1>0, <1>2, <1>3, <1>4, <1>5 DEF AnswerOf
  <1> QED BY <1>6

\* The numbered lines are lines, and the reply is made of lines.
LEMMA AnswerTypes ==
  ASSUME Types, NEW c \in Conns, NEW n, NEW h, NEW lines, AnswerOf(c, n, h, lines)
  PROVE  /\ n \in Nat /\ net[c].sent \in Nat /\ net[c].sent + n <= MaxLines
         /\ Numbered(c, "alarm", n) \in Lines_t /\ Len(Numbered(c, "alarm", n)) = n
         /\ Line("head", h) \in Line_t /\ lines \in Lines_t
  <1>1. n \in Nat /\ net[c].sent \in Nat /\ net[c].sent + n <= MaxLines /\ MaxLines \in Nat
    BY Apart DEF Types, AnswerOf, Net_t
  <1>2. \A i \in 1..n : Line("alarm", net[c].sent + i) \in Line_t
    BY <1>1 DEF Line, Line_t
  <1>3. Numbered(c, "alarm", n) \in [1..n -> Line_t]
    BY <1>2 DEF Numbered
  <1>4. Numbered(c, "alarm", n) \in Seq(Line_t) /\ Len(Numbered(c, "alarm", n)) = n
    BY <1>1, <1>3, IsASeq, LenProperties
  <1>h. h \in -1..MaxLines
    BY <1>1 DEF AnswerOf, Announced
  <1>5. Line("head", h) \in Line_t /\ Line("ok", 0) \in Line_t
    BY <1>1, <1>h DEF Line, Line_t
  <1>6. <<Line("head", h)>> \in Seq(Line_t) /\ <<Line("ok", 0)>> \in Seq(Line_t)
    BY <1>5
  <1>7. <<Line("head", h)>> \o Numbered(c, "alarm", n) \in Seq(Line_t)
    BY <1>4, <1>6, ConcatProperties
  <1> QED BY <1>1, <1>4, <1>5, <1>6, <1>7 DEF AnswerOf, Lines_t

\* What the controller, the network and the clock do to one connection that is open
NetStep(c, v) ==
  /\ net[c].open /\ v.open = net[c].open /\ v.bufs = net[c].bufs
  /\ net' = [net EXCEPT ![c] = v]
  /\ UNCHANGED <<mutex, conn, connected, dialled, calls, op, rd, chan, delivered, panicked, userClosed>>

LEMMA NetShape ==
  ASSUME Types, NEW c \in Conns, Environment(c) \/ Expire(c)
  PROVE  \E v \in Net_t : NetStep(c, v)
  <1>1. net \in [Conns -> Net_t] /\ net[c] \in Net_t
    BY DEF Types
  <1>2. UNCHANGED <<mutex, conn, connected, dialled, calls, op, rd, chan, delivered, panicked, userClosed>>
        /\ net[c].open
    BY DEF Environment, Answer, Refuse, Silent, Emit, Fin, Rst, Expire, Controlled, Up, connVars, chanVars
  <1>3. ASSUME NEW v \in Net_t, v.open = net[c].open, v.bufs = net[c].bufs, net' = [net EXCEPT ![c] = v]
        PROVE  \E w \in Net_t : NetStep(c, w)
    BY <1>2, <1>3 DEF NetStep
  <1>4. net[c].req # <<>> => Tail(net[c].req) \in Seq({"auth", "alarms", "start", "stop"})
    BY <1>1, HeadTailProperties DEF Net_t
  <1>5. <<>> \in Lines_t /\ <<>> \in Seq({"auth", "alarms", "start", "stop"})
    BY EmptySeq DEF Lines_t
  <1>6. CASE Answer(c)
    <2>1. PICK n, h, lines : AnswerOf(c, n, h, lines)
      BY <1>6, AnswerShape
    <2>2. net[c].stream \o lines \in Lines_t
      BY <1>1, <2>1, AnswerTypes, ConcatProperties DEF Net_t, Lines_t
    <2>3. net[c].sent + n \in 0..MaxLines /\ net[c].req # <<>>
      BY <1>6, <2>1, AnswerTypes, Apart DEF Answer
    <2> DEFINE v == [net[c] EXCEPT !.stream = net[c].stream \o lines, !.req = Tail(net[c].req),
                                   !.sent = net[c].sent + n]
    <2>4. v \in Net_t /\ v.open = net[c].open /\ v.bufs = net[c].bufs
      BY <1>1, <1>4, <2>2, <2>3 DEF Net_t
    <2>5. net' = [net EXCEPT ![c] = v]
      BY <2>1 DEF AnswerOf
    <2> HIDE DEF v
    <2> QED BY <1>3, <2>4, <2>5
  <1>7. CASE Refuse(c)
    <2>1. Line("no", 0) \in Line_t
      BY Apart DEF Line, Line_t
    <2>2. Append(net[c].stream, Line("no", 0)) \in Lines_t
      BY <1>1, <2>1, AppendProperties DEF Net_t, Lines_t
    <2> DEFINE v == [net[c] EXCEPT !.stream = Append(net[c].stream, Line("no", 0)), !.req = Tail(net[c].req)]
    <2>4. v \in Net_t /\ v.open = net[c].open /\ v.bufs = net[c].bufs
      BY <1>1, <1>4, <1>7, <2>2 DEF Net_t, Refuse
    <2>5. net' = [net EXCEPT ![c] = v]
      <3>1. ASSUME NEW x
            PROVE  [net EXCEPT ![c].stream = Append(@, x), ![c].req = Tail(@)]
                     = [net EXCEPT ![c] = [net[c] EXCEPT !.stream = Append(net[c].stream, x), !.req = Tail(net[c].req)]]
        OBVIOUS
      <3> QED BY <1>7, <3>1, Zenon DEF Refuse, Controlled
    <2> HIDE DEF v
    <2> QED BY <1>3, <2>4, <2>5
  <1>8. CASE Silent(c)
    <2> DEFINE v == [net[c] EXCEPT !.req = Tail(net[c].req)]
    <2>4. v \in Net_t /\ v.open = net[c].open /\ v.bufs = net[c].bufs
      BY <1>1, <1>4, <1>8 DEF Net_t, Silent
    <2>5. net' = [net EXCEPT ![c] = v]
      BY <1>8, <1>1 DEF Silent, Controlled
    <2> HIDE DEF v
    <2> QED BY <1>3, <2>4, <2>5
  <1>9. CASE Emit(c)
    <2> DEFINE n == net[c].sent + 1
               line == Line(IF n \in Empty THEN "blank" ELSE "log", n)
               v == [net[c] EXCEPT !.stream = Append(net[c].stream, line), !.sent = n]
    <2>1. n \in 0..MaxLines
      BY <1>1, <1>9, Apart DEF Emit, Net_t
    <2>2. line \in Line_t
      BY <2>1 DEF Line, Line_t
    <2>3. Append(net[c].stream, line) \in Lines_t
      BY <1>1, <2>2, AppendProperties DEF Net_t, Lines_t
    <2>5. net' = [net EXCEPT ![c] = v]
      <3>1. ASSUME NEW x, NEW k
            PROVE  [net EXCEPT ![c].stream = Append(@, x), ![c].sent = k]
                     = [net EXCEPT ![c] = [net[c] EXCEPT !.stream = Append(net[c].stream, x), !.sent = k]]
        OBVIOUS
      <3> QED BY <1>9, <3>1, Zenon DEF Emit, Controlled
    <2>6. v \in Net_t /\ v.open = net[c].open /\ v.bufs = net[c].bufs
      <3> HIDE DEF n, line
      <3> QED BY <1>1, <2>1, <2>3 DEF Net_t
    <2> HIDE DEF v
    <2> QED BY <1>3, <2>5, <2>6
  <1>10. CASE Fin(c)
    <2> DEFINE v == [net[c] EXCEPT !.peer = "fin", !.req = <<>>]
    <2>4. v \in Net_t /\ v.open = net[c].open /\ v.bufs = net[c].bufs
      BY <1>1, <1>5 DEF Net_t
    <2>5. net' = [net EXCEPT ![c] = v]
      BY <1>10, <1>1 DEF Fin, Controlled
    <2> HIDE DEF v
    <2> QED BY <1>3, <2>4, <2>5
  <1>11. CASE Rst(c)
    <2> DEFINE v == [net[c] EXCEPT !.peer = "rst", !.req = <<>>, !.stream = <<>>]
    <2>4. v \in Net_t /\ v.open = net[c].open /\ v.bufs = net[c].bufs
      BY <1>1, <1>5 DEF Net_t
    <2>5. net' = [net EXCEPT ![c] = v]
      BY <1>11, <1>1 DEF Rst, Controlled
    <2> HIDE DEF v
    <2> QED BY <1>3, <2>4, <2>5
  <1>12. CASE Expire(c)
    <2> DEFINE v == [net[c] EXCEPT !.expired = TRUE]
    <2>4. v \in Net_t /\ v.open = net[c].open /\ v.bufs = net[c].bufs
      BY <1>1 DEF Net_t
    <2>5. net' = [net EXCEPT ![c] = v]
      BY <1>12, <1>1 DEF Expire, Controlled
    <2> HIDE DEF v
    <2> QED BY <1>3, <2>4, <2>5
  <1> QED BY <1>6, <1>7, <1>8, <1>9, <1>10, <1>11, <1>12 DEF Environment

LEMMA TypesNet ==
  ASSUME Types, Bounded, NEW c \in Conns, Environment(c) \/ Expire(c)
  PROVE  Types' /\ Bounded'
  <1>1. PICK v \in Net_t : NetStep(c, v)
    BY NetShape
  <1>2. net' \in [Conns -> Net_t]
    BY <1>1 DEF NetStep, Types
  <1> QED BY <1>1, <1>2, Kept, Unchanged DEF NetStep

\* Cancel and Quiescent leave all aside.
LEMMA StepCases ==
  ASSUME Step
  PROVE  \/ \E t \in Users : Invoke(t) \/ UserStep(t) \/ UserLock(t)
         \/ \E r \in Readers : ReaderStep(r) \/ ReaderLock(r) \/ Receive(r)
         \/ \E c \in Conns : Environment(c) \/ Expire(c)
         \/ Aside
  <1>1. ASSUME NEW r \in Readers, Cancel(r) PROVE Aside
    BY <1>1 DEF Cancel, Aside
  <1>2. Quiescent => Aside
    BY DEF Quiescent, Aside, vars, chanVars, connVars, wireVars
  <1> QED BY <1>1, <1>2 DEF Step, Next

LEMMA TypesStep ==
  ASSUME Types, Bounded, IdsInv, ConnInv, Step
  PROVE  Types' /\ Bounded'
  <1>1. Aside => Types' /\ Bounded'
    BY Kept, Unchanged DEF Aside, connVars, wireVars
  <1> QED BY <1>1, StepCases, TypesUser, TypesReader, TypesNet

-----------------------------------------------------------------------------
(* Who moves                                                               *)

Busy(t) == op[t].pc \notin {"idle", "dead"}

\* One user goes on with its call.
MoveOf(t) ==
  /\ \A u \in Users \ {t} : op'[u] = op[u]
  /\ Busy(t) /\ op'[t].pc # "dead" /\ op'[t].m = op[t].m /\ op'[t].id = op[t].id
  /\ op'[t].pc \in ConnectingAt => op[t].pc \in ConnectingAt

\* One goroutine of ReadLogs goes on.
TurnOf(r) ==
  /\ op' = op /\ \A q \in Readers \ {r} : rd'[q] = rd[q]
  /\ rd[r].pc \notin {"unused", "done", "dead"} /\ rd'[r].pc \notin {"unused", "dead"}
  /\ rd'[r].pc \in Ended_t => rd[r].pc \in Ended_t \/ ReaderClose(r)

LEMMA ReturnMoves ==
  ASSUME Types, NEW t \in Users, Return(t)
  PROVE  /\ \A u \in Users \ {t} : op'[u] = op[u]
         /\ op'[t].pc = "idle" /\ op'[t].m = op[t].m /\ op'[t].id = op[t].id /\ op'[t].c = 0
         /\ op'[t].buf = <<>>
  BY DEF Types, Return, NoOp

LEMMA GotoMoves ==
  ASSUME Types, NEW t \in Users, NEW p, Goto(t, p)
  PROVE  /\ \A u \in Users \ {t} : op'[u] = op[u]
         /\ op'[t].pc = p /\ op'[t].m = op[t].m /\ op'[t].id = op[t].id /\ op'[t].c = op[t].c
         /\ op'[t].buf = op[t].buf /\ op'[t].then = op[t].then
  BY DEF Types, Goto, Op_t

LEMMA AtMoves ==
  ASSUME Types, NEW r \in Readers, NEW p, At(r, p)
  PROVE  /\ \A q \in Readers \ {r} : rd'[q] = rd[q]
         /\ rd'[r].pc = p /\ rd'[r].c = rd[r].c /\ rd'[r].buf = rd[r].buf /\ rd'[r].hand = rd[r].hand
  BY DEF Types, At, Rd_t

LEMMA CommandMoves ==
  ASSUME Types, NEW t \in Users, NEW x, CommandLine(t, x)
  PROVE  /\ \A u \in Users \ {t} : op'[u] = op[u]
         /\ op'[t].pc \in {"idle", "alarms", "connect"} /\ op'[t].m = op[t].m /\ op'[t].id = op[t].id
         /\ op'[t].pc = "alarms" => op'[t].c = op[t].c
  <1>1. CASE Return(t)
    BY <1>1, ReturnMoves
  <1>2. CASE op' = [op EXCEPT ![t] = [op[t] EXCEPT !.pc = "connect", !.then = "spawn", !.c = 0]]
    BY <1>2 DEF Types, Op_t
  <1>3. ASSUME NEW k, op' = [op EXCEPT ![t] = [op[t] EXCEPT !.pc = "alarms", !.left = k, !.buf = x.rest]]
        PROVE  /\ \A u \in Users \ {t} : op'[u] = op[u]
               /\ op'[t].pc = "alarms" /\ op'[t].m = op[t].m /\ op'[t].id = op[t].id /\ op'[t].c = op[t].c
    BY <1>3 DEF Types, Op_t
  <1> QED BY <1>1, <1>2, <1>3, CommandShape DEF CommandGoes

LEMMA UserMoves ==
  ASSUME Types, NEW t \in Users, UserStep(t) \/ UserLock(t)
  PROVE  Panic \/ MoveOf(t)
  <1>then. op[t].then \in {"idle", "spawn", "command"}
    BY DEF Types, Op_t, Then_t
  <1>1. CASE Return(t) /\ Busy(t)
    BY <1>1, ReturnMoves DEF MoveOf, ConnectingAt
  <1>2. ASSUME NEW p \in {"idle", "spawn", "command", "auth", "reader", "stopReply"},
               Goto(t, p), Busy(t), p = "stopReply" \/ op[t].pc \in ConnectingAt
        PROVE  MoveOf(t)
    BY <1>2, GotoMoves DEF MoveOf, ConnectingAt
  <1>3. CASE ConnectAuth(t) \/ Spawn(t)
    BY <1>1, <1>2, <1>3, <1>then DEF ConnectAuth, Spawn, Busy, ConnectingAt
  <1>4. CASE Command(t)
    BY <1>1, <1>2, <1>4 DEF Command, Busy, ConnectingAt
  <1>5. CASE CommandReader(t)
    BY <1>5 DEF CommandReader, MoveOf, Busy, ConnectingAt, Types, Op_t
  <1>6. CASE CommandRead(t)
    <2>1. Busy(t) /\ op[t].pc \in ConnectingAt
      BY <1>6 DEF CommandRead, ReadLine, Busy, ConnectingAt
    <2>2. ASSUME NEW x, CommandLine(t, x) PROVE MoveOf(t)
      BY <2>1, <2>2, CommandMoves DEF MoveOf
    <2> QED BY <1>1, <1>6, <2>1, <2>2 DEF CommandRead, ReadLine
  <1>7. CASE StopReply(t)
    BY <1>1, <1>7 DEF StopReply, Busy
  <1>8. CASE ConnectAlready(t)
    BY <1>2, <1>8, <1>then DEF ConnectAlready, Busy, ConnectingAt
  <1>9. CASE ConnectDial(t)
    BY <1>1, <1>2, <1>9 DEF ConnectDial, Busy, ConnectingAt
  <1>10. CASE Close(t)
    BY <1>1, <1>10 DEF Close, Busy
  <1>11. CASE Stop(t)
    BY <1>1, <1>2, <1>11 DEF Stop, Busy
  <1> QED BY <1>3, <1>4, <1>5, <1>6, <1>7, <1>8, <1>9, <1>10, <1>11 DEF UserStep, UserLock

LEMMA ReaderMoves ==
  ASSUME Types, NEW r \in Readers, ReaderStep(r) \/ ReaderLock(r)
  PROVE  Panic \/ TurnOf(r)
  <1>rd. rd \in [Readers -> Rd_t]
    BY DEF Types
  <1>1. ASSUME NEW p \in {"loop", "read", "close", "reconnect", "reauth"}, At(r, p), op' = op,
               rd[r].pc \notin {"unused", "done", "dead"}
        PROVE  TurnOf(r)
    BY <1>1, AtMoves DEF TurnOf, Ended_t
  <1>2. CASE ReaderStart(r)
    BY <1>2, <1>rd DEF ReaderStart, TurnOf, Ended_t, Rd_t
  <1>3. CASE ReaderPoll(r)
    BY <1>1, <1>3 DEF ReaderPoll
  <1>4. CASE ReaderRead(r)
    <2>1. rd[r].pc = "read"
      BY <1>4 DEF ReaderRead
    <2>2. ASSUME NEW p \in {"loop", "send"}, NEW b, NEW h, op' = op,
                 rd' = [rd EXCEPT ![r] = [rd[r] EXCEPT !.buf = b, !.pc = p, !.hand = h]]
          PROVE  TurnOf(r)
      BY <2>1, <2>2, <1>rd DEF TurnOf, Ended_t, Rd_t
    <2> QED BY <1>1, <1>4, <2>1, <2>2 DEF ReaderRead
  <1>5. CASE ReaderSend(r)
    <2>1. ASSUME NEW p \in {"loop", "close"}, rd' = [rd EXCEPT ![r].pc = p, ![r].hand = <<>>]
          PROVE  rd'[r].pc = p /\ \A q \in Readers \ {r} : rd'[q] = rd[q]
      BY <2>1, <1>rd DEF Rd_t
    <2>2. op' = op /\ rd[r].pc = "send"
      BY <1>5 DEF ReaderSend
    <2> QED BY <1>5, <2>1, <2>2 DEF ReaderSend, TurnOf, Ended_t
  <1>6. CASE ReconnectAuth(r)
    BY <1>1, <1>6 DEF ReconnectAuth
  <1>7. CASE CloseChan(r)
    BY <1>7, <1>rd DEF CloseChan, TurnOf, Ended_t, Rd_t
  <1>8. CASE Reconnect(r)
    BY <1>1, <1>8 DEF Reconnect
  <1>9. CASE ReaderClose(r)
    <2>1. op' = op /\ rd[r].pc = "close" /\ At(r, "closeChan")
      BY <1>9 DEF ReaderClose
    <2> QED BY <1>9, <2>1, AtMoves DEF TurnOf, Ended_t
  <1> QED BY <1>2, <1>3, <1>4, <1>5, <1>6, <1>7, <1>8, <1>9 DEF ReaderStep, ReaderLock

\* panicked says what Panic did, and nothing else sets it.
LEMMA Panics ==
  /\ \A t \in Users : UserStep(t) \/ UserLock(t) => Panic \/ panicked' = panicked
  /\ \A r \in Readers : ReaderStep(r) \/ ReaderLock(r) => Panic \/ panicked' = panicked
  /\ \A t \in Users : Invoke(t) => panicked' = panicked
  /\ \A r \in Readers : Receive(r) => panicked' = panicked
  <1>1. \A t \in Users : UserStep(t) \/ UserLock(t) => Panic \/ panicked' = panicked
    BY DEF UserStep, UserLock, ConnectAuth, Spawn, Command, CommandReader, CommandRead, ReadLine, StopReply,
           ConnectAlready, ConnectDial, Close, Stop
  <1>2. \A r \in Readers : ReaderStep(r) \/ ReaderLock(r) => Panic \/ panicked' = panicked
    BY DEF ReaderStep, ReaderLock, ReaderStart, ReaderPoll, ReaderRead, ReaderSend, ReconnectAuth,
           CloseChan, Reconnect, ReaderClose
  <1>3. \A t \in Users : Invoke(t) => panicked' = panicked
    BY Zenon DEF Invoke
  <1>4. \A r \in Readers : Receive(r) => panicked' = panicked
    BY DEF Receive
  <1> QED BY <1>1, <1>2, <1>3, <1>4

-----------------------------------------------------------------------------
(* Calls and their numbers                                                 *)

LEMMA InvokeMoves ==
  ASSUME Types, NEW t \in Users, Invoke(t), NEW m, NEW p, InvokeAs(t, m, p)
  PROVE  /\ \A u \in Users \ {t} : op'[u] = op[u]
         /\ op[t].pc = "idle" /\ op'[t].pc = p /\ op'[t].m = m /\ op'[t].id = calls + 1
         /\ calls < MaxCalls /\ calls' = calls + 1 /\ p \in {"close", "stop", "connect"}
         /\ UNCHANGED <<mutex, conn, connected, dialled, net, rd, chan, delivered, cancelled, panicked>>
  <1>1. op[t].pc = "idle" /\ calls < MaxCalls /\ calls' = calls + 1
        /\ UNCHANGED <<mutex, connVars, wireVars, rd, chanVars, panicked>>
    BY Zenon DEF Invoke
  <1>2. op' = [op EXCEPT ![t] = [NoOp EXCEPT !.m = m, !.id = calls + 1, !.pc = p, !.then = AfterConnect(m)]]
        /\ p \in {"close", "stop", "connect"}
    BY DEF InvokeAs
  <1>3. /\ \A u \in Users \ {t} : op'[u] = op[u]
        /\ op'[t] = [NoOp EXCEPT !.m = m, !.id = calls + 1, !.pc = p, !.then = AfterConnect(m)]
    BY <1>2 DEF Types
  <1>4. op'[t].pc = p /\ op'[t].m = m /\ op'[t].id = calls + 1
    BY <1>3 DEF NoOp
  <1>5. UNCHANGED <<mutex, conn, connected, dialled, net, rd, chan, delivered, cancelled, panicked>>
    BY <1>1 DEF connVars, wireVars, chanVars
  <1> QED BY <1>1, <1>2, <1>3, <1>4, <1>5

\* No call begins or is forgotten.
LEMMA IdsCalm ==
  ASSUME Types, IdsInv, calls' = calls,
         \A u \in Users : op'[u].pc \in {"idle", "dead"} \/ (Busy(u) /\ op'[u].id = op[u].id),
         \/ panicked' /\ \A u \in Users : op'[u].pc = "dead"
         \/ /\ panicked' = panicked /\ \A u \in Users : op[u].pc = "dead" => op'[u].pc = "dead"
            /\ \A q \in 1..MaxCalls : rd[q].pc = "unused" => rd'[q].pc = "unused"
  PROVE  IdsInv'
  <1>1. CASE panicked' /\ \A u \in Users : op'[u].pc = "dead"
    BY <1>1 DEF IdsInv
  <1>2. CASE /\ panicked' = panicked /\ \A u \in Users : op[u].pc = "dead" => op'[u].pc = "dead"
             /\ \A q \in 1..MaxCalls : rd[q].pc = "unused" => rd'[q].pc = "unused"
    <2>0. \A u \in Users : op'[u].pc \notin {"idle", "dead"} =>
            op[u].pc \notin {"idle", "dead"} /\ op'[u].id = op[u].id
      BY DEF Busy
    <2>1. panicked' => \A t \in Users : op'[t].pc = "dead"
      BY <1>2 DEF IdsInv
    <2>2. ~panicked' => \A r \in Readers : r > calls' => rd'[r].pc = "unused"
      BY <1>2 DEF IdsInv, Readers
    <2>3. ASSUME NEW t \in Users, op'[t].pc \notin {"idle", "dead"}
          PROVE  op'[t].id \in 1..calls' /\ rd'[op'[t].id].pc = "unused"
      <3>1. op[t].id \in 1..calls /\ rd[op[t].id].pc = "unused" /\ op'[t].id = op[t].id
        BY <2>0, <2>3 DEF IdsInv
      <3>2. op[t].id \in 1..MaxCalls
        BY <3>1, Apart DEF Types
      <3> QED BY <1>2, <3>1, <3>2
    <2>4. \A t, u \in Users : op'[t].pc \notin {"idle", "dead"} /\ op'[u].pc \notin {"idle", "dead"} =>
            t = u \/ op'[t].id # op'[u].id
      BY <2>0 DEF IdsInv
    <2> QED BY <2>1, <2>2, <2>3, <2>4 DEF IdsInv
  <1> QED BY <1>1, <1>2

LEMMA IdsStep ==
  ASSUME Types, IdsInv, Step
  PROVE  IdsInv'
  <1>calls. calls \in Nat /\ calls <= MaxCalls /\ MaxCalls \in Nat
    BY Apart DEF Types
  <1>panic. ASSUME Panic, calls' = calls PROVE IdsInv'
    <2>1. panicked' /\ \A u \in Users : op'[u].pc = "dead"
      BY <1>panic DEF Panic, Types, Op_t
    <2> QED BY <1>panic, <2>1, IdsCalm
  <1>1. ASSUME NEW t \in Users, Invoke(t) PROVE IdsInv'
    <2>1. PICK m, p : InvokeAs(t, m, p)
      BY <1>1, InvokeShape
    <2>2. /\ \A u \in Users \ {t} : op'[u] = op[u]
          /\ op[t].pc = "idle" /\ op'[t].id = calls + 1 /\ op'[t].pc # "dead"
          /\ calls < MaxCalls /\ calls' = calls + 1 /\ UNCHANGED <<rd, panicked>>
      BY <1>1, <2>1, InvokeMoves
    <2>3. ~panicked
      BY <2>2 DEF IdsInv
    <2>4. rd[calls + 1].pc = "unused"
      BY <2>2, <2>3, <1>calls DEF IdsInv, Readers
    <2>5. ASSUME NEW u \in Users, op'[u].pc \notin {"idle", "dead"}
          PROVE  op'[u].id \in 1..calls' /\ rd'[op'[u].id].pc = "unused"
                 /\ (u # t => op'[u].id \in 1..calls)
      <3>1. CASE u = t
        BY <3>1, <2>2, <2>4, <1>calls
      <3>2. CASE u # t
        BY <3>2, <2>2, <2>5, <1>calls DEF IdsInv
      <3> QED BY <3>1, <3>2
    <2>6. ASSUME NEW u \in Users, NEW v \in Users, op'[u].pc \notin {"idle", "dead"},
                 op'[v].pc \notin {"idle", "dead"}, u # v
          PROVE  op'[u].id # op'[v].id
      <3>1. CASE u = t
        BY <3>1, <2>2, <2>5, <2>6, <1>calls
      <3>2. CASE v = t
        BY <3>2, <2>2, <2>5, <2>6, <1>calls
      <3>3. CASE u # t /\ v # t
        BY <3>3, <2>2, <2>6 DEF IdsInv
      <3> QED BY <3>1, <3>2, <3>3
    <2>7. \A q \in Readers : q > calls' => rd'[q].pc = "unused"
      BY <2>2, <2>3, <1>calls DEF IdsInv, Readers
    <2> QED BY <2>2, <2>3, <2>5, <2>6, <2>7 DEF IdsInv
  <1>2. ASSUME NEW t \in Users, Spawn(t) PROVE IdsInv'
    <2>1. Return(t) /\ Busy(t) /\ UNCHANGED <<calls, panicked>> /\ At(op[t].id, "start")
      BY <1>2 DEF Spawn, Busy, At
    <2>2. op[t].id \in Readers /\ op[t].id \in 1..calls
      BY <2>1, <1>calls DEF IdsInv, Busy, Readers
    <2>3. \A u \in Users \ {t} : op'[u] = op[u]
      BY <2>1, ReturnMoves
    <2>4. op'[t].pc = "idle"
      BY <2>1, ReturnMoves
    <2>5. \A q \in Readers : q # op[t].id => rd'[q] = rd[q]
      BY <2>1, <2>2, AtMoves
    <2>6. ~panicked
      BY <2>1 DEF IdsInv, Busy
    <2>7. ASSUME NEW u \in Users, op'[u].pc \notin {"idle", "dead"}
          PROVE  op[u].pc \notin {"idle", "dead"} /\ op'[u].id = op[u].id /\ op[u].id # op[t].id
      BY <2>1, <2>3, <2>4, <2>7 DEF IdsInv, Busy
    <2>8. ASSUME NEW u \in Users, op'[u].pc \notin {"idle", "dead"}
          PROVE  op'[u].id \in 1..calls' /\ rd'[op'[u].id].pc = "unused"
      BY <2>1, <2>5, <2>7, <2>8, <1>calls DEF IdsInv, Readers
    <2>9. \A q \in Readers : q > calls' => rd'[q].pc = "unused"
      BY <2>1, <2>2, <2>5, <2>6, <1>calls DEF IdsInv, Readers
    <2>10. \A u, v \in Users : op'[u].pc \notin {"idle", "dead"} /\ op'[v].pc \notin {"idle", "dead"} =>
             u = v \/ op'[u].id # op'[v].id
      BY <2>7 DEF IdsInv
    <2> QED BY <2>1, <2>6, <2>8, <2>9, <2>10 DEF IdsInv
  <1>3. ASSUME NEW t \in Users, UserStep(t) \/ UserLock(t), ~Spawn(t) PROVE IdsInv'
    <2>1. calls' = calls /\ (Panic \/ rd' = rd)
      BY <1>3 DEF UserStep, UserLock, ConnectAuth, Command, CommandReader, CommandRead, ReadLine, StopReply,
                  ConnectAlready, ConnectDial, Close, Stop
    <2>2. CASE Panic
      BY <2>1, <2>2, <1>panic
    <2>3. CASE ~Panic
      <3>1. panicked' = panicked /\ rd' = rd
        BY <1>3, <2>1, <2>3, Panics
      <3>2. MoveOf(t)
        BY <1>3, <2>3, UserMoves
      <3>3. \A u \in Users : op'[u].pc \in {"idle", "dead"} \/ (Busy(u) /\ op'[u].id = op[u].id)
        BY <3>2 DEF MoveOf, Busy
      <3>4. \A u \in Users : op[u].pc = "dead" => op'[u].pc = "dead"
        BY <3>2 DEF MoveOf, Busy
      <3> QED BY <2>1, <3>1, <3>3, <3>4, IdsCalm
    <2> QED BY <2>2, <2>3
  <1>4. ASSUME NEW r \in Readers, ReaderStep(r) \/ ReaderLock(r) PROVE IdsInv'
    <2>1. calls' = calls
      BY <1>4 DEF ReaderStep, ReaderLock, ReaderStart, ReaderPoll, ReaderRead, ReaderSend, ReconnectAuth,
                  CloseChan, Reconnect, ReaderClose
    <2>2. CASE Panic
      BY <2>1, <2>2, <1>panic
    <2>3. CASE ~Panic
      <3>1. panicked' = panicked
        BY <1>4, <2>3, Panics
      <3>2. TurnOf(r)
        BY <1>4, <2>3, ReaderMoves
      <3>3. \A q \in 1..MaxCalls : rd[q].pc = "unused" => rd'[q].pc = "unused"
        BY <3>2 DEF TurnOf, Readers
      <3>4. \A u \in Users : op'[u].pc \in {"idle", "dead"} \/ (Busy(u) /\ op'[u].id = op[u].id)
        BY <3>2 DEF TurnOf, Busy
      <3> QED BY <2>1, <3>1, <3>2, <3>3, <3>4, IdsCalm DEF TurnOf
    <2> QED BY <2>2, <2>3
  <1>5. ASSUME UNCHANGED <<calls, op, rd, panicked>> PROVE IdsInv'
    BY <1>5 DEF IdsInv
  <1>6. ASSUME NEW r \in Readers, Receive(r) PROVE IdsInv'
    BY <1>5, <1>6 DEF Receive
  <1>7. ASSUME NEW c \in Conns, Environment(c) \/ Expire(c) PROVE IdsInv'
    BY <1>5, <1>7, NetShape DEF NetStep
  <1>8. Aside => IdsInv'
    BY <1>5 DEF Aside
  <1> QED BY <1>1, <1>2, <1>3, <1>4, <1>6, <1>7, <1>8, StepCases

-----------------------------------------------------------------------------
(* Connections                                                             *)

\* Connections stay open or closed; one that is not dialled is not touched.
NetCalm ==
  \A c \in Conns : net'[c].open = net[c].open /\ (c > dialled /\ net[c] = Fresh => net'[c] = Fresh)

\* Nobody comes to a place where the mutex is held, nor leaves one.
PcsCalm ==
  /\ \A u \in Users : op'[u].pc \in {"auth", "stopReply"} => op'[u].pc = op[u].pc
  /\ \A q \in Readers : rd'[q].pc = "reauth" => rd[q].pc = "reauth"
  /\ ~panicked' =>
       /\ ~panicked /\ \A u \in Users : op[u].pc = "auth" => op'[u].pc = "auth"
       /\ \A q \in Readers : rd[q].pc = "reauth" => rd'[q].pc = "reauth"

Calm == UNCHANGED <<mutex, conn, connected, dialled>> /\ NetCalm /\ PcsCalm

LEMMA CalmConn ==
  ASSUME Types, LockInv, ConnInv, Calm
  PROVE  LockInv' /\ ConnInv'
  <1>same. UNCHANGED <<mutex, conn, connected, dialled>>
    BY DEF Calm
  <1>types. conn \in 0..MaxDials
    BY Apart DEF Types
  <1>open. \A c \in Conns : net'[c].open = net[c].open
    BY DEF Calm, NetCalm
  <1>conn. conn # 0 => net'[conn].open = net[conn].open
    BY <1>types, <1>open DEF Conns
  <1>1. LockInv'
    BY <1>same DEF Calm, PcsCalm, LockInv
  <1>2. \A c \in Conns : c > dialled' => net'[c] = Fresh
    BY <1>same DEF Calm, NetCalm, ConnInv
  <1>3. \A t \in Users : AuthOf(t)' /\ (op'[t].pc = "stopReply" => conn' # 0)
    BY <1>same DEF Calm, PcsCalm, ConnInv, AuthOf
  <1>4. \A r \in Readers : ReauthOf(r)'
    BY <1>same, <1>conn DEF Calm, PcsCalm, ConnInv, ReauthOf, ConnShut
  <1>5. ~panicked' /\ ~connected' => ConnShut' \/ \E t \in Users : op'[t].pc = "auth"
    BY <1>same, <1>conn DEF Calm, PcsCalm, ConnInv, ConnShut
  <1>6. ConnectedIsOpen'
    BY <1>same, <1>conn DEF ConnInv, ConnectedIsOpen
  <1>7. NoLeak'
    BY <1>same, <1>open DEF Calm, PcsCalm, ConnInv, NoLeak
  <1> QED BY <1>1, <1>2, <1>3, <1>4, <1>5, <1>6, <1>7 DEF ConnInv

\* A step that changes one connection, which has been dialled, is calm for the others.
LEMMA Touch ==
  ASSUME Types, NEW k \in Conns, k <= dialled, \A d \in Conns \ {k} : net'[d] = net[d],
         net'[k].open = net[k].open
  PROVE  NetCalm
  <1>1. dialled \in Nat /\ k \in Nat /\ \A c \in Conns : c \in Nat
    BY Apart DEF Types, Conns
  <1> QED BY <1>1 DEF NetCalm

LEMMA Untouched == net' = net => NetCalm
  BY DEF NetCalm

LEMMA TouchDrain ==
  ASSUME Types, NEW k \in Conns, k <= dialled, NEW i \in 0..Len(net[k].stream), net' = Drain(net, k, i)
  PROVE  NetCalm
  <1>1. net \in [Conns -> Net_t] /\ net[k] \in Net_t
    BY DEF Types
  <1>2. \A d \in Conns : d # k => net'[d] = net[d]
    BY <1>1 DEF Drain
  <1>3. net'[k].open = net[k].open
    BY <1>1, DrainFields
  <1> QED BY <1>2, <1>3, Touch

LEMMA TouchBuffered ==
  ASSUME Types, net' = Buffered(net, conn)
  PROVE  NetCalm
  <1>1. net \in [Conns -> Net_t] /\ conn \in 0..MaxDials /\ conn <= dialled
    BY Apart DEF Types
  <1>2. CASE conn = 0
    BY <1>2, Untouched DEF Buffered
  <1>3. CASE conn # 0
    <2>1. conn \in Conns
      BY <1>1, <1>3, Apart DEF Conns
    <2>2. net'[conn] = [net[conn] EXCEPT !.bufs = net[conn].bufs + 1]
          /\ \A d \in Conns \ {conn} : net'[d] = net[d]
      BY <1>1, <1>3, <2>1, Buffers
    <2>3. net'[conn].open = net[conn].open
      BY <1>1, <2>1, <2>2 DEF Net_t
    <2> QED BY <1>1, <2>1, <2>2, <2>3, Touch
  <1> QED BY <1>2, <1>3

LEMMA PanicPcs == Types /\ Panic => PcsCalm
  BY DEF Types, Panic, PcsCalm, Op_t, Rd_t

LEMMA UserPcs ==
  ASSUME NEW t \in Users, \A u \in Users \ {t} : op'[u] = op[u],
         op[t].pc \notin {"auth", "stopReply"}, op'[t].pc \notin {"auth", "stopReply"},
         \A q \in Readers : rd'[q].pc = "reauth" <=> rd[q].pc = "reauth", panicked' = panicked
  PROVE  PcsCalm
  BY DEF PcsCalm

LEMMA ReaderPcs ==
  ASSUME NEW r \in Readers, TurnOf(r), rd[r].pc # "reauth", rd'[r].pc # "reauth", panicked' = panicked
  PROVE  PcsCalm
  BY DEF PcsCalm, TurnOf

LEMMA CalmUser ==
  ASSUME Types, Bounded, NEW t \in Users, IdsInv,
         \/ Invoke(t) \/ Spawn(t) \/ Command(t) \/ CommandReader(t) \/ CommandRead(t) \/ ConnectAlready(t)
  PROVE  Calm
  <1>op. /\ op[t].c \in 0..MaxDials /\ op[t].c <= dialled /\ op[t].buf \in Lines_t
         /\ op[t].then \in {"idle", "spawn", "command"}
    BY DEF Types, Bounded, Op_t, Then_t
  <1>net. net \in [Conns -> Net_t] /\ conn \in 0..MaxDials /\ conn <= dialled
    BY Apart DEF Types
  <1>1. CASE Invoke(t)
    <2>1. PICK m, p : InvokeAs(t, m, p)
      BY <1>1, InvokeShape
    <2>2. /\ \A u \in Users \ {t} : op'[u] = op[u]
          /\ op[t].pc = "idle" /\ op'[t].pc \in {"close", "stop", "connect"}
          /\ UNCHANGED <<mutex, conn, connected, dialled, net, rd, panicked>>
      BY <1>1, <2>1, InvokeMoves
    <2> QED BY <2>2, UserPcs, Untouched DEF Calm
  <1>2. CASE Spawn(t)
    <2>1. UNCHANGED <<mutex, conn, connected, dialled, net, panicked>> /\ Return(t)
          /\ At(op[t].id, "start") /\ op[t].pc = "spawn"
      BY <1>2 DEF Spawn, At, connVars, wireVars
    <2>2. op[t].id \in Readers /\ rd[op[t].id].pc = "unused"
      BY <2>1, Apart DEF IdsInv, Types, Readers
    <2>3. \A q \in Readers : rd'[q].pc = "reauth" <=> rd[q].pc = "reauth"
      BY <2>1, <2>2, AtMoves
    <2>4. (\A u \in Users \ {t} : op'[u] = op[u]) /\ op'[t].pc = "idle"
      BY <2>1, ReturnMoves
    <2> QED BY <2>1, <2>3, <2>4, UserPcs, Untouched DEF Calm
  <1>3. CASE Command(t)
    <2>1. UNCHANGED <<mutex, conn, connected, dialled>> /\ op[t].pc = "command"
      BY <1>3 DEF Command, connVars
    <2>2. CASE Panic
      BY <2>1, <2>2, PanicPcs, Untouched DEF Calm, Panic
    <2>3. CASE conn # 0 /\ (\E cmd \in {"alarms", "start"} : Write(conn, cmd)) /\ Goto(t, "reader")
               /\ UNCHANGED <<rd, panicked>>
      <3>1. conn \in Conns
        BY <2>3, <1>net, Apart DEF Conns
      <3>2. (\A d \in Conns \ {conn} : net'[d] = net[d]) /\ net'[conn].open = net[conn].open
        BY <2>3, <3>1, <1>net DEF Write, Net_t
      <3>3. (\A u \in Users \ {t} : op'[u] = op[u]) /\ op'[t].pc = "reader"
        BY <2>3, GotoMoves
      <3>4. PcsCalm
        BY <2>1, <2>3, <3>3, UserPcs
      <3> QED BY <2>1, <1>net, <3>1, <3>2, <3>4, Touch DEF Calm
    <2>4. CASE Return(t) /\ UNCHANGED <<rd, net, panicked>>
      <3>1. (\A u \in Users \ {t} : op'[u] = op[u]) /\ op'[t].pc = "idle"
        BY <2>4, ReturnMoves
      <3> QED BY <2>1, <2>4, <3>1, UserPcs, Untouched DEF Calm
    <2> QED BY <1>3, <2>2, <2>3, <2>4 DEF Command
  <1>4. CASE CommandReader(t)
    <2>1. UNCHANGED <<mutex, conn, connected, dialled, rd, panicked>> /\ net' = Buffered(net, conn)
          /\ op[t].pc = "reader"
      BY <1>4 DEF CommandReader, connVars
    <2>2. (\A u \in Users \ {t} : op'[u] = op[u]) /\ op'[t].pc = "reply"
      BY <1>4 DEF CommandReader, Types, Op_t
    <2> QED BY <2>1, <2>2, UserPcs, TouchBuffered DEF Calm
  <1>5. CASE CommandRead(t)
    <2>1. UNCHANGED <<mutex, conn, connected, dialled>> /\ op[t].pc \in {"reply", "alarms"}
      BY <1>5 DEF CommandRead, ReadLine, connVars
    <2>2. CASE Panic
      BY <2>1, <2>2, PanicPcs, Untouched DEF Calm, Panic
    <2>3. CASE /\ op[t].c # 0 /\ UNCHANGED <<rd, panicked>>
               /\ \E x \in Reads(op[t].c, op[t].buf) : CommandLine(t, x) /\ net' = Drain(net, op[t].c, x.taken)
      <3>1. op[t].c \in Conns
        BY <2>3, <1>op, Apart DEF Conns
      <3>2. PICK x \in Reads(op[t].c, op[t].buf) : CommandLine(t, x) /\ net' = Drain(net, op[t].c, x.taken)
        BY <2>3
      <3>3. x.taken \in 0..Len(net[op[t].c].stream)
        BY <3>1, <1>op, ReadTypes
      <3>4. NetCalm
        BY <3>1, <3>2, <3>3, <1>op, TouchDrain
      <3>5. (\A u \in Users \ {t} : op'[u] = op[u]) /\ op'[t].pc \in {"idle", "alarms", "connect"}
        BY <3>2, CommandMoves
      <3> QED BY <2>1, <2>3, <3>4, <3>5, UserPcs DEF Calm
    <2>4. CASE Return(t) /\ UNCHANGED <<rd, net, panicked>>
      <3>1. (\A u \in Users \ {t} : op'[u] = op[u]) /\ op'[t].pc = "idle"
        BY <2>4, ReturnMoves
      <3> QED BY <2>1, <2>4, <3>1, UserPcs, Untouched DEF Calm
    <2> QED BY <1>5, <2>2, <2>3, <2>4 DEF CommandRead, ReadLine
  <1>6. CASE ConnectAlready(t)
    <2>1. UNCHANGED <<mutex, conn, connected, dialled, net, rd, panicked>> /\ op[t].pc = "connect"
          /\ Goto(t, op[t].then)
      BY <1>6 DEF ConnectAlready, connVars, wireVars
    <2>2. (\A u \in Users \ {t} : op'[u] = op[u]) /\ op'[t].pc \in {"idle", "spawn", "command"}
      BY <2>1, <1>op, GotoMoves
    <2> QED BY <2>1, <2>2, UserPcs, Untouched DEF Calm
  <1> QED BY <1>1, <1>2, <1>3, <1>4, <1>5, <1>6

LEMMA CalmReader ==
  ASSUME Types, Bounded, NEW r \in Readers,
         ReaderStart(r) \/ ReaderPoll(r) \/ ReaderRead(r) \/ ReaderSend(r) \/ CloseChan(r) \/ Receive(r)
  PROVE  Calm
  <1>rd. rd[r].c \in 0..MaxDials /\ rd[r].c <= dialled /\ rd[r].buf \in Lines_t /\ rd \in [Readers -> Rd_t]
    BY DEF Types, Bounded, Rd_t
  <1>same. UNCHANGED <<mutex, conn, connected, dialled>>
    BY DEF ReaderStart, ReaderPoll, ReaderRead, ReaderSend, CloseChan, Receive, connVars, wireVars
  <1>1. CASE ReaderStart(r)
    <2>1. rd'[r].pc = "loop" /\ rd[r].pc = "start" /\ panicked' = panicked /\ net' = Buffered(net, conn)
      BY <1>1, <1>rd DEF ReaderStart, Rd_t
    <2>2. Panic \/ TurnOf(r)
      BY <1>1, ReaderMoves DEF ReaderStep
    <2>3. PcsCalm
      BY <2>1, <2>2, ReaderPcs, PanicPcs
    <2> QED BY <1>same, <2>1, <2>3, TouchBuffered DEF Calm
  <1>2. CASE ReaderPoll(r) \/ ReaderSend(r) \/ CloseChan(r)
    <2>1. rd[r].pc # "reauth" /\ UNCHANGED <<panicked, net>>
      BY <1>2 DEF ReaderPoll, ReaderSend, CloseChan, wireVars
    <2>2. rd'[r].pc # "reauth"
      <3>1. ASSUME NEW p \in {"loop", "close"}, rd' = [rd EXCEPT ![r].pc = p, ![r].hand = <<>>]
            PROVE  rd'[r].pc = p
        BY <3>1, <1>rd DEF Rd_t
      <3>2. CASE ReaderPoll(r)
        BY <3>2, AtMoves DEF ReaderPoll
      <3>3. CASE ReaderSend(r)
        BY <3>1, <3>3 DEF ReaderSend
      <3>4. CASE CloseChan(r)
        BY <3>4, <1>rd DEF CloseChan, Rd_t
      <3> QED BY <1>2, <3>2, <3>3, <3>4
    <2>3. Panic \/ TurnOf(r)
      BY <1>2, ReaderMoves DEF ReaderStep
    <2>4. PcsCalm
      BY <2>1, <2>2, <2>3, ReaderPcs, PanicPcs
    <2> QED BY <1>same, <2>1, <2>4, Untouched DEF Calm
  <1>3. CASE ReaderRead(r)
    <2>1. rd[r].pc = "read"
      BY <1>3 DEF ReaderRead
    <2>2. CASE Panic
      BY <1>same, <2>2, PanicPcs, Untouched DEF Calm, Panic
    <2>3. ASSUME NEW x \in Reads(rd[r].c, rd[r].buf), rd[r].c # 0, NEW p \in {"loop", "send"}, NEW h,
                 rd' = [rd EXCEPT ![r] = [rd[r] EXCEPT !.buf = x.rest, !.pc = p, !.hand = h]],
                 net' = Drain(net, rd[r].c, x.taken), UNCHANGED <<op, panicked>>
          PROVE  Calm
      <3>1. rd[r].c \in Conns
        BY <2>3, <1>rd, Apart DEF Conns
      <3>2. x.taken \in 0..Len(net[rd[r].c].stream)
        BY <3>1, <1>rd, ReadTypes
      <3>3. NetCalm
        BY <2>3, <3>1, <3>2, <1>rd, TouchDrain
      <3>4. rd'[r].pc = p /\ \A q \in Readers \ {r} : rd'[q] = rd[q]
        BY <2>3, <1>rd DEF Rd_t
      <3>5. PcsCalm
        BY <2>1, <2>3, <3>4 DEF PcsCalm
      <3> QED BY <1>same, <3>3, <3>5 DEF Calm
    <2>4. CASE (\E p \in {"close", "reconnect"} : At(r, p)) /\ UNCHANGED <<op, net, panicked>>
      <3>1. rd'[r].pc # "reauth" /\ \A q \in Readers \ {r} : rd'[q] = rd[q]
        BY <2>4, AtMoves
      <3>2. PcsCalm
        BY <2>1, <2>4, <3>1 DEF PcsCalm
      <3> QED BY <1>same, <2>4, <3>2, Untouched DEF Calm
    <2> QED BY <1>3, <2>2, <2>3, <2>4 DEF ReaderRead
  <1>4. CASE Receive(r)
    BY <1>4, <1>same, Untouched DEF Receive, Calm, PcsCalm, wireVars
  <1> QED BY <1>1, <1>2, <1>3, <1>4

LEMMA CalmNet ==
  ASSUME Types, NEW c \in Conns, Environment(c) \/ Expire(c)
  PROVE  Calm
  <1>1. PICK v \in Net_t : NetStep(c, v)
    BY NetShape
  <1>2. net[c].open /\ net'[c].open = net[c].open /\ \A d \in Conns \ {c} : net'[d] = net[d]
    BY <1>1 DEF NetStep, Types
  <1>3. net[c] # Fresh
    BY <1>2 DEF Fresh
  <1>4. NetCalm
    BY <1>2, <1>3 DEF NetCalm
  <1> QED BY <1>1, <1>4 DEF NetStep, Calm, PcsCalm

LEMMA CalmAside == Aside => Calm
  BY DEF Aside, Calm, NetCalm, PcsCalm, connVars, wireVars

\* What is known while the mutex is free, and while somebody holds it.
LEMMA FreeMutex ==
  ASSUME Types, LockInv, ConnInv, mutex = NoOne
  PROVE  /\ \A u \in Users : op[u].pc \notin {"auth", "stopReply"}
         /\ \A q \in Readers : rd[q].pc # "reauth"
         /\ ~panicked => \A c \in Conns : net[c].open => c = conn
         /\ ~panicked /\ ~connected => ConnShut
  <1>1. \A u \in Users : op[u].pc \notin {"auth", "stopReply"}
    BY Apart DEF LockInv
  <1>2. \A q \in Readers : rd[q].pc # "reauth"
    BY Apart DEF LockInv
  <1> QED BY <1>1, <1>2 DEF ConnInv, NoLeak

LEMMA HeldMutex ==
  ASSUME Types, LockInv, ConnInv, NEW t \in Users, mutex = t
  PROVE  /\ \A u \in Users : op[u].pc \in {"auth", "stopReply"} => u = t
         /\ \A q \in Readers : rd[q].pc # "reauth"
         /\ ~panicked => \A c \in Conns : net[c].open => c = conn
  <1>1. \A q \in Readers : q # t
    BY Apart
  <1>2. \A q \in Readers : rd[q].pc # "reauth"
    BY <1>1 DEF LockInv
  <1> QED BY <1>2 DEF LockInv, ConnInv, NoLeak

\* Close with the mutex free, by a user or by a goroutine
LEMMA ConnClose ==
  ASSUME Types, LockInv, ConnInv, mutex = NoOne, CloseLocked,
         UNCHANGED <<mutex, conn, dialled, panicked>>,
         \A u \in Users : op'[u].pc \notin {"auth", "stopReply"},
         \A q \in Readers : rd'[q].pc # "reauth"
  PROVE  LockInv' /\ ConnInv'
  <1>net. net \in [Conns -> Net_t] /\ conn \in 0..MaxDials /\ dialled \in 0..MaxDials /\ conn <= dialled
          /\ MaxDials \in Nat /\ \A c \in Conns : c \in Nat
    BY Apart DEF Types, Conns
  <1>free. /\ ~panicked => \A c \in Conns : net[c].open => c = conn
           /\ ~panicked /\ ~connected => ConnShut
    BY FreeMutex
  <1>1. LockInv'
    BY DEF LockInv
  <1>2. CASE connected /\ net' = Shut(net, conn) /\ connected' = FALSE
    <2>1. conn \in Conns
      BY <1>2, <1>net DEF ConnInv, ConnectedIsOpen, Conns
    <2>2. ~net'[conn].open /\ \A d \in Conns \ {conn} : net'[d] = net[d]
      <3>1. Shut(net, conn)[conn] = [net[conn] EXCEPT !.open = FALSE, !.expired = FALSE, !.peer = "up",
                                                      !.stream = <<>>, !.req = <<>>]
            /\ \A d \in Conns : d # conn => Shut(net, conn)[d] = net[d]
        BY <1>net, <2>1, Shuts
      <3> QED BY <1>net, <1>2, <2>1, <3>1 DEF Net_t
    <2>3. \A c \in Conns : c > dialled' => net'[c] = Fresh
      BY <2>2, <1>net DEF ConnInv
    <2>4. NoLeak'
      BY <2>2, <1>free DEF NoLeak
    <2>5. ConnShut' /\ ConnectedIsOpen'
      BY <1>2, <2>2 DEF ConnShut, ConnectedIsOpen
    <2> QED BY <1>1, <1>2, <2>3, <2>4, <2>5 DEF ConnInv, AuthOf, ReauthOf
  <1>3. CASE ~connected /\ net' = net /\ connected' = connected
    <2>1. NoLeak'
      BY <1>3, <1>free DEF NoLeak
    <2>2. ~panicked' => ConnShut'
      BY <1>3, <1>free DEF ConnShut
    <2>3. ConnectedIsOpen'
      BY <1>3 DEF ConnectedIsOpen
    <2>4. \A c \in Conns : c > dialled' => net'[c] = Fresh
      BY <1>3 DEF ConnInv
    <2> QED BY <1>1, <1>3, <2>1, <2>2, <2>3, <2>4 DEF ConnInv, AuthOf, ReauthOf
  <1> QED BY <1>2, <1>3, CloseShape

LEMMA ConnUser ==
  ASSUME Types, Bounded, LockInv, ConnInv, NEW t \in Users,
         ConnectDial(t) \/ ConnectAuth(t) \/ Close(t) \/ Stop(t) \/ StopReply(t)
  PROVE  LockInv' /\ ConnInv'
  <1>net. net \in [Conns -> Net_t] /\ conn \in 0..MaxDials /\ dialled \in 0..MaxDials /\ conn <= dialled
          /\ MaxDials \in Nat /\ \A c \in Conns : c \in Nat
    BY Apart DEF Types, Conns
  <1>op. op[t].then \in {"idle", "spawn", "command"}
    BY DEF Types, Op_t, Then_t
  <1>1. CASE ConnectDial(t)
    <2>1. mutex = NoOne /\ ~connected /\ UNCHANGED <<connected, rd, panicked>>
      BY <1>1 DEF ConnectDial
    <2>free. /\ \A u \in Users : op[u].pc \notin {"auth", "stopReply"}
             /\ \A q \in Readers : rd[q].pc # "reauth"
             /\ ~panicked => \A c \in Conns : ~net[c].open
      <3>1. ~panicked => (\A c \in Conns : net[c].open => c = conn) /\ ConnShut
        BY <2>1, FreeMutex
      <3>2. \A c \in Conns : c # 0
        BY <1>net DEF Conns
      <3> QED BY <2>1, <3>1, <3>2, FreeMutex DEF ConnShut
    <2>2. CASE /\ dialled < MaxDials /\ dialled' = dialled + 1 /\ conn' = dialled + 1
               /\ net' = [net EXCEPT ![dialled + 1] = Dial] /\ mutex' = t /\ Goto(t, "auth")
      <3>1. op'[t].pc = "auth" /\ \A u \in Users \ {t} : op'[u] = op[u]
        BY <2>2, GotoMoves
      <3>2. LockInv'
        BY <2>1, <2>2, <2>free, <3>1 DEF LockInv
      <3>3. \A c \in Conns : c > dialled' => net'[c] = Fresh
        BY <2>2, <1>net DEF ConnInv
      <3>4. \A u \in Users : AuthOf(u)' /\ op'[u].pc # "stopReply"
        BY <2>1, <2>2, <2>free, <3>1, <1>net DEF AuthOf
      <3>5. NoLeak'
        BY <2>1, <2>2, <2>free, <1>net DEF NoLeak
      <3> QED BY <2>1, <2>free, <3>1, <3>2, <3>3, <3>4, <3>5 DEF ConnInv, ReauthOf, ConnectedIsOpen
    <2>3. CASE conn' = 0 /\ Return(t) /\ UNCHANGED <<mutex, dialled, net>>
      <3>1. op'[t].pc = "idle" /\ \A u \in Users \ {t} : op'[u] = op[u]
        BY <2>3, ReturnMoves
      <3>2. \A u \in Users : op'[u].pc \notin {"auth", "stopReply"}
        BY <2>free, <3>1
      <3>3. LockInv'
        BY <2>1, <2>free, <3>2 DEF LockInv
      <3>4. \A c \in Conns : c > dialled' => net'[c] = Fresh
        BY <2>3 DEF ConnInv
      <3>5. NoLeak'
        BY <2>1, <2>3, <2>free DEF NoLeak
      <3> QED BY <2>1, <2>3, <2>free, <3>2, <3>3, <3>4, <3>5 DEF ConnInv, AuthOf, ReauthOf, ConnectedIsOpen, ConnShut
    <2> QED BY <1>1, <2>2, <2>3 DEF ConnectDial, wireVars
  <1>2. CASE ConnectAuth(t)
    <2>1. op[t].pc = "auth" /\ mutex' = NoOne /\ UNCHANGED <<conn, dialled, rd, panicked>>
      BY <1>2 DEF ConnectAuth
    <2>2. mutex = t /\ ~connected /\ conn \in Conns /\ conn = dialled
      BY <2>1, <1>net DEF LockInv, ConnInv, AuthOf, Conns
    <2>held. /\ \A u \in Users : op[u].pc \in {"auth", "stopReply"} => u = t
             /\ \A q \in Readers : rd[q].pc # "reauth"
             /\ ~panicked => \A c \in Conns : net[c].open => c = conn
      BY <2>2, HeldMutex
    <2>fin. ASSUME \A d \in Conns \ {conn} : net'[d] = net[d], ConnectedIsOpen',
                   op'[t].pc \notin {"auth", "stopReply"}, \A u \in Users \ {t} : op'[u] = op[u],
                   connected' \/ ~net'[conn].open
            PROVE  LockInv' /\ ConnInv'
      <3>1. \A u \in Users : op'[u].pc \notin {"auth", "stopReply"}
        BY <2>held, <2>fin
      <3>2. LockInv'
        BY <2>1, <2>held, <3>1 DEF LockInv
      <3>3. \A c \in Conns : c > dialled' => net'[c] = Fresh
        BY <2>1, <2>2, <2>fin, <1>net DEF ConnInv
      <3>4. NoLeak'
        BY <2>1, <2>held, <2>fin DEF NoLeak
      <3>5. connected' \/ ConnShut'
        BY <2>1, <2>fin DEF ConnShut
      <3> QED BY <2>1, <2>held, <2>fin, <3>1, <3>2, <3>3, <3>4, <3>5 DEF ConnInv, AuthOf, ReauthOf
    <2>3. CASE \E k \in 1..Len(net[conn].stream) :
                 AuthReply(conn, k) /\ net' = ReadBeside(Drain(net, conn, k), conn) /\ connected' = TRUE
                   /\ Goto(t, op[t].then)
      <3>1. PICK k \in 0..Len(net[conn].stream) : AuthReply(conn, k) /\ net' = ReadBeside(Drain(net, conn, k), conn)
        BY <2>2, <2>3, <1>net, LenProperties DEF Net_t, Lines_t
      <3>2. /\ Drain(net, conn, k) \in [Conns -> Net_t]
            /\ Drain(net, conn, k)[conn].open = net[conn].open
            /\ \A d \in Conns : d # conn => Drain(net, conn, k)[d] = net[d]
        BY ZenonT(60), <1>net, <2>2, Drained, DrainFields
      <3>3. /\ net'[conn].open = net[conn].open
            /\ \A d \in Conns : d # conn => net'[d] = net[d]
        <4> DEFINE m == Drain(net, conn, k)
        <4>1. /\ ReadBeside(m, conn)[conn] =
                   [m[conn] EXCEPT !.bufs = IF m[conn].bufs = 0 THEN 0 ELSE m[conn].bufs + 1]
              /\ \A d \in Conns : d # conn => ReadBeside(m, conn)[d] = m[d]
          BY <3>2, <2>2, Beside
        <4>2. m[conn] \in Net_t
          BY <3>2, <2>2
        <4> HIDE DEF m
        <4>3. ReadBeside(m, conn)[conn].open = m[conn].open
          BY <4>1, <4>2 DEF Net_t
        <4> QED BY <3>1, <3>2, <4>1, <4>3 DEF m
      <3>4. net'[conn].open
        BY <3>1, <3>3 DEF AuthReply, Readable
      <3>5. op'[t].pc \in {"idle", "spawn", "command"} /\ \A u \in Users \ {t} : op'[u] = op[u]
        BY <2>3, <1>op, GotoMoves
      <3>6. ConnectedIsOpen'
        BY <2>1, <2>2, <3>4, <1>net DEF ConnectedIsOpen, Conns
      <3> QED BY <2>3, <3>3, <3>5, <3>6, <2>fin
    <2>4. CASE net' = Shut(net, conn) /\ Return(t) /\ connected' = connected
      <3>1. ~net'[conn].open /\ \A d \in Conns \ {conn} : net'[d] = net[d]
        <4>1. Shut(net, conn)[conn] = [net[conn] EXCEPT !.open = FALSE, !.expired = FALSE, !.peer = "up",
                                                        !.stream = <<>>, !.req = <<>>]
              /\ \A d \in Conns : d # conn => Shut(net, conn)[d] = net[d]
          BY <1>net, <2>2, Shuts
        <4> QED BY <1>net, <2>2, <2>4, <4>1 DEF Net_t
      <3>2. op'[t].pc = "idle" /\ \A u \in Users \ {t} : op'[u] = op[u]
        BY <2>4, ReturnMoves
      <3>3. ConnectedIsOpen'
        BY <2>2, <2>4 DEF ConnectedIsOpen
      <3> QED BY <3>1, <3>2, <3>3, <2>fin
    <2> QED BY <1>2, <2>3, <2>4 DEF ConnectAuth
  <1>3. CASE Close(t)
    <2>1. mutex = NoOne /\ CloseLocked /\ UNCHANGED <<mutex, conn, dialled, rd, panicked>> /\ Return(t)
      BY <1>3 DEF Close
    <2>2. (\A u \in Users : op[u].pc \notin {"auth", "stopReply"}) /\ \A q \in Readers : rd[q].pc # "reauth"
      BY <2>1, FreeMutex
    <2>3. op'[t].pc = "idle" /\ \A u \in Users \ {t} : op'[u] = op[u]
      BY <2>1, ReturnMoves
    <2> QED BY <2>1, <2>2, <2>3, ConnClose
  <1>4. CASE Stop(t)
    <2>1. mutex = NoOne /\ UNCHANGED <<conn, connected, dialled, rd, panicked>>
      BY <1>4 DEF Stop, connVars
    <2>free. /\ \A u \in Users : op[u].pc \notin {"auth", "stopReply"}
             /\ \A q \in Readers : rd[q].pc # "reauth"
             /\ ~panicked => \A c \in Conns : net[c].open => c = conn
      BY <2>1, FreeMutex
    <2>2. CASE Return(t) /\ UNCHANGED <<mutex, net>>
      <3>1. op'[t].pc = "idle" /\ \A u \in Users \ {t} : op'[u] = op[u]
        BY <2>2, ReturnMoves
      <3>2. PcsCalm
        BY <2>1, <2>free, <3>1, UserPcs
      <3> QED BY <2>1, <2>2, <3>2, Untouched, CalmConn DEF Calm
    <2>3. CASE /\ connected /\ net' = Buffered([net EXCEPT ![conn].req = Append(@, "stop")], conn)
               /\ mutex' = t /\ Goto(t, "stopReply")
      <3>1. conn \in Conns
        BY <2>3, <1>net DEF ConnInv, ConnectedIsOpen, Conns
      <3>2. net'[conn].open = net[conn].open /\ \A d \in Conns \ {conn} : net'[d] = net[d]
        <4> DEFINE m == [net EXCEPT ![conn].req = Append(@, "stop")]
        <4>1. m \in [Conns -> Net_t]
          BY <1>net, <3>1, Appends
        <4>2. m[conn].open = net[conn].open /\ \A d \in Conns \ {conn} : m[d] = net[d]
          BY <1>net, <3>1 DEF Net_t
        <4> HIDE DEF m
        <4>3. Buffered(m, conn)[conn] = [m[conn] EXCEPT !.bufs = m[conn].bufs + 1]
              /\ \A d \in Conns : d # conn => Buffered(m, conn)[d] = m[d]
          BY <1>net, <3>1, <4>1, Buffers DEF Conns
        <4>4. Buffered(m, conn)[conn].open = m[conn].open
          BY <3>1, <4>1, <4>3 DEF Net_t
        <4> QED BY <2>3, <4>2, <4>3, <4>4 DEF m
      <3>3. NetCalm
        BY <1>net, <3>1, <3>2, Touch
      <3>4. op'[t].pc = "stopReply" /\ \A u \in Users \ {t} : op'[u] = op[u]
        BY <2>3, GotoMoves
      <3>5. LockInv'
        BY <2>1, <2>3, <2>free, <3>4 DEF LockInv
      <3>6. \A c \in Conns : c > dialled' => net'[c] = Fresh
        BY <2>1, <3>3 DEF NetCalm, ConnInv
      <3>7. NoLeak' /\ ConnectedIsOpen'
        BY <2>1, <2>3, <2>free, <3>1, <3>2 DEF NoLeak, ConnectedIsOpen, ConnInv
      <3>8. conn' # 0
        BY <2>1, <3>1, <1>net DEF Conns
      <3>9. \A u \in Users : op'[u].pc # "auth"
        BY <2>free, <3>4
      <3> QED BY <2>1, <2>3, <2>free, <3>5, <3>6, <3>7, <3>8, <3>9 DEF ConnInv, AuthOf, ReauthOf
    <2> QED BY <1>4, <2>2, <2>3 DEF Stop
  <1>5. CASE StopReply(t)
    <2>1. op[t].pc = "stopReply" /\ mutex' = NoOne /\ Return(t)
          /\ UNCHANGED <<conn, connected, dialled, rd, panicked>>
      BY <1>5 DEF StopReply, connVars
    <2>2. mutex = t /\ conn \in Conns /\ <<>> \in Lines_t
      BY <2>1, <1>net, EmptySeq DEF LockInv, ConnInv, Conns, Lines_t
    <2>held. /\ \A u \in Users : op[u].pc \in {"auth", "stopReply"} => u = t
             /\ \A q \in Readers : rd[q].pc # "reauth"
             /\ ~panicked => \A c \in Conns : net[c].open => c = conn
      BY <2>2, HeldMutex
    <2>3. op'[t].pc = "idle" /\ \A u \in Users \ {t} : op'[u] = op[u]
      BY <2>1, ReturnMoves
    <2>4. NetCalm
      <3>1. ASSUME NEW x \in Reads(conn, <<>>), net' = Drain(net, conn, x.taken) PROVE NetCalm
        BY <1>net, <2>2, <3>1, ReadTypes, TouchDrain
      <3> QED BY <1>5, <3>1, Untouched DEF StopReply
    <2>5. \A u \in Users : op'[u].pc \notin {"auth", "stopReply"}
      BY <2>held, <2>3
    <2>6. LockInv'
      BY <2>1, <2>held, <2>5 DEF LockInv
    <2>7. \A c \in Conns : c > dialled' => net'[c] = Fresh
      BY <2>1, <2>4 DEF NetCalm, ConnInv
    <2>8. NoLeak' /\ ConnectedIsOpen'
      BY <2>1, <2>2, <2>4, <2>held DEF NoLeak, ConnectedIsOpen, ConnInv, NetCalm
    <2>9. ~panicked' /\ ~connected' => ConnShut'
      BY <2>1, <2>2, <2>4, <2>held DEF ConnShut, ConnInv, NetCalm
    <2> QED BY <2>1, <2>held, <2>5, <2>6, <2>7, <2>8, <2>9 DEF ConnInv, AuthOf, ReauthOf
  <1> QED BY <1>1, <1>2, <1>3, <1>4, <1>5

LEMMA ConnReader ==
  ASSUME Types, Bounded, LockInv, ConnInv, NEW r \in Readers,
         Reconnect(r) \/ ReconnectAuth(r) \/ ReaderClose(r)
  PROVE  LockInv' /\ ConnInv'
  <1>net. net \in [Conns -> Net_t] /\ conn \in 0..MaxDials /\ dialled \in 0..MaxDials /\ conn <= dialled
          /\ MaxDials \in Nat /\ \A c \in Conns : c \in Nat /\ c # 0
    BY Apart DEF Types, Conns
  <1>1. CASE Reconnect(r)
    <2>1. mutex = NoOne /\ connected' = FALSE /\ UNCHANGED <<conn, op, panicked>>
      BY <1>1 DEF Reconnect
    <2>free. /\ \A u \in Users : op[u].pc \notin {"auth", "stopReply"}
             /\ \A q \in Readers : rd[q].pc # "reauth"
             /\ ~panicked => \A c \in Conns : net[c].open => c = conn
      BY <2>1, FreeMutex
    <2>2. /\ OldClosed \in [Conns -> Net_t]
          /\ conn # 0 => ~OldClosed[conn].open
          /\ \A d \in Conns : d # conn => OldClosed[d] = net[d]
      <3>1. CASE conn = 0
        BY <3>1, <1>net DEF OldClosed
      <3>2. CASE conn # 0
        <4>1. conn \in Conns
          BY <3>2, <1>net DEF Conns
        <4>2. /\ Shut(net, conn) \in [Conns -> Net_t]
              /\ Shut(net, conn)[conn] = [net[conn] EXCEPT !.open = FALSE, !.expired = FALSE, !.peer = "up",
                                                           !.stream = <<>>, !.req = <<>>]
              /\ \A d \in Conns : d # conn => Shut(net, conn)[d] = net[d]
          BY <1>net, <4>1, Shuts
        <4> QED BY <1>net, <3>2, <4>1, <4>2 DEF OldClosed, Net_t
      <3> QED BY <3>1, <3>2
    <2>3. ~panicked => \A c \in Conns : ~OldClosed[c].open
      BY <2>free, <2>2, <1>net
    <2>4. CASE /\ dialled < MaxDials /\ dialled' = dialled + 1
               /\ net' = [OldClosed EXCEPT ![dialled + 1] = Dial] /\ mutex' = r /\ At(r, "reauth")
      <3>1. rd'[r].pc = "reauth" /\ \A q \in Readers \ {r} : rd'[q] = rd[q]
        BY <2>4, AtMoves
      <3>2. \A d \in Conns \ {dialled + 1} : net'[d] = OldClosed[d]
        BY <2>2, <2>4
      <3>3. LockInv'
        BY <2>1, <2>4, <2>free, <3>1 DEF LockInv
      <3>4. \A c \in Conns : c > dialled' => net'[c] = Fresh
        BY <2>1, <2>2, <2>4, <3>2, <1>net DEF ConnInv
      <3>5. ConnShut' /\ conn' # dialled'
        BY <2>1, <2>2, <2>4, <3>2, <1>net DEF ConnShut, Conns
      <3>6. NoLeak'
        BY <2>1, <2>3, <2>4, <3>1, <3>2 DEF NoLeak
      <3> QED BY <2>1, <2>free, <3>3, <3>4, <3>5, <3>6 DEF ConnInv, AuthOf, ReauthOf, ConnectedIsOpen
    <2>5. CASE net' = OldClosed /\ At(r, "loop") /\ UNCHANGED <<mutex, dialled>>
      <3>1. rd'[r].pc = "loop" /\ \A q \in Readers \ {r} : rd'[q] = rd[q]
        BY <2>5, AtMoves
      <3>2. \A q \in Readers : rd'[q].pc # "reauth"
        BY <2>free, <3>1
      <3>3. LockInv'
        BY <2>1, <2>free, <3>2 DEF LockInv
      <3>4. \A c \in Conns : c > dialled' => net'[c] = Fresh
        BY <2>1, <2>2, <2>5, <1>net DEF ConnInv
      <3>5. ConnShut'
        BY <2>1, <2>2, <2>5 DEF ConnShut
      <3>6. NoLeak'
        BY <2>1, <2>3, <2>5 DEF NoLeak
      <3> QED BY <2>1, <2>free, <3>2, <3>3, <3>4, <3>5, <3>6 DEF ConnInv, AuthOf, ReauthOf, ConnectedIsOpen
    <2> QED BY <1>1, <2>4, <2>5 DEF Reconnect
  <1>2. CASE ReconnectAuth(r)
    <2>1. rd[r].pc = "reauth" /\ mutex' = NoOne /\ At(r, "loop") /\ UNCHANGED <<dialled, op, panicked>>
      BY <1>2 DEF ReconnectAuth
    <2>2. mutex = r /\ ~connected /\ conn # dialled /\ ConnShut
      BY <2>1 DEF LockInv, ConnInv, ReauthOf
    <2>3. dialled \in Conns
      BY <2>2, <1>net DEF Conns
    <2>4. \A u \in Users : op[u].pc \notin {"auth", "stopReply"}
      BY <2>2, Apart DEF LockInv
    <2>5. \A q \in Readers \ {r} : rd[q].pc # "reauth"
      BY <2>2 DEF LockInv
    <2>6. rd'[r].pc = "loop" /\ \A q \in Readers \ {r} : rd'[q] = rd[q]
      BY <2>1, AtMoves
    <2>7. \A q \in Readers : rd'[q].pc # "reauth"
      BY <2>5, <2>6
    <2>8. ~panicked => \A c \in Conns : net[c].open => c = dialled
      BY <2>2, <1>net DEF ConnInv, NoLeak, ConnShut
    <2>9. LockInv'
      BY <2>1, <2>4, <2>7 DEF LockInv
    <2>10. CASE \E k \in 1..Len(net[dialled].stream) :
                  AuthReply(dialled, k) /\ net' = Drain(net, dialled, k) /\ conn' = dialled /\ connected' = TRUE
      <3>1. PICK k \in 0..Len(net[dialled].stream) : AuthReply(dialled, k) /\ net' = Drain(net, dialled, k)
        BY <2>3, <2>10, <1>net, LenProperties DEF Net_t, Lines_t
      <3>2. NetCalm
        BY <1>net, <2>3, <3>1, TouchDrain
      <3>3. net'[dialled].open
        BY <2>3, <3>1, <3>2 DEF NetCalm, AuthReply, Readable
      <3>4. \A c \in Conns : c > dialled' => net'[c] = Fresh
        BY <2>1, <3>2 DEF NetCalm, ConnInv
      <3>5. NoLeak' /\ ConnectedIsOpen'
        BY <2>1, <2>3, <2>8, <2>10, <3>2, <3>3, <1>net DEF NoLeak, ConnectedIsOpen, NetCalm
      <3> QED BY <2>1, <2>4, <2>7, <2>9, <2>10, <3>4, <3>5 DEF ConnInv, AuthOf, ReauthOf
    <2>11. CASE net' = Shut(net, dialled) /\ UNCHANGED <<conn, connected>>
      <3>1. ~net'[dialled].open /\ \A d \in Conns \ {dialled} : net'[d] = net[d]
        <4>1. Shut(net, dialled)[dialled] = [net[dialled] EXCEPT !.open = FALSE, !.expired = FALSE, !.peer = "up",
                                                                 !.stream = <<>>, !.req = <<>>]
              /\ \A d \in Conns : d # dialled => Shut(net, dialled)[d] = net[d]
          BY <1>net, <2>3, Shuts
        <4> QED BY <1>net, <2>3, <2>11, <4>1 DEF Net_t
      <3>2. \A c \in Conns : c > dialled' => net'[c] = Fresh
        BY <2>1, <3>1, <1>net DEF ConnInv
      <3>3. NoLeak'
        BY <2>1, <2>8, <3>1 DEF NoLeak
      <3>4. ConnShut' /\ ConnectedIsOpen'
        BY <2>2, <2>11, <3>1, <1>net DEF ConnShut, ConnectedIsOpen, Conns
      <3> QED BY <2>1, <2>4, <2>7, <2>9, <2>11, <3>2, <3>3, <3>4 DEF ConnInv, AuthOf, ReauthOf
    <2> QED BY <1>2, <2>10, <2>11 DEF ReconnectAuth, connVars
  <1>3. CASE ReaderClose(r)
    <2>1. mutex = NoOne /\ CloseLocked /\ UNCHANGED <<mutex, conn, dialled, op, panicked>> /\ At(r, "closeChan")
      BY <1>3 DEF ReaderClose
    <2>2. (\A u \in Users : op[u].pc \notin {"auth", "stopReply"}) /\ \A q \in Readers : rd[q].pc # "reauth"
      BY <2>1, FreeMutex
    <2>3. rd'[r].pc = "closeChan" /\ \A q \in Readers \ {r} : rd'[q] = rd[q]
      BY <2>1, AtMoves
    <2> QED BY <2>1, <2>2, <2>3, ConnClose
  <1> QED BY <1>1, <1>2, <1>3

LEMMA ConnStep ==
  ASSUME Types, Bounded, IdsInv, LockInv, ConnInv, Step
  PROVE  LockInv' /\ ConnInv'
  <1>1. ASSUME NEW t \in Users, Invoke(t) \/ UserStep(t) \/ UserLock(t) PROVE LockInv' /\ ConnInv'
    BY <1>1, CalmUser, CalmConn, ConnUser DEF UserStep, UserLock
  <1>2. ASSUME NEW r \in Readers, ReaderStep(r) \/ ReaderLock(r) \/ Receive(r) PROVE LockInv' /\ ConnInv'
    BY <1>2, CalmReader, CalmConn, ConnReader DEF ReaderStep, ReaderLock
  <1>3. ASSUME NEW c \in Conns, Environment(c) \/ Expire(c) PROVE LockInv' /\ ConnInv'
    BY <1>3, CalmNet, CalmConn
  <1> QED BY <1>1, <1>2, <1>3, CalmAside, CalmConn, StepCases

-----------------------------------------------------------------------------
(* What Close leaves                                                       *)

\* Nobody connects, and no goroutine ends.
LEMMA ClosedCalm ==
  ASSUME ClosedInv,
         \A u \in Users : op'[u].m = op[u].m /\ (op'[u].pc \in ConnectingAt => op[u].pc \in ConnectingAt),
         ~panicked' => ~panicked,
         ~panicked' => \A u \in Users : op[u].pc = "idle" => op'[u].pc = "idle",
         userClosed' = userClosed,
         ~panicked' => \A q \in Readers : rd'[q].pc \in Ended_t => rd[q].pc \in Ended_t,
         connected' = TRUE => connected
  PROVE  ClosedInv'
  BY DEF ClosedInv

LEMMA ClosedStep ==
  ASSUME Types, Bounded, IdsInv, LockInv, ConnInv, ClosedInv, Step
  PROVE  ClosedInv'
  <1>types. connected \in BOOLEAN /\ panicked \in BOOLEAN
    BY DEF Types
  <1>panic. ASSUME Panic PROVE ClosedInv'
    <2>1. panicked' /\ \A u \in Users : op'[u].pc = "dead"
      BY <1>panic DEF Panic, Types, Op_t
    <2> QED BY <2>1 DEF ClosedInv, ConnectingAt
  <1>1. ASSUME NEW t \in Users, Invoke(t) PROVE ClosedInv'
    <2>1. PICK m, p : InvokeAs(t, m, p)
      BY <1>1, InvokeShape
    <2>2. /\ \A u \in Users \ {t} : op'[u] = op[u]
          /\ op'[t].pc = p /\ op'[t].m = m /\ UNCHANGED <<connected, rd, panicked>>
      BY <1>1, <2>1, InvokeMoves
    <2>3. userClosed' = (userClosed /\ m \notin Connecting) /\ (p = "connect" => m \in Connecting)
          /\ p \in {"close", "stop", "connect"}
      BY <2>1 DEF InvokeAs
    <2> QED BY <2>2, <2>3 DEF ClosedInv, ConnectingAt
  <1>2. ASSUME NEW t \in Users, UserStep(t) \/ UserLock(t), ~ConnectAuth(t), ~Close(t), ~Spawn(t)
        PROVE  ClosedInv'
    <2>1. connected' = connected /\ userClosed' = userClosed /\ (Panic \/ rd' = rd)
      BY <1>2 DEF UserStep, UserLock, Command, CommandReader, CommandRead, ReadLine, StopReply,
                  ConnectAlready, ConnectDial, Stop, connVars
    <2>2. CASE Panic
      BY <2>1, <2>2, <1>panic
    <2>3. CASE ~Panic
      <3>1. panicked' = panicked /\ MoveOf(t)
        BY <1>2, <2>3, Panics, UserMoves
      <3> QED BY <2>1, <2>3, <3>1, ClosedCalm DEF MoveOf, Busy
    <2> QED BY <2>2, <2>3
  <1>3. ASSUME NEW t \in Users, ConnectAuth(t) PROVE ClosedInv'
    <2>1. op[t].pc = "auth" /\ userClosed' = userClosed /\ rd' = rd /\ panicked' = panicked
      BY <1>3 DEF ConnectAuth
    <2>2. MoveOf(t)
      <3>1. op'[t].pc # "dead"
        <4>1. op[t].then \in {"idle", "spawn", "command"}
          BY DEF Types, Op_t, Then_t
        <4> QED BY <1>3, <4>1, GotoMoves, ReturnMoves DEF ConnectAuth
      <3>2. ~Panic
        BY <3>1 DEF Panic, Types, Op_t
      <3> QED BY <1>3, <3>2, UserMoves DEF UserStep
    <2>3. op[t].m \in Connecting
      BY <2>1 DEF ClosedInv, ConnectingAt
    <2>4. userClosed => panicked
      BY <2>1, <2>3, <1>types DEF ClosedInv
    <2> QED BY <2>1, <2>2, <2>4 DEF ClosedInv, MoveOf, Busy
  <1>4. ASSUME NEW t \in Users, Close(t) PROVE ClosedInv'
    <2>1. rd' = rd /\ panicked' = panicked /\ Return(t) /\ CloseLocked
          /\ userClosed' = \A u \in Users \ {t} : op[u].pc = "idle" \/ op[u].m \notin Connecting
      BY <1>4 DEF Close
    <2>2. op'[t].pc = "idle" /\ op'[t].m = op[t].m /\ \A u \in Users \ {t} : op'[u] = op[u]
      BY <2>1, ReturnMoves
    <2>3. connected' # TRUE
      BY <2>1, <1>types, CloseShape
    <2> QED BY <2>1, <2>2, <2>3 DEF ClosedInv, ConnectingAt
  <1>5. ASSUME NEW t \in Users, Spawn(t) PROVE ClosedInv'
    <2>1. op[t].pc = "spawn" /\ Return(t) /\ At(op[t].id, "start")
          /\ UNCHANGED <<connected, panicked, userClosed>>
      BY <1>5 DEF Spawn, At, connVars
    <2>2. op[t].id \in Readers
      BY <2>1, Apart DEF IdsInv, Types, Readers
    <2>3. rd'[op[t].id].pc = "start"
      BY <2>1, <2>2, AtMoves
    <2>4. op'[t].pc = "idle" /\ op'[t].m = op[t].m /\ \A u \in Users \ {t} : op'[u] = op[u]
      BY <2>1, ReturnMoves
    <2> QED BY <2>1, <2>2, <2>3, <2>4 DEF ClosedInv, ConnectingAt, Ended_t
  <1>6. ASSUME NEW r \in Readers, ReaderStep(r) \/ ReaderLock(r), ~ReconnectAuth(r) PROVE ClosedInv'
    <2>1. userClosed' = userClosed /\ (connected' = TRUE => connected)
      <3>1. ReaderClose(r) => userClosed' = userClosed /\ (connected' = TRUE => connected)
        BY CloseShape DEF ReaderClose
      <3>2. ReaderStep(r) => userClosed' = userClosed /\ connected' = connected
        BY <1>6 DEF ReaderStep, ReaderStart, ReaderPoll, ReaderRead, ReaderSend, CloseChan, connVars
      <3>3. Reconnect(r) => userClosed' = userClosed /\ connected' = FALSE
        BY DEF Reconnect
      <3> QED BY <1>6, <3>1, <3>2, <3>3 DEF ReaderLock
    <2>2. CASE Panic
      BY <2>2, <1>panic
    <2>3. CASE ~Panic
      <3>1. panicked' = panicked /\ TurnOf(r)
        BY <1>6, <2>3, Panics, ReaderMoves
      <3>2. CASE ReaderClose(r)
        <4>1. connected' # TRUE
          BY <3>2, <1>types, CloseShape DEF ReaderClose
        <4> QED BY <2>1, <3>1, <4>1 DEF ClosedInv, TurnOf
      <3>3. CASE ~ReaderClose(r)
        BY <2>1, <3>1, <3>3, ClosedCalm DEF TurnOf
      <3> QED BY <3>2, <3>3
    <2> QED BY <2>2, <2>3
  <1>7. ASSUME NEW r \in Readers, ReconnectAuth(r) PROVE ClosedInv'
    <2>1. op' = op /\ At(r, "loop") /\ UNCHANGED <<userClosed, panicked>>
      BY <1>7 DEF ReconnectAuth
    <2>2. rd'[r].pc = "loop"
      BY <2>1, AtMoves
    <2> QED BY <2>1, <2>2 DEF ClosedInv, Ended_t
  <1>8. ASSUME UNCHANGED <<op, rd, connected, panicked, userClosed>> PROVE ClosedInv'
    BY <1>8 DEF ClosedInv
  <1>9. ASSUME NEW r \in Readers, Receive(r) PROVE ClosedInv'
    BY <1>8, <1>9 DEF Receive, connVars
  <1>10. ASSUME NEW c \in Conns, Environment(c) \/ Expire(c) PROVE ClosedInv'
    BY <1>8, <1>10, NetShape DEF NetStep
  <1>11. Aside => ClosedInv'
    BY <1>8 DEF Aside, connVars
  <1> QED BY <1>1, <1>2, <1>3, <1>4, <1>5, <1>6, <1>7, <1>9, <1>10, <1>11, StepCases

-----------------------------------------------------------------------------
(* The connection that Connect gave                                        *)

\* What CallerNotNil says of a lone caller.
HasConn(t) ==
  /\ op[t].pc \in {"spawn", "command", "reader"} => conn # 0
  /\ op[t].pc \in {"reply", "alarms"} => op[t].c # 0

\* A failed dial alone makes lr.conn nil, and it ends the call that dialled.
LEMMA ConnStays ==
  ASSUME Types, ConnInv, Step
  PROVE  conn # 0 => conn' # 0 \/ \E t \in Users : ConnectDial(t)
  <1>1. ASSUME NEW t \in Users, Invoke(t) PROVE conn' = conn
    BY <1>1, InvokeShape, InvokeMoves
  <1>2. ASSUME NEW t \in Users, UserStep(t) \/ UserLock(t), ~ConnectDial(t) PROVE conn' = conn
    BY <1>2 DEF UserStep, UserLock, ConnectAuth, Spawn, Command, CommandReader, CommandRead, ReadLine, StopReply,
                ConnectAlready, Close, Stop, connVars
  <1>3. ASSUME NEW r \in Readers, ReaderStep(r) \/ ReaderLock(r) \/ Receive(r), ~ReconnectAuth(r)
        PROVE  conn' = conn
    BY <1>3 DEF ReaderStep, ReaderLock, ReaderStart, ReaderPoll, ReaderRead, ReaderSend, CloseChan,
                Reconnect, ReaderClose, Receive, connVars
  <1>4. ASSUME NEW r \in Readers, ReconnectAuth(r) PROVE conn' \in {conn, dialled} /\ dialled # 0
    <2>1. rd[r].pc = "reauth" /\ conn' \in {conn, dialled}
      BY <1>4 DEF ReconnectAuth, connVars
    <2>2. conn # dialled /\ conn \in 0..dialled /\ dialled \in Nat
      BY <2>1, Apart DEF ConnInv, ReauthOf, Types
    <2> QED BY <2>1, <2>2
  <1>5. ASSUME NEW c \in Conns, Environment(c) \/ Expire(c) PROVE conn' = conn
    BY <1>5, NetShape DEF NetStep
  <1>6. Aside => conn' = conn
    BY DEF Aside, connVars
  <1> QED BY <1>1, <1>2, <1>3, <1>4, <1>5, <1>6, StepCases

\* The step of the caller itself.
LEMMA HasConnMoves ==
  ASSUME Types, ConnInv, NEW t \in Users, HasConn(t), UserStep(t) \/ UserLock(t)
  PROVE  HasConn(t)'
  <1>ret. ASSUME Return(t) PROVE HasConn(t)'
    BY <1>ret, ReturnMoves DEF HasConn
  <1>goto. ASSUME NEW p, Goto(t, p), p \notin {"reply", "alarms"}, conn' # 0 \/ p \in {"auth", "stopReply"}
           PROVE  HasConn(t)'
    BY <1>goto, GotoMoves DEF HasConn
  <1>then. op[t].then \in {"idle", "spawn", "command"}
    BY DEF Types, Op_t, Then_t
  <1>panic. ASSUME Panic PROVE HasConn(t)'
    <2>1. op'[t].pc = "dead"
      BY <1>panic DEF Panic, Types, Op_t
    <2> QED BY <2>1 DEF HasConn
  <1>1. CASE ConnectAlready(t)
    <2>1. Goto(t, op[t].then) /\ conn' = conn /\ connected
      BY <1>1 DEF ConnectAlready, connVars
    <2>2. conn # 0
      BY <2>1 DEF ConnInv, ConnectedIsOpen
    <2> QED BY <2>1, <2>2, <1>then, <1>goto
  <1>2. CASE ConnectDial(t)
    BY <1>2, <1>ret, <1>goto DEF ConnectDial
  <1>3. CASE ConnectAuth(t)
    <2>1. conn # 0 /\ conn' = conn
      BY <1>3 DEF ConnectAuth, ConnInv, AuthOf
    <2>2. Goto(t, op[t].then) \/ Return(t)
      BY <1>3 DEF ConnectAuth
    <2> QED BY <2>1, <2>2, <1>then, <1>ret, <1>goto
  <1>4. CASE Command(t)
    <2>1. conn' = conn
      BY <1>4 DEF Command, connVars
    <2> QED BY <1>4, <2>1, <1>panic, <1>ret, <1>goto DEF Command
  <1>5. CASE CommandReader(t)
    <2>1. conn # 0
      BY <1>5 DEF CommandReader, HasConn
    <2>2. op'[t].pc = "reply" /\ op'[t].c = conn
      BY <1>5 DEF CommandReader, Types, Op_t
    <2> QED BY <2>1, <2>2 DEF HasConn
  <1>6. CASE CommandRead(t)
    <2>1. op[t].c # 0
      BY <1>6 DEF CommandRead, ReadLine, HasConn
    <2>2. ASSUME NEW x, CommandLine(t, x) PROVE HasConn(t)'
      BY <2>1, <2>2, CommandMoves DEF HasConn
    <2> QED BY <1>6, <2>2, <1>panic, <1>ret DEF CommandRead, ReadLine
  <1>7. CASE Stop(t)
    BY <1>7, <1>ret, <1>goto DEF Stop
  <1>8. CASE Spawn(t) \/ StopReply(t) \/ Close(t)
    BY <1>8, <1>ret DEF Spawn, StopReply, Close
  <1> QED BY <1>1, <1>2, <1>3, <1>4, <1>5, <1>6, <1>7, <1>8 DEF UserStep, UserLock

\* A goroutine that has called nothing is at no method.
NoCallInv == \A u \in Users : op[u].m = "none" => op[u].pc \in {"idle", "dead"}

OnlyCaller(t) == \A u \in Users \ {t} : op[u].m = "none"

\* The calls that have been made, and this, are all that CallerNotNil rests on.
CallerInv == NoCallInv /\ CallerNotNil

LEMMA CallersMove ==
  ASSUME Types, NoCallInv, Step
  PROVE  NoCallInv' /\ \A u \in Users : op'[u].m = "none" => op[u].m = "none"
  <1>1. ASSUME op' = op PROVE NoCallInv' /\ \A u \in Users : op'[u].m = "none" => op[u].m = "none"
    BY <1>1 DEF NoCallInv
  <1>2. ASSUME Panic PROVE NoCallInv' /\ \A u \in Users : op'[u].m = "none" => op[u].m = "none"
    <2>1. \A u \in Users : op'[u].m = op[u].m /\ op'[u].pc = "dead"
      BY <1>2 DEF Panic, Types, Op_t
    <2> QED BY <2>1 DEF NoCallInv
  <1>3. ASSUME NEW t \in Users, Invoke(t)
        PROVE  NoCallInv' /\ \A u \in Users : op'[u].m = "none" => op[u].m = "none"
    <2>1. PICK m, p : InvokeAs(t, m, p)
      BY <1>3, InvokeShape
    <2>2. (\A u \in Users \ {t} : op'[u] = op[u]) /\ op'[t].m = m
      BY <1>3, <2>1, InvokeMoves
    <2>3. m \in AllMethods /\ "none" \notin AllMethods
      BY <2>1, Apart DEF InvokeAs, AllMethods
    <2> QED BY <2>2, <2>3 DEF NoCallInv
  <1>4. ASSUME NEW t \in Users, MoveOf(t)
        PROVE  NoCallInv' /\ \A u \in Users : op'[u].m = "none" => op[u].m = "none"
    BY <1>4 DEF MoveOf, Busy, NoCallInv
  <1>5. ASSUME NEW t \in Users, UserStep(t) \/ UserLock(t) PROVE Panic \/ MoveOf(t)
    BY <1>5, UserMoves
  <1>6. ASSUME NEW r \in Readers, ReaderStep(r) \/ ReaderLock(r) \/ Receive(r) PROVE Panic \/ op' = op
    <2>1. Receive(r) => op' = op
      BY DEF Receive
    <2> QED BY <1>6, <2>1, ReaderMoves DEF TurnOf
  <1>7. ASSUME NEW c \in Conns, Environment(c) \/ Expire(c) PROVE op' = op
    BY <1>7, NetShape DEF NetStep
  <1>8. Aside => op' = op
    BY DEF Aside
  <1> QED BY <1>1, <1>2, <1>3, <1>4, <1>5, <1>6, <1>7, <1>8, StepCases

LEMMA CallerStart == Init => CallerInv
  <1>1. NoOp.pc = "idle"
    BY DEF NoOp
  <1>2. Init => \A t \in Users : op[t].pc = "idle"
    BY <1>1 DEF Init
  <1> QED BY <1>2 DEF CallerInv, NoCallInv, CallerNotNil

LEMMA CallerStep == Base /\ CallerInv /\ (Step \/ UNCHANGED vars) => CallerInv'
  <1> SUFFICES ASSUME Base, CallerInv, Step \/ UNCHANGED vars PROVE CallerInv'
    OBVIOUS
  <1>1. Step /\ Types /\ ConnInv /\ NoCallInv
    BY DEF Step, Aside, vars, chanVars, Base, CallerInv
  <1>2. NoCallInv' /\ \A u \in Users : op'[u].m = "none" => op[u].m = "none"
    BY <1>1, CallersMove
  <1>3. ASSUME NEW t \in Users, OnlyCaller(t)' PROVE HasConn(t)'
    <2>1. OnlyCaller(t) /\ \A u \in Users \ {t} : op[u].pc \in {"idle", "dead"} /\ op'[u].m = "none"
      BY <1>1, <1>2, <1>3 DEF OnlyCaller, NoCallInv
    <2>2. HasConn(t)
      BY <2>1 DEF CallerInv, CallerNotNil, OnlyCaller, HasConn
    <2>3. ASSUME NEW u \in Users, u # t, UserStep(u) \/ UserLock(u) PROVE Panic
      BY <1>1, <2>1, <2>3, UserMoves DEF MoveOf, Busy
    <2>4. ASSUME NEW u \in Users, u # t PROVE ~Invoke(u)
      <3> SUFFICES ASSUME Invoke(u) PROVE FALSE
        OBVIOUS
      <3>1. PICK m, p : InvokeAs(u, m, p)
        BY InvokeShape
      <3>2. op'[u].m = m /\ m \in AllMethods /\ "none" \notin AllMethods
        BY <1>1, <3>1, InvokeMoves, Apart DEF InvokeAs, AllMethods
      <3> QED BY <2>1, <2>4, <3>2
    <2>5. CASE UserStep(t) \/ UserLock(t)
      BY <1>1, <2>2, <2>5, HasConnMoves
    <2>6. CASE Invoke(t)
      <3>1. op'[t].pc \in {"close", "stop", "connect"}
        BY <1>1, <2>6, InvokeShape, InvokeMoves
      <3> QED BY <3>1 DEF HasConn
    <2>7. CASE Panic
      <3>1. op'[t].pc = "dead"
        BY <1>1, <2>7 DEF Panic, Types, Op_t
      <3> QED BY <3>1 DEF HasConn
    <2>8. CASE op' = op /\ ~\E u \in Users : ConnectDial(u)
      <3>1. conn # 0 => conn' # 0
        BY <1>1, <2>8, ConnStays
      <3> QED BY <2>2, <2>8, <3>1 DEF HasConn
    <2>9. ASSUME NEW r \in Readers, ReaderStep(r) \/ ReaderLock(r) \/ Receive(r) PROVE Panic \/ op' = op
      <3>1. Receive(r) => op' = op
        BY DEF Receive
      <3> QED BY <1>1, <2>9, <3>1, ReaderMoves DEF TurnOf
    <2>10. ASSUME NEW c \in Conns, Environment(c) \/ Expire(c) PROVE op' = op
      BY <1>1, <2>10, NetShape DEF NetStep
    <2>11. Aside => op' = op
      BY DEF Aside
    <2>12. ASSUME NEW u \in Users, ConnectDial(u) PROVE UserLock(u)
      BY <2>12 DEF UserLock
    <2> QED BY <1>1, <2>3, <2>4, <2>5, <2>6, <2>7, <2>8, <2>9, <2>10, <2>11, <2>12, StepCases
  <1>4. CallerNotNil'
    BY <1>3 DEF CallerNotNil, OnlyCaller, HasConn
  <1> QED BY <1>2, <1>4 DEF CallerInv

-----------------------------------------------------------------------------
(* The theorems                                                            *)

LEMMA BaseInit == Init => Base
  <1> SUFFICES ASSUME Init PROVE Base
    OBVIOUS
  <1>1. \A c \in Conns : net[c] = Fresh
    BY DEF Init
  <1>2. \A t \in Users : op[t] = NoOp /\ op[t] \in Op_t
    BY NoOpTypes DEF Init
  <1>3. \A r \in Readers : rd[r] = NoReader /\ rd[r] \in Rd_t
    BY NoOpTypes DEF Init
  <1>4. <<>> \in Lines_t /\ Len(<<>>) = 0
    BY EmptySeq DEF Lines_t
  <1>5. Types
    <2>1. net \in [Conns -> Net_t]
      BY FreshTypes DEF Init
    <2>2. op \in [Users -> Op_t] /\ rd \in [Readers -> Rd_t]
      BY NoOpTypes DEF Init
    <2>3. chan \in [Readers -> Lines_t] /\ delivered \in [Readers -> Lines_t]
      BY <1>4 DEF Init
    <2>4. /\ mutex = NoOne /\ connected = FALSE /\ panicked = FALSE /\ userClosed = FALSE
          /\ dialled = 0 /\ conn = 0 /\ calls = 0
      BY DEF Init
    <2>5. dialled \in 0..MaxDials /\ conn \in 0..dialled /\ calls \in 0..MaxCalls
      BY <2>4, Apart
    <2> QED BY <2>1, <2>2, <2>3, <2>4, <2>5 DEF Types
  <1>6. Bounded
    BY <1>2, <1>3, <1>4, Apart DEF Init, Bounded, NoOp, NoReader
  <1>7. IdsInv /\ LockInv
    BY <1>2, <1>3 DEF Init, IdsInv, LockInv, NoOp, NoReader
  <1>8. ConnInv
    <2>1. \A c \in Conns : ~net[c].open
      BY <1>1 DEF Fresh
    <2>2. \A t \in Users : op[t].pc = "idle"
      <3>1. NoOp.pc = "idle"
        BY DEF NoOp
      <3> QED BY <1>2, <3>1
    <2>3. \A r \in Readers : rd[r].pc = "unused"
      BY <1>3 DEF NoReader
    <2> QED BY <1>1, <2>1, <2>2, <2>3
            DEF Init, ConnInv, AuthOf, ReauthOf, ConnShut, ConnectedIsOpen, NoLeak
  <1>9. ClosedInv
    BY <1>2 DEF Init, ClosedInv, NoOp, ConnectingAt
  <1> QED BY <1>5, <1>6, <1>7, <1>8, <1>9 DEF Base

\* Every step, and what a consumer or a context does beside, keeps Base.
LEMMA BaseStep == Base /\ (Step \/ UNCHANGED vars) => Base'
  <1> SUFFICES ASSUME Base, Step \/ UNCHANGED vars PROVE Base'
    OBVIOUS
  <1>1. Step
    BY DEF Step, Aside, vars, chanVars
  <1>2. Types /\ Bounded /\ IdsInv /\ LockInv /\ ConnInv /\ ClosedInv
    BY DEF Base
  <1>3. Types' /\ Bounded'
    BY <1>1, <1>2, TypesStep
  <1>4. IdsInv'
    BY <1>1, <1>2, IdsStep
  <1>5. LockInv' /\ ConnInv'
    BY <1>1, <1>2, ConnStep
  <1>6. ClosedInv'
    BY <1>1, <1>2, ClosedStep
  <1> QED BY <1>3, <1>4, <1>5, <1>6 DEF Base

LEMMA BaseTypeOK == Base => TypeOK
  <1> SUFFICES ASSUME Base PROVE TypeOK
    OBVIOUS
  <1>1. Types /\ Bounded /\ Conns = 1..MaxDials
    BY DEF Base, Conns
  <1>2. \A c \in Conns : net[c] \in Net_t
    BY <1>1 DEF Types
  <1>3. \A t \in Users : op[t].c \in 0..dialled /\ op[t].buf \in Seq(Line_t)
    <2>1. ASSUME NEW t \in Users PROVE op[t].c \in 0..dialled /\ op[t].buf \in Seq(Line_t)
      <3>1. op[t] \in Op_t /\ op[t].c <= dialled /\ dialled \in Nat
        BY <1>1, Apart DEF Types, Bounded
      <3>2. op[t].c \in Nat /\ op[t].buf \in Seq(Line_t)
        BY <3>1, Apart DEF Op_t, Lines_t
      <3> QED BY <3>1, <3>2
    <2> QED BY <2>1
  <1>4. \A r \in Readers : rd[r].c \in 0..dialled /\ rd[r].buf \in Seq(Line_t)
                           /\ chan[r] \in Seq(Line_t) /\ Len(chan[r]) <= ChanCap
    BY <1>1, Apart DEF Types, Bounded, Rd_t, Lines_t
  <1> QED BY <1>1, <1>2, <1>3, <1>4 DEF TypeOK, Types, Net_t, Lines_t

\* No goroutine of ReadLogs is left that could connect, and no call that could.
LEMMA BaseStaysClosed == Base => StaysClosed
  <1> SUFFICES ASSUME Base, userClosed, ~panicked, \A r \in Readers : rd[r].pc \in {"unused", "closeChan", "done"}
               PROVE  ~connected /\ \A c \in Conns : ~net[c].open
    BY DEF StaysClosed
  <1>1. ~connected
    BY DEF Base, ClosedInv, Ended_t
  <1>2. \A t \in Users : op[t].pc # "auth"
    BY DEF Base, ClosedInv, ConnectingAt
  <1>3. ConnShut
    BY <1>1, <1>2 DEF Base, ConnInv
  <1>4. \A c \in Conns : net[c].open => c = conn
    BY DEF Base, ConnInv, NoLeak
  <1>5. \A c \in Conns : c # 0
    BY DEF Conns
  <1> QED BY <1>1, <1>3, <1>4, <1>5 DEF ConnShut

\* The inductive invariant holds, whoever calls, receives and cancels.
THEOREM BaseAlways == Spec => []Base
  <1>1. Base /\ [Next]_vars => Base'
    BY BaseStep DEF Step
  <1> QED BY <1>1, BaseInit, PTL DEF Spec

\* The variables stay in their types and no channel holds more than its capacity
\* (logs.go:145, 182).
THEOREM TypeCorrect == Spec => []TypeOK
  BY BaseAlways, BaseTypeOK, PTL

\* No failure of a dial, of a reconnect or of an authentication, and no order of closes,
\* leaks a connection (logs.go:85-116, 195-238).
THEOREM NeverLeaks == Spec => []NoLeak
  <1>1. Base => NoLeak
    BY DEF Base, ConnInv
  <1> QED BY <1>1, BaseAlways, PTL

\* connected is true of an open connection only (logs.go:118, 132, 202, 238).
THEOREM ConnectedOpen == Spec => []ConnectedIsOpen
  <1>1. Base => ConnectedIsOpen
    BY DEF Base, ConnInv
  <1> QED BY <1>1, BaseAlways, PTL

\* What Close closed stays closed once the goroutines of ReadLogs have ended
\* (logs.go:122-137, 147-170).
THEOREM ClosedStays == Spec => []StaysClosed
  BY BaseAlways, BaseStaysClosed, PTL

\* The methods of a goroutine that alone has called any meet no nil connection
\* (logs.go:347, 352, 423, 428).
THEOREM CallerMeetsNoNil == Spec => []CallerNotNil
  <1>1. Init => CallerInv
    BY CallerStart
  <1>2. Base /\ CallerInv /\ [Next]_vars => CallerInv'
    BY CallerStep DEF Step
  <1>3. CallerInv => CallerNotNil
    BY DEF CallerInv
  <1> QED BY <1>1, <1>2, <1>3, BaseAlways, PTL DEF Spec
=============================================================================
