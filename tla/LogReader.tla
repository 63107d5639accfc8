------------------------------ MODULE LogReader ------------------------------
(***************************************************************************)
(* One fanuc.LogReader (pkg/fanuc/logs.go): the goroutines that call its   *)
(* methods, the goroutine each ReadLogs starts, and the connections to the *)
(* controller.                                                             *)
(*                                                                         *)
(* lr.mutex protects Connect, Close, reconnect and StopRemoteLogMonitor;   *)
(* the other uses of lr.conn do not take it.  The stream of a connection   *)
(* is a sequence of lines.  A bufio.Reader takes any non-empty prefix of   *)
(* what has arrived, hands out its first line and keeps the others; it     *)
(* forgets them when it is dropped.                                        *)
(***************************************************************************)
EXTENDS Integers, Sequences

CONSTANTS
  Users,     \* goroutines that call the methods
  NoOne,     \* the mutex is free
  Methods,   \* methods they call, a subset of AllMethods
  MaxCalls,  \* bound on the calls issued over a behaviour
  MaxDials,  \* bound on connections: the controller accepts no more
  MaxLines,  \* bound on the numbered lines a connection carries
  Empty,     \* numbers of the lines that are empty
  ChanCap,   \* capacity of the log channel, 100 in the code
  Faults     \* what the controller and the network may do, a subset of AllFaults

AllMethods == {"Connect", "Close", "ReadLogs", "GetLatestAlarms",
               "StartRemoteLogMonitor", "StopRemoteLogMonitor"}

\* dial: a dial may fail;  refuse: authentication may fail;  silent: a command
\* may go unanswered;  fin, rst: the controller ends a connection;  count: the number of
\* alarms it announces is not that of the lines that follow.
AllFaults == {"dial", "refuse", "silent", "fin", "rst", "count"}

ASSUME LogReaderAssumption ==
  /\ Methods \subseteq AllMethods /\ Faults \subseteq AllFaults
  /\ MaxCalls \in Nat /\ MaxDials \in Nat /\ MaxLines \in Nat /\ ChanCap \in Nat
  /\ Empty \subseteq 1..MaxLines
  /\ NoOne \notin Users \cup (1..MaxCalls)
  /\ Users \cap (1..MaxCalls) = {}

Conns == 1..MaxDials
Readers == 1..MaxCalls    \* the goroutine of a call has the number of the call

VARIABLES
  mutex,      \* holder of lr.mutex
  conn,       \* lr.conn, 0 for nil
  connected,  \* lr.connected
  dialled,    \* connections dialled so far
  net,        \* each connection, see Fresh
  calls,      \* calls issued so far: the number of the latest
  op,         \* each user's call
  rd,         \* each ReadLogs goroutine
  chan,       \* its log channel
  delivered,  \* history: entries the consumer received from the channel
  cancelled,  \* its context is done
  panicked,   \* a nil connection was used, or a slice of negative capacity made
  userClosed  \* history: Close has returned and nothing that connects was called since

connVars == <<conn, connected>>
wireVars == <<dialled, net>>
chanVars == <<chan, delivered, cancelled>>
vars == <<mutex, connVars, wireVars, calls, op, rd, chanVars, panicked, userClosed>>

\* open: not closed by the client;  expired: the read deadline, set once when the
\* connection is authenticated, has passed;  bufs: bufio.Readers created on it, and the
\* Reads that Connect made of it beside one.
Fresh == [open |-> FALSE, peer |-> "up", expired |-> FALSE, stream |-> <<>>,
          req |-> <<>>, sent |-> 0, bufs |-> 0]

NoOp == [m |-> "none", pc |-> "idle", then |-> "idle", id |-> 0, c |-> 0, buf |-> <<>>, left |-> 0]
NoReader == [pc |-> "unused", c |-> 0, buf |-> <<>>, hand |-> <<>>]

Line(k, n) == [k |-> k, n |-> n]

\* NewLogReader
Init ==
  /\ mutex = NoOne /\ conn = 0 /\ connected = FALSE
  /\ dialled = 0 /\ net = [c \in Conns |-> Fresh]
  /\ calls = 0 /\ op = [t \in Users |-> NoOp]
  /\ rd = [r \in Readers |-> NoReader]
  /\ chan = [r \in Readers |-> <<>>] /\ delivered = [r \in Readers |-> <<>>]
  /\ cancelled = [r \in Readers |-> FALSE]
  /\ panicked = FALSE /\ userClosed = FALSE

-----------------------------------------------------------------------------
(* Connections                                                             *)

\* net.Conn.Close
Shut(n, c) == [n EXCEPT ![c] = [@ EXCEPT !.open = FALSE, !.expired = FALSE, !.peer = "up",
                                         !.stream = <<>>, !.req = <<>>]]

\* conn.Read returns data: a passed deadline and a reset win over bytes that arrived.
Readable(c) == net[c].open /\ ~net[c].expired /\ net[c].stream # <<>>

\* conn.Read returns an error other than io.EOF.
Broken(c) == ~net[c].open \/ net[c].expired \/ net[c].peer = "rst"

\* conn.Read returns io.EOF.
Ended(c) == ~Broken(c) /\ net[c].peer = "fin" /\ net[c].stream = <<>>

\* net.DialTimeout, and the authentication request written.
Dial == [Fresh EXCEPT !.open = TRUE, !.req = <<"auth">>]

DialFails == "dial" \in Faults \/ dialled = MaxDials

\* One Read of the reply to the authentication takes the first k lines.
AuthReply(c, k) == Readable(c) /\ k \in 1..Len(net[c].stream)

Accepted(c, k) == \E i \in 1..k : net[c].stream[i].k = "ok"

AuthFails(c) ==
  \/ Broken(c) \/ Ended(c)
  \/ \E k \in 1..Len(net[c].stream) : AuthReply(c, k) /\ ~Accepted(c, k)

\* The first k lines are taken.
Drain(n, c, k) == [n EXCEPT ![c].stream = SubSeq(@, k + 1, Len(@))]

\* The outcomes of reader.ReadString('\n') that return a line: from the buffer,
\* else from the first k lines of the stream.
Reads(c, buf) ==
  IF buf # <<>> THEN {[line |-> Head(buf), rest |-> Tail(buf), taken |-> 0]}
  ELSE {[line |-> Head(net[c].stream), rest |-> SubSeq(net[c].stream, 2, k), taken |-> k] :
          k \in IF Readable(c) THEN 1..Len(net[c].stream) ELSE {}}

ReadFails(c, buf) == buf = <<>> /\ (Broken(c) \/ Ended(c))

-----------------------------------------------------------------------------
(* The callers                                                             *)

Connecting == {"Connect", "ReadLogs", "GetLatestAlarms", "StartRemoteLogMonitor"}

Return(t) == op' = [op EXCEPT ![t] = [NoOp EXCEPT !.m = op[t].m, !.id = op[t].id]]

\* The process dies.
Panic ==
  /\ panicked' = TRUE
  /\ op' = [t \in Users |-> [op[t] EXCEPT !.pc = "dead"]]
  /\ rd' = [r \in Readers |-> [rd[r] EXCEPT !.pc = "dead"]]
  /\ UNCHANGED net

Goto(t, p) == op' = [op EXCEPT ![t].pc = p]

\* What the method does once Connect has returned nil.
AfterConnect(m) == CASE m = "Connect" -> "idle" [] m = "ReadLogs" -> "spawn" [] OTHER -> "command"

Invoke(t) ==
  /\ op[t].pc = "idle" /\ calls < MaxCalls
  /\ calls' = calls + 1
  /\ \E m \in Methods :
       /\ op' = [op EXCEPT ![t] = [NoOp EXCEPT !.m = m, !.id = calls + 1,
                   !.pc = CASE m = "Close" -> "close"
                            [] m = "StopRemoteLogMonitor" -> "stop"
                            [] OTHER -> "connect",
                   !.then = AfterConnect(m)]]
       /\ userClosed' = (userClosed /\ m \notin Connecting)
  /\ UNCHANGED <<mutex, connVars, wireVars, rd, chanVars, panicked>>

\* Connect, already connected: the mutex is taken and released.
ConnectAlready(t) ==
  /\ op[t].pc = "connect" /\ mutex = NoOne /\ connected
  /\ Goto(t, op[t].then)
  /\ UNCHANGED <<mutex, connVars, wireVars, calls, rd, chanVars, panicked, userClosed>>

\* Connect up to the read of the authentication reply; a failed dial leaves lr.conn nil.
ConnectDial(t) ==
  /\ op[t].pc = "connect" /\ mutex = NoOne /\ ~connected
  /\ \/ /\ dialled < MaxDials
        /\ dialled' = dialled + 1 /\ conn' = dialled + 1
        /\ net' = [net EXCEPT ![dialled + 1] = Dial]
        /\ mutex' = t /\ Goto(t, "auth")
     \/ DialFails /\ conn' = 0 /\ Return(t) /\ UNCHANGED <<mutex, wireVars>>
  /\ UNCHANGED <<connected, calls, rd, chanVars, panicked, userClosed>>

\* A Read that does not use a bufio.Reader, of a connection that may have one.
ReadBeside(n, c) == [n EXCEPT ![c].bufs = IF @ = 0 THEN 0 ELSE @ + 1]

\* Connect from the authentication reply to its return.
ConnectAuth(t) ==
  /\ op[t].pc = "auth"
  /\ mutex' = NoOne
  /\ \/ \E k \in 1..Len(net[conn].stream) :
          /\ AuthReply(conn, k) /\ Accepted(conn, k)
          /\ net' = ReadBeside(Drain(net, conn, k), conn)
          /\ connected' = TRUE
          /\ Goto(t, op[t].then)
     \/ /\ AuthFails(conn)
        /\ net' = Shut(net, conn)
        /\ Return(t)
        /\ UNCHANGED connected
  /\ UNCHANGED <<conn, dialled, calls, rd, chanVars, panicked, userClosed>>

\* Mutant of CloseLocked: connected is not reset.
CloseForgotten == net' = (IF connected THEN Shut(net, conn) ELSE net) /\ UNCHANGED connected

\* What Close does under the mutex.
CloseLocked ==
  IF connected
  THEN net' = Shut(net, conn) /\ connected' = FALSE
  ELSE UNCHANGED <<net, connected>>

Close(t) ==
  /\ op[t].pc = "close" /\ mutex = NoOne
  /\ CloseLocked
  /\ Return(t)
  /\ userClosed' = \A u \in Users \ {t} : op[u].pc = "idle" \/ op[u].m \notin Connecting
  /\ UNCHANGED <<mutex, conn, dialled, calls, rd, chanVars, panicked>>

\* The goroutine of ReadLogs is started; lr.conn is read later, when it runs.
Spawn(t) ==
  /\ op[t].pc = "spawn"
  /\ rd' = [rd EXCEPT ![op[t].id].pc = "start"]
  /\ Return(t)
  /\ UNCHANGED <<mutex, connVars, wireVars, calls, chanVars, panicked, userClosed>>

\* lr.conn.Write without the mutex.
Write(c, cmd) == net' = [net EXCEPT ![c].req = IF net[c].peer = "up" THEN Append(@, cmd) ELSE @]

WriteFails(c) == ~net[c].open \/ net[c].peer # "up"

Command(t) ==
  /\ op[t].pc = "command"
  /\ \/ conn = 0 /\ Panic
     \/ /\ conn # 0 /\ net[conn].open
        /\ Write(conn, IF op[t].m = "GetLatestAlarms" THEN "alarms" ELSE "start")
        /\ Goto(t, "reader")
        /\ UNCHANGED <<rd, panicked>>
     \/ conn # 0 /\ WriteFails(conn) /\ Return(t) /\ UNCHANGED <<rd, net, panicked>>
  /\ UNCHANGED <<mutex, connVars, dialled, calls, chanVars, userClosed>>

\* A bufio.Reader on lr.conn, read again without the mutex.
Buffered(n, c) == IF c = 0 THEN n ELSE [n EXCEPT ![c].bufs = @ + 1]

CommandReader(t) ==
  /\ op[t].pc = "reader"
  /\ op' = [op EXCEPT ![t].pc = "reply", ![t].c = conn]
  /\ net' = Buffered(net, conn)
  /\ UNCHANGED <<mutex, connVars, dialled, calls, rd, chanVars, panicked, userClosed>>

\* What the command makes of the line it read.  Any line counts as an alarm.
CommandLine(t, x) ==
  LET left == IF op[t].pc = "reply" THEN x.line.n ELSE op[t].left - 1
  IN  CASE op[t].m = "StartRemoteLogMonitor" /\ x.line.k = "ok" ->
             op' = [op EXCEPT ![t] = [@ EXCEPT !.pc = "connect", !.then = "spawn", !.c = 0]]
        [] op[t].m = "GetLatestAlarms" /\ left > 0
           /\ (op[t].pc = "reply" => x.line.k = "head") ->
             op' = [op EXCEPT ![t] = [@ EXCEPT !.pc = "alarms", !.left = left, !.buf = x.rest]]
        [] OTHER -> Return(t)

\* make([]LogEntry, 0, numAlarms) panics: -1 stands for every number it does not take.
NegativeCount(t, x) ==
  op[t].pc = "reply" /\ op[t].m = "GetLatestAlarms" /\ x.line.k = "head" /\ x.line.n < 0

\* A line is read; a method called on the nil connection panics.
ReadLine(t) ==
  \/ op[t].c = 0 /\ Panic
  \/ op[t].c # 0 /\ (\E x \in Reads(op[t].c, op[t].buf) : NegativeCount(t, x)) /\ Panic
  \/ /\ op[t].c # 0
     /\ \E x \in Reads(op[t].c, op[t].buf) :
          ~NegativeCount(t, x) /\ CommandLine(t, x) /\ net' = Drain(net, op[t].c, x.taken)
     /\ UNCHANGED <<rd, panicked>>

\* Mutant of CommandRead: a read error does not end the command.
CommandReadRetries(t) ==
  /\ op[t].pc \in {"reply", "alarms"}
  /\ \/ ReadLine(t)
     \/ /\ op[t].c # 0 /\ ReadFails(op[t].c, op[t].buf)
        /\ UNCHANGED <<op, rd, net, panicked>>
  /\ UNCHANGED <<mutex, connVars, dialled, calls, chanVars, userClosed>>

\* Reading the reply, into a buffer that is dropped when the command returns.
CommandRead(t) ==
  /\ op[t].pc \in {"reply", "alarms"}
  /\ \/ ReadLine(t)
     \/ /\ op[t].c # 0 /\ ReadFails(op[t].c, op[t].buf)
        /\ Return(t) /\ UNCHANGED <<rd, net, panicked>>
  /\ UNCHANGED <<mutex, connVars, dialled, calls, chanVars, userClosed>>

\* StopRemoteLogMonitor: the reply is read with the mutex held.
Stop(t) ==
  /\ op[t].pc = "stop" /\ mutex = NoOne
  /\ \/ ~connected /\ Return(t) /\ UNCHANGED <<mutex, net>>
     \/ connected /\ WriteFails(conn) /\ Return(t) /\ UNCHANGED <<mutex, net>>
     \/ /\ connected /\ net[conn].open
        /\ net' = Buffered([net EXCEPT ![conn].req = Append(@, "stop")], conn)
        /\ mutex' = t /\ Goto(t, "stopReply")
  /\ UNCHANGED <<connVars, dialled, calls, rd, chanVars, panicked, userClosed>>

StopReply(t) ==
  /\ op[t].pc = "stopReply"
  /\ mutex' = NoOne /\ Return(t)
  /\ \/ \E x \in Reads(conn, <<>>) : net' = Drain(net, conn, x.taken)
     \/ ReadFails(conn, <<>>) /\ UNCHANGED net
  /\ UNCHANGED <<connVars, dialled, calls, rd, chanVars, panicked, userClosed>>

UserStep(t) ==
  \/ ConnectAuth(t) \/ Spawn(t) \/ Command(t) \/ CommandReader(t) \/ CommandRead(t) \/ StopReply(t)

\* The steps that wait for the mutex.
UserLock(t) == ConnectAlready(t) \/ ConnectDial(t) \/ Close(t) \/ Stop(t)

-----------------------------------------------------------------------------
(* The goroutine of ReadLogs                                               *)

At(r, p) == rd' = [rd EXCEPT ![r].pc = p]

\* bufio.NewReader(lr.conn), once, without the mutex.
ReaderStart(r) ==
  /\ rd[r].pc = "start"
  /\ rd' = [rd EXCEPT ![r].pc = "loop", ![r].c = conn]
  /\ net' = Buffered(net, conn)
  /\ UNCHANGED <<mutex, connVars, dialled, calls, op, chanVars, panicked, userClosed>>

\* Mutant of ReaderPoll: the bufio.Reader is created inside the loop.
ReaderPollFresh(r) ==
  /\ rd[r].pc = "loop"
  /\ rd' = [rd EXCEPT ![r].pc = IF cancelled[r] THEN "close" ELSE "read", ![r].buf = <<>>]
  /\ UNCHANGED <<mutex, connVars, wireVars, calls, op, chanVars, panicked, userClosed>>

\* The select at the head of the loop.
ReaderPoll(r) ==
  /\ rd[r].pc = "loop"
  /\ At(r, IF cancelled[r] THEN "close" ELSE "read")
  /\ UNCHANGED <<mutex, connVars, wireVars, calls, op, chanVars, panicked, userClosed>>

\* The entry of a line; an empty line has none.
parseLogEntry(line) == IF line.k = "blank" THEN <<>> ELSE <<line>>

\* A line without an entry is skipped; io.EOF ends the goroutine; other errors lead to reconnect.
ReaderRead(r) ==
  LET c == rd[r].c IN
  /\ rd[r].pc = "read"
  /\ \/ c = 0 /\ Panic
     \/ /\ c # 0
        /\ \E x \in Reads(c, rd[r].buf) :
             /\ net' = Drain(net, c, x.taken)
             /\ rd' = [rd EXCEPT ![r] = [@ EXCEPT !.buf = x.rest,
                         !.pc = IF parseLogEntry(x.line) = <<>> THEN "loop" ELSE "send",
                         !.hand = parseLogEntry(x.line)]]
        /\ UNCHANGED <<op, panicked>>
     \/ /\ c # 0 /\ ReadFails(c, rd[r].buf)
        /\ At(r, IF Ended(c) THEN "close" ELSE "reconnect")
        /\ UNCHANGED <<op, net, panicked>>
  /\ UNCHANGED <<mutex, connVars, dialled, calls, chanVars, userClosed>>

\* Mutant of ReaderSend: tried again and again, where break leaves the select only.
ReaderSendRepeats(r) ==
  /\ rd[r].pc = "send"
  /\ \/ /\ Len(chan[r]) < ChanCap
        /\ chan' = [chan EXCEPT ![r] = @ \o rd[r].hand]
        /\ UNCHANGED rd
     \/ cancelled[r] /\ At(r, "close") /\ UNCHANGED chan
  /\ UNCHANGED <<mutex, connVars, wireVars, calls, op, delivered, cancelled, panicked, userClosed>>

\* Mutant of ReaderSend: the entry is put whether or not the channel has room.
ReaderSendUnbounded(r) ==
  /\ rd[r].pc = "send"
  /\ chan' = [chan EXCEPT ![r] = @ \o rd[r].hand]
  /\ rd' = [rd EXCEPT ![r].pc = "loop", ![r].hand = <<>>]
  /\ UNCHANGED <<mutex, connVars, wireVars, calls, op, delivered, cancelled, panicked, userClosed>>

\* The select that sends the entry: either branch when both are ready.
ReaderSend(r) ==
  /\ rd[r].pc = "send"
  /\ \/ /\ Len(chan[r]) < ChanCap
        /\ chan' = [chan EXCEPT ![r] = @ \o rd[r].hand]
        /\ rd' = [rd EXCEPT ![r].pc = "loop", ![r].hand = <<>>]
     \/ /\ cancelled[r]
        /\ rd' = [rd EXCEPT ![r].pc = "close", ![r].hand = <<>>]
        /\ UNCHANGED chan
  /\ UNCHANGED <<mutex, connVars, wireVars, calls, op, delivered, cancelled, panicked, userClosed>>

\* Mutant of OldClosed: reconnect forgets to close the connection it replaces.
OldKept == net

\* The connections after reconnect has closed lr.conn.
OldClosed == IF conn = 0 THEN net ELSE Shut(net, conn)

\* Mutant of Reconnect: lr.conn is assigned by the dial, as in Connect, and nil when it fails.
ReconnectNil(r) ==
  /\ rd[r].pc = "reconnect" /\ mutex = NoOne
  /\ connected' = FALSE
  /\ \/ /\ dialled < MaxDials
        /\ dialled' = dialled + 1
        /\ net' = [OldClosed EXCEPT ![dialled + 1] = Dial]
        /\ mutex' = r /\ At(r, "reauth") /\ UNCHANGED conn
     \/ DialFails /\ conn' = 0 /\ net' = OldClosed /\ At(r, "loop") /\ UNCHANGED <<mutex, dialled>>
  /\ UNCHANGED <<calls, op, chanVars, panicked, userClosed>>

\* reconnect up to the read of the authentication reply; the new connection is in a
\* local variable.  After it the goroutine sleeps and goes round the loop.
Reconnect(r) ==
  /\ rd[r].pc = "reconnect" /\ mutex = NoOne
  /\ connected' = FALSE
  /\ \/ /\ dialled < MaxDials
        /\ dialled' = dialled + 1
        /\ net' = [OldClosed EXCEPT ![dialled + 1] = Dial]
        /\ mutex' = r /\ At(r, "reauth")
     \/ DialFails /\ net' = OldClosed /\ At(r, "loop") /\ UNCHANGED <<mutex, dialled>>
  /\ UNCHANGED <<conn, calls, op, chanVars, panicked, userClosed>>

\* reconnect from the authentication reply to its return.
ReconnectAuth(r) ==
  /\ rd[r].pc = "reauth"
  /\ mutex' = NoOne /\ At(r, "loop")
  /\ \/ \E k \in 1..Len(net[dialled].stream) :
          /\ AuthReply(dialled, k) /\ Accepted(dialled, k)
          /\ net' = Drain(net, dialled, k)
          /\ conn' = dialled /\ connected' = TRUE
     \/ /\ AuthFails(dialled)
        /\ net' = Shut(net, dialled)
        /\ UNCHANGED connVars
  /\ UNCHANGED <<dialled, calls, op, chanVars, panicked, userClosed>>

\* Mutant of ReaderClose: the goroutine does not close the reader it may have reconnected.
ReaderCloseForgotten(r) ==
  /\ rd[r].pc = "close" /\ At(r, "closeChan")
  /\ UNCHANGED <<mutex, connVars, wireVars, calls, op, chanVars, panicked, userClosed>>

\* The deferred lr.Close, then the deferred close(logChan).
ReaderClose(r) ==
  /\ rd[r].pc = "close" /\ mutex = NoOne
  /\ CloseLocked
  /\ At(r, "closeChan")
  /\ UNCHANGED <<mutex, conn, dialled, calls, op, chanVars, panicked, userClosed>>

CloseChan(r) ==
  /\ rd[r].pc = "closeChan"
  /\ rd' = [rd EXCEPT ![r].pc = "done", ![r].buf = <<>>]
  /\ UNCHANGED <<mutex, connVars, wireVars, calls, op, chanVars, panicked, userClosed>>

ReaderStep(r) ==
  \/ ReaderStart(r) \/ ReaderPoll(r) \/ ReaderRead(r) \/ ReaderSend(r)
  \/ ReconnectAuth(r) \/ CloseChan(r)

ReaderLock(r) == Reconnect(r) \/ ReaderClose(r)

\* The consumer and the owner of the context.
Receive(r) ==
  /\ chan[r] # <<>>
  /\ delivered' = [delivered EXCEPT ![r] = Append(@, Head(chan[r]))]
  /\ chan' = [chan EXCEPT ![r] = Tail(@)]
  /\ UNCHANGED <<mutex, connVars, wireVars, calls, op, rd, cancelled, panicked, userClosed>>

Cancel(r) ==
  /\ rd[r].pc \notin {"unused", "done", "dead"} /\ ~cancelled[r]
  /\ cancelled' = [cancelled EXCEPT ![r] = TRUE]
  /\ UNCHANGED <<mutex, connVars, wireVars, calls, op, rd, chan, delivered, panicked, userClosed>>

-----------------------------------------------------------------------------
(* The controller, the network and the clock                               *)

Up(c) == net[c].open /\ net[c].peer = "up"

Controlled(n) ==
  /\ net' = n
  /\ UNCHANGED <<mutex, connVars, dialled, calls, op, rd, chanVars, panicked, userClosed>>

\* n numbered lines after those already sent
Numbered(c, k, n) == [i \in 1..n |-> Line(k, net[c].sent + i)]

\* The number that a header announces for n alarms
Announced(n) == {n} \cup (IF "count" \in Faults THEN -1..MaxLines ELSE {})

\* The reply to a command; alarms come as a header with their number and a line each.
Answer(c) ==
  /\ Up(c) /\ net[c].req # <<>>
  /\ \E n \in 0..(MaxLines - net[c].sent) : \E h \in Announced(n) :
       LET alarms == Head(net[c].req) = "alarms"
           lines  == IF alarms THEN <<Line("head", h)>> \o Numbered(c, "alarm", n)
                     ELSE <<Line("ok", 0)>>
       IN  /\ alarms \/ n = 0
           /\ Controlled([net EXCEPT ![c].stream = @ \o lines, ![c].req = Tail(@), ![c].sent = @ + n])

Refuse(c) ==
  /\ "refuse" \in Faults /\ Up(c) /\ net[c].req # <<>> /\ Head(net[c].req) = "auth"
  /\ Controlled([net EXCEPT ![c].stream = Append(@, Line("no", 0)), ![c].req = Tail(@)])

Silent(c) ==
  /\ "silent" \in Faults /\ Up(c) /\ net[c].req # <<>>
  /\ Controlled([net EXCEPT ![c].req = Tail(@)])

\* A log line, any time after the authentication.
Emit(c) ==
  /\ Up(c) /\ net[c].sent < MaxLines
  /\ ~(net[c].req # <<>> /\ Head(net[c].req) = "auth")
  /\ LET n == net[c].sent + 1
     IN  Controlled([net EXCEPT ![c].stream = Append(@, Line(IF n \in Empty THEN "blank" ELSE "log", n)),
                                ![c].sent = n])

\* An orderly end leaves what was sent readable, a reset does not.
Fin(c) == "fin" \in Faults /\ Up(c) /\ Controlled([net EXCEPT ![c] = [@ EXCEPT !.peer = "fin", !.req = <<>>]])

Rst(c) ==
  /\ "rst" \in Faults /\ Up(c)
  /\ Controlled([net EXCEPT ![c] = [@ EXCEPT !.peer = "rst", !.req = <<>>, !.stream = <<>>]])

\* The read deadline of Connect or reconnect passes; nothing renews it.
Expire(c) == net[c].open /\ ~net[c].expired /\ Controlled([net EXCEPT ![c].expired = TRUE])

Environment(c) == Answer(c) \/ Refuse(c) \/ Silent(c) \/ Emit(c) \/ Fin(c) \/ Rst(c)

-----------------------------------------------------------------------------

\* The process is gone, or nothing is left that anyone is obliged to do.
Quiescent ==
  /\ \/ panicked
     \/ /\ \A t \in Users : op[t].pc = "idle"
        /\ \A r \in Readers : rd[r].pc \in {"unused", "done"}
  /\ UNCHANGED vars

Next ==
  \/ \E t \in Users : Invoke(t) \/ UserStep(t) \/ UserLock(t)
  \/ \E r \in Readers : ReaderStep(r) \/ ReaderLock(r) \/ Receive(r) \/ Cancel(r)
  \/ \E c \in Conns : Environment(c) \/ Expire(c)
  \/ Quiescent

Spec == Init /\ [][Next]_vars

\* Goroutines are scheduled, sync.Mutex starves no waiter, and deadlines pass.
Fairness ==
  /\ \A t \in Users : WF_vars(UserStep(t)) /\ SF_vars(UserLock(t))
  /\ \A r \in Readers : WF_vars(ReaderStep(r)) /\ SF_vars(ReaderLock(r))
  /\ \A c \in Conns : WF_vars(Expire(c))

FairSpec == Spec /\ Fairness

-----------------------------------------------------------------------------
(* Properties                                                              *)

Line_t == [k : {"ok", "no", "log", "blank", "head", "alarm"}, n : -1..MaxLines]

\* The variables stay in their types, the channels within their capacity.
TypeOK ==
  /\ mutex \in Users \cup Readers \cup {NoOne}
  /\ conn \in 0..dialled /\ connected \in BOOLEAN /\ dialled \in 0..MaxDials
  /\ \A c \in Conns :
       /\ net[c].open \in BOOLEAN /\ net[c].expired \in BOOLEAN
       /\ net[c].peer \in {"up", "fin", "rst"}
       /\ net[c].stream \in Seq(Line_t) /\ net[c].sent \in 0..MaxLines
  /\ \A t \in Users : op[t].c \in 0..dialled /\ op[t].buf \in Seq(Line_t)
  /\ \A r \in Readers :
       /\ rd[r].c \in 0..dialled /\ rd[r].buf \in Seq(Line_t)
       /\ chan[r] \in Seq(Line_t) /\ Len(chan[r]) <= ChanCap

\* No connection leaks: the client keeps open only lr.conn, and the connection that
\* the reconnect holding the mutex is setting up (logs.go:85-116, 195-238).
NoLeak ==
  ~panicked =>
    \A c \in Conns : net[c].open =>
      \/ c = conn
      \/ c = dialled /\ \E r \in Readers : mutex = r /\ rd[r].pc = "reauth"

\* connected is never true of a nil or closed connection, not even while the mutex
\* is held (logs.go:118, 132, 202, 238).
ConnectedIsOpen == connected => conn # 0 /\ net[conn].open

\* A goroutine that alone has called the methods meets no nil lr.conn in them, for no
\* reconnect makes it nil (logs.go:195-238, 347, 352, 423, 428); the connection may be closed
\* or another.  Of two callers one can, and so can a goroutine of ReadLogs that starts after
\* a Connect whose dial failed (logs.go:152): they panic.
CallerNotNil == \A t \in Users :
  (\A u \in Users \ {t} : op[u].m = "none") =>
    /\ op[t].pc \in {"spawn", "command", "reader"} => conn # 0
    /\ op[t].pc \in {"reply", "alarms"} => op[t].c # 0

\* The entries put into a channel, those the consumer has received first.
Entries(r) == delivered[r] \o chan[r]

HasNumber(line) == line.k \in {"log", "alarm"}

\* A channel yields lines in the order in which the controller sent them and none
\* twice, whoever else reads from the connection.
InOrder ==
  \A r \in Readers : LET s == Entries(r) IN \A i, j \in DOMAIN s :
    i < j /\ HasNumber(s[i]) /\ HasNumber(s[j]) => s[i].n < s[j].n

\* While one bufio.Reader is all that reads from a connection, no line between two
\* delivered ones is lost (logs.go:152-188: one reader for the whole loop).
NoGap ==
  \A r \in Readers :
    rd[r].c # 0 /\ net[rd[r].c].bufs = 1 =>
      LET s == Entries(r) IN \A i, j \in DOMAIN s : HasNumber(s[i]) /\ HasNumber(s[j]) =>
        \A n \in (s[i].n + 1)..(s[j].n - 1) :
          n \in Empty \/ \E k \in DOMAIN s : HasNumber(s[k]) /\ s[k].n = n

\* Every method returns, unless the process panics: what it reads is bounded by the deadline
\* Connect left behind, however many alarms are announced (logs.go:101, 363-382).
EveryCallReturns == \A t \in Users : op[t].pc # "idle" ~> op[t].pc = "idle" \/ panicked

\* A reader that was closed is not connected again, nor is any connection open, once the
\* goroutines of ReadLogs have ended, though no further method that connects is called.
\* Until then one of them may take the close for a failure, and reconnect
\* (logs.go:122-137, 147-170).
StaysClosed ==
  userClosed /\ ~panicked /\ (\A r \in Readers : rd[r].pc \in {"unused", "closeChan", "done"}) =>
    ~connected /\ \A c \in Conns : ~net[c].open

\* "Create a reader for the connection" (logs.go:151): a goroutine that waits for a
\* line waits on the live connection.
ReadsLiveConnection ==
  \A r \in Readers : rd[r].pc = "read" /\ connected => rd[r].c = conn
=============================================================================
