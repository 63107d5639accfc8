---------------------------- MODULE LogConsumers ----------------------------
(***************************************************************************)
(* Who reads the log channels of a LogReader: the goroutine of             *)
(* FilterLogsByType (pkg/fanuc/logs.go), the FANUC example                 *)
(* (examples/fanuc), the command line tool in its mode "logs"              *)
(* (cmd/cpppo-go), or any program, which calls, receives and cancels as it *)
(* likes.  One kind of consumer is there in a behaviour.                   *)
(*                                                                         *)
(* The example has two goroutines besides that of ReadLogs.  monitorLogs   *)
(* is a user of the LogReader, as main is in the tool; monitorRegisters is *)
(* kept to its select and the round of reads it makes at each tick, each   *)
(* of which returns (EIPSession, FanucRegisters).                          *)
(***************************************************************************)
EXTENDS LogReader

CONSTANTS
  Bounds,  \* by the kind of consumer, the limits a behaviour is kept to
  Wanted   \* numbers of the lines of the type that is filtered for

ASSUME LogConsumersAssumption ==
  /\ DOMAIN Bounds \subseteq {"any", "filter", "example", "tool"}
  /\ \A k \in DOMAIN Bounds : Bounds[k] \subseteq
       [methods : SUBSET Methods, calls : 0..MaxCalls, lines : 0..MaxLines,
        dials : IF "dial" \in Faults THEN 0..MaxDials ELSE {MaxDials}, ends : SUBSET {"fin", "rst"}]
  /\ Wanted \subseteq 1..MaxLines
  /\ {"example", "tool"} \cap DOMAIN Bounds # {} => \E t \in Users : Users = {t}

VARIABLES
  kind,         \* the kind of consumer
  bound,        \* the methods called, calls, dials, lines of a connection, and ends of one
  filter,       \* the goroutine of FilterLogsByType for each reader: where it is, its entry
  filteredLogs, \* its channel
  filtered,     \* history: entries its consumer has received
  app           \* the example and the tool: ctx, monitorLogs (in the tool what main does
                \* instead of it), monitorRegisters, and main

filterVars == <<filter, filteredLogs, filtered>>
consumerVars == <<kind, bound, filterVars, app>>
allVars == <<vars, consumerVars>>

ConsumersInit ==
  /\ Init
  /\ kind \in DOMAIN Bounds /\ bound \in Bounds[kind]
  /\ filter = [r \in Readers |-> [pc |-> "range", hand |-> <<>>]]
  /\ filteredLogs = [r \in Readers |-> <<>>] /\ filtered = [r \in Readers |-> <<>>]
  /\ app = [ctx |-> "live", logs |-> "alarms", main |-> "wait",
             registers |-> IF kind = "tool" THEN "done" ELSE "select"]

-----------------------------------------------------------------------------
(* FilterLogsByType                                                          *)

IsWanted(line) == line.k \in {"log", "alarm"} /\ line.n \in Wanted

Filter(r) == kind = "filter" /\ filter[r].pc = "range"

\* for entry := range logs
FilterRange(r) ==
  /\ Filter(r) /\ Receive(r)
  /\ IsWanted(Head(chan[r])) =>
       filter' = [filter EXCEPT ![r] = [pc |-> "send", hand |-> <<Head(chan[r])>>]]
  /\ ~IsWanted(Head(chan[r])) => UNCHANGED filter
  /\ UNCHANGED <<kind, bound, filteredLogs, filtered, app>>

\* The channel is closed and empty.
FilterEnd(r) ==
  /\ Filter(r) /\ rd[r].pc = "done" /\ chan[r] = <<>>
  /\ filter' = [filter EXCEPT ![r].pc = "done"]
  /\ UNCHANGED <<vars, kind, bound, filteredLogs, filtered, app>>

FilterPut(r) ==
  /\ filteredLogs' = [filteredLogs EXCEPT ![r] = @ \o filter[r].hand]
  /\ filter' = [filter EXCEPT ![r] = [pc |-> "range", hand |-> <<>>]]

\* Mutant of FilterSend: the send is not in a select with the context.
FilterSendBlocking(r) ==
  /\ kind = "filter" /\ filter[r].pc = "send"
  /\ Len(filteredLogs[r]) < ChanCap /\ FilterPut(r)
  /\ UNCHANGED <<vars, kind, bound, filtered, app>>

\* Mutant of FilterSend: an entry for which there is no room is dropped.
FilterSendDrops(r) ==
  /\ kind = "filter" /\ filter[r].pc = "send"
  /\ \/ Len(filteredLogs[r]) < ChanCap /\ FilterPut(r)
     \/ /\ Len(filteredLogs[r]) = ChanCap
        /\ filter' = [filter EXCEPT ![r] = [pc |-> "range", hand |-> <<>>]]
        /\ UNCHANGED filteredLogs
  /\ UNCHANGED <<vars, kind, bound, filtered, app>>

\* The select; when the context is done the goroutine may return, and leaves logs as it is.
FilterSend(r) ==
  /\ kind = "filter" /\ filter[r].pc = "send"
  /\ \/ Len(filteredLogs[r]) < ChanCap /\ FilterPut(r)
     \/ cancelled[r] /\ filter' = [filter EXCEPT ![r].pc = "done"] /\ UNCHANGED filteredLogs
  /\ UNCHANGED <<vars, kind, bound, filtered, app>>

\* The consumer of the filtered channel
FilterReceive(r) ==
  /\ filteredLogs[r] # <<>>
  /\ filtered' = [filtered EXCEPT ![r] = Append(@, Head(filteredLogs[r]))]
  /\ filteredLogs' = [filteredLogs EXCEPT ![r] = Tail(@)]
  /\ UNCHANGED <<vars, kind, bound, filter, app>>

FilterStep(r) == FilterRange(r) \/ FilterEnd(r) \/ FilterSend(r)

-----------------------------------------------------------------------------
(* The FANUC example and the command line tool                               *)

Example == kind = "example"
Tool == kind = "tool"
AppAt(part, p) == app' = [app EXCEPT ![part] = p] /\ UNCHANGED <<kind, bound, filterVars>>

CtxDone ==
  /\ app.ctx = "live"
  /\ AppAt("ctx", "done")
  /\ cancelled' = [r \in Readers |-> TRUE]
  /\ UNCHANGED <<mutex, connVars, wireVars, calls, op, rd, chan, delivered, panicked, userClosed>>

\* The signal handler cancels the context that all share; a second signal is not read.
Interrupt == Example /\ CtxDone

\* The tool gives the stream 30 seconds from the return of GetLatestAlarms.
Timeout ==
  /\ Tool /\ app.logs \in {"start", "started", "select"}
  /\ app.logs = "start" => \A t \in Users : op[t].pc = "idle"
  /\ CtxDone

\* A method of the LogReader is called.
Calling(t, m, next) ==
  /\ Example \/ Tool
  /\ op[t].pc = "idle" /\ Invoke(t) /\ op'[t].m = m
  /\ AppAt("logs", next)

GetLatestAlarms(t) == app.logs = "alarms" /\ Calling(t, "GetLatestAlarms", "start")
StartRemoteLogMonitor(t) == app.logs = "start" /\ Calling(t, "StartRemoteLogMonitor", "started")

\* An error of GetLatestAlarms, which LogReader does not record, is fatal in the tool only.
AlarmsFail(t) ==
  /\ Tool /\ app.logs = "start" /\ op[t].pc = "idle"
  /\ AppAt("logs", "done")
  /\ UNCHANGED vars

\* An error of StartRemoteLogMonitor ends monitorLogs, and the tool.
Started(t) ==
  /\ app.logs = "started" /\ op[t].pc = "idle"
  /\ AppAt("logs", IF rd[op[t].id].pc = "unused" THEN "done" ELSE "select")
  /\ UNCHANGED vars

\* The select of monitorLogs: the context, an entry, or the closed channel.  The tool ranges
\* over the channel.
StopRemoteLogMonitor(t) ==
  /\ Example /\ app.logs = "select" /\ app.ctx = "done" /\ Calling(t, "StopRemoteLogMonitor", "stopped")

Entry(t) ==
  /\ app.logs = "select" /\ Receive(op[t].id)
  /\ UNCHANGED consumerVars

ChannelClosed(t) ==
  /\ app.logs = "select"
  /\ rd[op[t].id].pc = "done" /\ chan[op[t].id] = <<>>
  /\ AppAt("logs", "done")
  /\ UNCHANGED vars

Stopped(t) ==
  /\ app.logs = "stopped" /\ op[t].pc = "idle"
  /\ AppAt("logs", "done")
  /\ UNCHANGED vars

monitorLogs(t) ==
  \/ GetLatestAlarms(t) \/ AlarmsFail(t) \/ StartRemoteLogMonitor(t) \/ Started(t)
  \/ StopRemoteLogMonitor(t) \/ Entry(t) \/ ChannelClosed(t) \/ Stopped(t)

\* Mutant of RegistersDone: only the ticker is waited for.
RegistersGoOn == FALSE

RegistersDone ==
  /\ Example /\ app.registers = "select" /\ app.ctx = "done"
  /\ AppAt("registers", "done")
  /\ UNCHANGED vars

\* A tick, and the round of reads, whose errors are printed
Tick == Example /\ app.registers = "select" /\ AppAt("registers", "reads") /\ UNCHANGED vars
RegistersRead == Example /\ app.registers = "reads" /\ AppAt("registers", "select") /\ UNCHANGED vars

\* wg.Wait returns, and main closes the FanucClient, as it does in the tool.  The goroutine of
\* ReadLogs is not waited for.
Shutdown ==
  /\ app.logs = "done" /\ app.registers = "done" /\ app.main = "wait"
  /\ AppAt("main", "done")
  /\ UNCHANGED vars

AppStep == RegistersRead \/ Shutdown \/ \E t \in Users : monitorLogs(t)

-----------------------------------------------------------------------------

\* What the LogReader and the controller do whoever consumes, within the bound.
Running ==
  /\ \/ \E t \in Users : UserStep(t) \/ UserLock(t)
     \/ \E r \in Readers : ReaderStep(r) \/ ReaderLock(r)
     \/ \E c \in Conns : Environment(c) \/ Expire(c)
  /\ dialled' =< bound.dials
  /\ \A c \in Conns : net'[c].sent =< bound.lines /\ net'[c].peer \in {"up"} \cup bound.ends

\* Other programs call what they like.
InvokeAny(t) ==
  /\ ~Example /\ ~Tool /\ calls < bound.calls
  /\ Invoke(t) /\ op'[t].m \in bound.methods

Quiet ==
  /\ Quiescent
  /\ kind = "filter" => panicked \/ \A r \in Readers : rd[r].pc = "done" => filter[r].pc = "done"
  /\ Example \/ Tool => panicked \/ app.main = "done"

ConsumersNext ==
  \/ (Running \/ Quiet) /\ UNCHANGED consumerVars
  \/ (\E t \in Users : InvokeAny(t)) /\ UNCHANGED consumerVars
  \/ (~Example /\ ~Tool /\ \E r \in Readers : Cancel(r)) /\ UNCHANGED consumerVars
  \/ (kind = "any" /\ \E r \in Readers : Receive(r)) /\ UNCHANGED consumerVars
  \/ \E r \in Readers : FilterStep(r) \/ FilterReceive(r)
  \/ Interrupt \/ Timeout \/ AppStep \/ RegistersDone \/ Tick

ConsumersSpec == ConsumersInit /\ [][ConsumersNext]_allVars

\* Goroutines are scheduled, a select chooses each of its branches again and again, and the
\* 30 seconds pass.
ConsumersFairness ==
  /\ \A t \in Users : WF_allVars(UserStep(t) /\ UNCHANGED consumerVars)
                   /\ SF_allVars(UserLock(t) /\ UNCHANGED consumerVars)
  /\ \A r \in Readers : /\ WF_allVars(ReaderStep(r) /\ UNCHANGED consumerVars)
                        /\ SF_allVars(ReaderLock(r) /\ UNCHANGED consumerVars)
                        /\ WF_allVars(FilterStep(r))
  /\ \A c \in Conns : WF_allVars(Expire(c) /\ UNCHANGED consumerVars)
  /\ WF_allVars(AppStep) /\ WF_allVars(Timeout) /\ SF_allVars(RegistersDone)

ConsumersFairSpec == ConsumersSpec /\ ConsumersFairness

-----------------------------------------------------------------------------
(* Properties                                                                *)

\* A filtered channel yields the wanted entries of the channel before it, all of them and in
\* their order; when the context is done one may be missing at the end, and what is still in
\* the channel before it (logs.go:311-335).
FilterKeepsAll ==
  \A r \in Readers : kind = "filter" =>
    LET out == filtered[r] \o filteredLogs[r] \o filter[r].hand
    IN  /\ {out[i] : i \in DOMAIN out} =
             {delivered[r][i] : i \in {j \in DOMAIN delivered[r] : IsWanted(delivered[r][j])}}
        /\ \A i, j \in DOMAIN out : i < j => out[i].n < out[j].n

\* A cancelled context ends the goroutine of ReadLogs and that of FilterLogsByType, whatever
\* they were blocked on and although nobody receives any more: two channels may be full, and
\* the deadlines of Connect and reconnect bound every read (logs.go:147-190, 319-332).
CancelEndsPipeline == \A r \in Readers :
  cancelled[r] /\ rd[r].pc # "unused" ~>
    panicked \/ (rd[r].pc = "done" /\ (kind = "filter" => filter[r].pc = "done"))

\* An interrupt ends the FANUC example, whatever its goroutines are at, also while the alarms
\* are being read, which no context can stop; and the tool ends by itself, though it waits
\* for nothing but the end of its channel (examples/fanuc/main.go:16-180,
\* cmd/cpppo-go/main.go:216-256).
ProgramsEnd == app.ctx = "done" \/ Tool ~> app.main = "done" \/ panicked
=============================================================================
