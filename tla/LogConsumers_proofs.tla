-------------------------- MODULE LogConsumers_proofs --------------------------
(***************************************************************************)
(* What is proved of a LogReader alone, proved of it with the consumers of *)
(* its channels, and FilterKeepsAll of LogConsumers.                       *)
(*                                                                         *)
(* A step of LogConsumers is a step of LogReader, or one that only cancels *)
(* contexts, or leaves LogReader alone.  ConsumersInv adds to IInv that    *)
(* the example and the tool receive from the channel of a goroutine that   *)
(* there is, and what a filtered channel, its goroutine and its consumer   *)
(* have of the entries.                                                    *)
(***************************************************************************)
EXTENDS LogConsumers, LogStream_proofs

-----------------------------------------------------------------------------

App_t == [ctx : {"live", "done"}, logs : {"alarms", "start", "started", "select", "stopped", "done"},
          main : {"wait", "done"}, registers : {"select", "reads", "done"}]

\* The example and the tool have one user, whose call has started the goroutine.
AppInv ==
  /\ kind \in DOMAIN Bounds
  /\ app \in App_t
  /\ app.logs \in {"started", "select"} => (Example \/ Tool) /\ \A t \in Users : op[t].id \in Readers

Filter_t == [pc : {"range", "send", "done"}, hand : Lines_t]

FilterTypes ==
  /\ filter \in [Readers -> Filter_t]
  /\ filteredLogs \in [Readers -> Lines_t] /\ filtered \in [Readers -> Lines_t]

\* What came out of the filter of a reader, what waits, and what is in its hand
Out(r) == filtered[r] \o filteredLogs[r] \o filter[r].hand

Elements(s) == {s[i] : i \in DOMAIN s}
WantedOf(s) == {s[i] : i \in {j \in DOMAIN s : IsWanted(s[j])}}

FilterOf(r) ==
  /\ filter[r].pc = "range" => filter[r].hand = <<>>
  /\ Elements(Out(r)) = WantedOf(delivered[r]) /\ Asc(Out(r))

FilterInv == FilterTypes /\ (kind = "filter" => \A r \in Readers : FilterOf(r))

ConsumersInv == IInv /\ AppInv /\ FilterInv

-----------------------------------------------------------------------------
(* A step of LogConsumers, as LogReader sees it                            *)

\* The number of a call stays until the next one, which has a number.
LEMMA IdsStay ==
  ASSUME Base, Step \/ UNCHANGED vars, NEW u \in Users, op[u].id \in Readers
  PROVE  op'[u].id \in Readers
  <1>1. Types
    BY DEF Base
  <1>2. ASSUME op' = op PROVE op'[u].id \in Readers
    BY <1>2
  <1>3. ASSUME Panic PROVE op'[u].id \in Readers
    BY <1>1, <1>3 DEF Panic, Types, Op_t
  <1>4. ASSUME NEW t \in Users, Invoke(t) PROVE op'[u].id \in Readers
    <2>1. PICK m, p : InvokeAs(t, m, p)
      BY <1>4, InvokeShape
    <2>2. /\ \A v \in Users \ {t} : op'[v] = op[v]
          /\ op'[t].id = calls + 1 /\ calls < MaxCalls
      BY <1>1, <1>4, <2>1, InvokeMoves
    <2>3. calls + 1 \in Readers
      BY <1>1, <2>2, Apart DEF Types, Readers
    <2> QED BY <2>2, <2>3
  <1>5. ASSUME NEW t \in Users, UserStep(t) \/ UserLock(t) PROVE op'[u].id \in Readers
    BY <1>1, <1>3, <1>5, UserMoves DEF MoveOf
  <1>6. ASSUME NEW r \in Readers, ReaderStep(r) \/ ReaderLock(r) PROVE op'[u].id \in Readers
    BY <1>1, <1>3, <1>6, ReaderMoves DEF TurnOf
  <1>7. ASSUME NEW r \in Readers, Receive(r) PROVE op'[u].id \in Readers
    BY <1>2, <1>7 DEF Receive
  <1>8. ASSUME NEW c \in Conns, Environment(c) \/ Expire(c) PROVE op'[u].id \in Readers
    BY <1>1, <1>2, <1>8, NetShape DEF NetStep
  <1>9. ASSUME Aside \/ UNCHANGED vars PROVE op'[u].id \in Readers
    BY <1>2, <1>9 DEF Aside, vars
  <1> QED BY <1>4, <1>5, <1>6, <1>7, <1>8, <1>9, StepCases

LEMMA InvokeIsStep == \A t \in Users : Invoke(t) => Step
  BY DEF Step, Next

LEMMA ReceiveIsStep == \A r \in Readers : Receive(r) => Step
  BY DEF Step, Next

LEMMA CtxIsStep == CtxDone => Step
  BY DEF CtxDone, Aside, Step

LEMMA RunningIsStep == Running => Step
  BY DEF Running, Step, Next

\* What the example and the tool do
LEMMA AppIsStep ==
  ASSUME Base, AppInv, NEW t \in Users, monitorLogs(t)
  PROVE  Step \/ UNCHANGED vars
  <1>1. CASE Entry(t)
    <2>1. op[t].id \in Readers
      BY <1>1 DEF Entry, AppInv
    <2> QED BY <1>1, <2>1, ReceiveIsStep DEF Entry
  <1>2. CASE GetLatestAlarms(t) \/ StartRemoteLogMonitor(t) \/ StopRemoteLogMonitor(t)
    BY <1>2, InvokeIsStep DEF GetLatestAlarms, StartRemoteLogMonitor, StopRemoteLogMonitor, Calling
  <1>3. CASE AlarmsFail(t) \/ Started(t) \/ ChannelClosed(t) \/ Stopped(t)
    BY <1>3 DEF AlarmsFail, Started, ChannelClosed, Stopped
  <1> QED BY <1>1, <1>2, <1>3 DEF monitorLogs

LEMMA ConsumersStep ==
  ASSUME Base, AppInv, ConsumersNext \/ UNCHANGED allVars
  PROVE  Step \/ UNCHANGED vars
  <1>1. CASE Running \/ Quiet
    BY <1>1, RunningIsStep DEF Quiet, Quiescent
  <1>2. CASE \E t \in Users : InvokeAny(t)
    BY <1>2, InvokeIsStep DEF InvokeAny
  <1>3. CASE \E r \in Readers : Cancel(r) \/ Receive(r)
    BY <1>3 DEF Step, Next
  <1>4. CASE \E r \in Readers : FilterStep(r) \/ FilterReceive(r)
    BY <1>4, ReceiveIsStep DEF FilterStep, FilterRange, FilterEnd, FilterSend, FilterReceive
  <1>5. CASE Interrupt \/ Timeout
    BY <1>5, CtxIsStep DEF Interrupt, Timeout
  <1>6. CASE AppStep
    BY <1>6, AppIsStep DEF AppStep, RegistersRead, Shutdown
  <1>7. CASE RegistersDone \/ Tick
    BY <1>7 DEF RegistersDone, Tick
  <1>8. CASE UNCHANGED allVars
    BY <1>8 DEF allVars
  <1> QED BY <1>1, <1>2, <1>3, <1>4, <1>5, <1>6, <1>7, <1>8 DEF ConsumersNext

-----------------------------------------------------------------------------
(* The example, the tool and the filter                                    *)

\* All steps but those of the filter leave its state alone, and while it filters nobody
\* else receives.
LEMMA AppKeeps ==
  ASSUME AppInv, ConsumersNext \/ UNCHANGED allVars,
         \A r \in Readers : ~FilterStep(r) /\ ~FilterReceive(r)
  PROVE  UNCHANGED <<kind, filter, filteredLogs, filtered>> /\ (kind = "filter" => delivered' = delivered)
  <1>1. CASE (Running \/ Quiet) /\ UNCHANGED consumerVars
    <2>1. Quiet => delivered' = delivered
      BY DEF Quiet, Quiescent, vars, chanVars
    <2>2. ASSUME NEW t \in Users, UserStep(t) \/ UserLock(t) PROVE delivered' = delivered
      BY <2>2 DEF UserStep, UserLock, ConnectAuth, Spawn, Command, CommandReader, CommandRead, ReadLine, StopReply,
                  ConnectAlready, ConnectDial, Close, Stop, chanVars
    <2>3. ASSUME NEW r \in Readers, ReaderStep(r) \/ ReaderLock(r) PROVE delivered' = delivered
      BY <2>3 DEF ReaderStep, ReaderLock, ReaderStart, ReaderPoll, ReaderRead, ReaderSend, ReconnectAuth,
                  CloseChan, Reconnect, ReaderClose, chanVars
    <2>4. ASSUME NEW c \in Conns, Environment(c) \/ Expire(c) PROVE delivered' = delivered
      BY <2>4 DEF Environment, Answer, Refuse, Silent, Emit, Fin, Rst, Expire, Controlled, chanVars
    <2> QED BY <1>1, <2>1, <2>2, <2>3, <2>4 DEF Running, consumerVars, filterVars
  <1>2. CASE (\E t \in Users : InvokeAny(t)) /\ UNCHANGED consumerVars
    BY <1>2 DEF InvokeAny, Invoke, chanVars, consumerVars, filterVars
  <1>3. CASE (\E r \in Readers : Cancel(r)) /\ UNCHANGED consumerVars
    BY <1>3 DEF Cancel, consumerVars, filterVars
  <1>4. CASE kind = "any" /\ UNCHANGED consumerVars
    BY <1>4 DEF consumerVars, filterVars
  <1>5. CASE Interrupt \/ Timeout
    BY <1>5 DEF Interrupt, Timeout, CtxDone, AppAt, filterVars
  <1>6. CASE AppStep
    <2>1. ASSUME NEW t \in Users, monitorLogs(t)
          PROVE  UNCHANGED <<kind, filter, filteredLogs, filtered>> /\ (kind = "filter" => delivered' = delivered)
      <3>1. CASE Entry(t)
        BY <3>1 DEF Entry, AppInv, Example, Tool, consumerVars, filterVars
      <3>2. CASE GetLatestAlarms(t) \/ StartRemoteLogMonitor(t) \/ StopRemoteLogMonitor(t)
        BY <3>2 DEF GetLatestAlarms, StartRemoteLogMonitor, StopRemoteLogMonitor, Calling, Invoke, chanVars,
                    AppAt, filterVars
      <3>3. CASE AlarmsFail(t) \/ Started(t) \/ ChannelClosed(t) \/ Stopped(t)
        BY <3>3 DEF AlarmsFail, Started, ChannelClosed, Stopped, AppAt, filterVars, vars, chanVars
      <3> QED BY <2>1, <3>1, <3>2, <3>3 DEF monitorLogs
    <2>2. CASE RegistersRead \/ Shutdown
      BY <2>2 DEF RegistersRead, Shutdown, AppAt, filterVars, vars, chanVars
    <2> QED BY <1>6, <2>1, <2>2 DEF AppStep
  <1>7. CASE RegistersDone \/ Tick
    BY <1>7 DEF RegistersDone, Tick, AppAt, filterVars, vars, chanVars
  <1>8. CASE UNCHANGED allVars
    BY <1>8 DEF allVars, consumerVars, filterVars, vars, chanVars
  <1> QED BY <1>1, <1>2, <1>3, <1>4, <1>5, <1>6, <1>7, <1>8 DEF ConsumersNext

LEMMA AppKept ==
  ASSUME Base, AppInv, ConsumersNext \/ UNCHANGED allVars
  PROVE  AppInv'
  <1>1. Types /\ (Step \/ UNCHANGED vars)
    BY ConsumersStep DEF Base
  <1>2. \A u \in Users : op[u].id \in Readers => op'[u].id \in Readers
    BY <1>1, IdsStay DEF Base
  <1>3. ASSUME kind' = kind, app' = app PROVE AppInv'
    BY <1>2, <1>3 DEF AppInv, Example, Tool
  <1>4. ASSUME NEW p \in {"start", "stopped", "done", "select"}, AppAt("logs", p),
               p = "select" => app.logs \in {"started", "select"}
        PROVE  AppInv'
    <2>1. kind' = kind /\ app' \in App_t /\ app'.logs = p
      BY <1>4 DEF AppAt, AppInv, App_t
    <2> QED BY <1>2, <1>4, <2>1 DEF AppInv, Example, Tool
  <1>other. ASSUME \/ AppAt("ctx", "done") \/ AppAt("main", "done") \/ AppAt("registers", "done")
                   \/ AppAt("registers", "reads") \/ AppAt("registers", "select")
            PROVE  AppInv'
    <2>1. kind' = kind /\ app' \in App_t /\ app'.logs = app.logs
      BY <1>other DEF AppAt, AppInv, App_t
    <2> QED BY <1>2, <2>1 DEF AppInv, Example, Tool
  <1>5. CASE (Running \/ Quiet \/ (\E t \in Users : InvokeAny(t)) \/ \E r \in Readers : Cancel(r) \/ Receive(r))
             /\ UNCHANGED consumerVars
    BY <1>3, <1>5 DEF consumerVars
  <1>6. CASE \E r \in Readers : FilterStep(r) \/ FilterReceive(r)
    BY <1>3, <1>6 DEF FilterStep, FilterRange, FilterEnd, FilterSend, FilterReceive
  <1>7. CASE Interrupt \/ Timeout
    BY <1>other, <1>7 DEF Interrupt, Timeout, CtxDone
  <1>8. CASE AppStep
    <2>1. ASSUME NEW t \in Users, StartRemoteLogMonitor(t) PROVE AppInv'
      <3>1. (Example \/ Tool) /\ Invoke(t) /\ AppAt("logs", "started")
        BY <2>1 DEF StartRemoteLogMonitor, Calling
      <3>2. op'[t].id \in Readers
        <4>1. PICK m, p : InvokeAs(t, m, p)
          BY <3>1, InvokeShape
        <4>2. op'[t].id = calls + 1 /\ calls < MaxCalls
          BY <1>1, <3>1, <4>1, InvokeMoves
        <4> QED BY <1>1, <4>2, Apart DEF Types, Readers
      <3>3. {"example", "tool"} \cap DOMAIN Bounds # {}
        BY <3>1 DEF AppInv, Example, Tool
      <3>4. \A u \in Users : u = t
        BY <3>3, LogConsumersAssumption DEF LogConsumersAssumption
      <3>5. kind' = kind /\ app' \in App_t
        BY <3>1 DEF AppAt, AppInv, App_t
      <3> QED BY <3>1, <3>2, <3>4, <3>5 DEF AppInv, Example, Tool
    <2>2. ASSUME NEW t \in Users, Started(t) PROVE AppInv'
      <3>1. PICK p \in {"done", "select"} : AppAt("logs", p)
        BY <2>2 DEF Started
      <3> QED BY <1>4, <2>2, <3>1 DEF Started
    <2>3. ASSUME NEW t \in Users, Entry(t) PROVE AppInv'
      BY <1>3, <2>3 DEF Entry, consumerVars
    <2>4. ASSUME NEW t \in Users, \/ GetLatestAlarms(t) \/ AlarmsFail(t) \/ StopRemoteLogMonitor(t)
                                  \/ ChannelClosed(t) \/ Stopped(t)
          PROVE  AppInv'
      <3>1. PICK p \in {"start", "done", "stopped"} : AppAt("logs", p)
        BY <2>4 DEF GetLatestAlarms, AlarmsFail, StopRemoteLogMonitor, ChannelClosed, Stopped, Calling
      <3> QED BY <1>4, <3>1
    <2>5. CASE RegistersRead \/ Shutdown
      BY <1>other, <2>5 DEF RegistersRead, Shutdown
    <2> QED BY <1>8, <2>1, <2>2, <2>3, <2>4, <2>5 DEF AppStep, monitorLogs
  <1>9. CASE RegistersDone \/ Tick
    BY <1>other, <1>9 DEF RegistersDone, Tick
  <1>10. CASE UNCHANGED allVars
    BY <1>3, <1>10 DEF allVars, consumerVars
  <1> QED BY <1>5, <1>6, <1>7, <1>8, <1>9, <1>10 DEF ConsumersNext

-----------------------------------------------------------------------------
(* The filter                                                              *)

LEMMA ConcatElements ==
  ASSUME NEW s \in Lines_t, NEW u \in Lines_t
  PROVE  /\ Elements(s \o u) = Elements(s) \cup Elements(u)
         /\ WantedOf(s \o u) = WantedOf(s) \cup WantedOf(u)
  <1> DEFINE w == s \o u
  <1>1. /\ w \in Seq(Line_t) /\ Len(w) = Len(s) + Len(u)
        /\ \A i \in 1..Len(s) + Len(u) : w[i] = IF i <= Len(s) THEN s[i] ELSE u[i - Len(s)]
    BY ConcatProperties DEF Lines_t
  <1>2. /\ Len(s) \in Nat /\ DOMAIN s = 1..Len(s) /\ Len(u) \in Nat /\ DOMAIN u = 1..Len(u)
        /\ DOMAIN w = 1..Len(w)
    BY <1>1, LenNat DEF Lines_t
  <1> HIDE DEF w
  <1>3. \A i \in DOMAIN s : i \in DOMAIN w /\ w[i] = s[i]
    BY <1>1, <1>2
  <1>4. \A i \in DOMAIN u : Len(s) + i \in DOMAIN w /\ w[Len(s) + i] = u[i]
    BY <1>1, <1>2
  <1>5. \A i \in DOMAIN w : (i \in DOMAIN s /\ w[i] = s[i]) \/ (i - Len(s) \in DOMAIN u /\ w[i] = u[i - Len(s)])
    BY <1>1, <1>2
  <1>6. Elements(w) = Elements(s) \cup Elements(u)
    <2>1. Elements(w) \subseteq Elements(s) \cup Elements(u)
      BY <1>5 DEF Elements
    <2>2. Elements(s) \subseteq Elements(w)
      BY <1>3 DEF Elements
    <2>3. Elements(u) \subseteq Elements(w)
      BY <1>4 DEF Elements
    <2> QED BY <2>1, <2>2, <2>3
  <1>7. WantedOf(w) = WantedOf(s) \cup WantedOf(u)
    <2>1. WantedOf(w) \subseteq WantedOf(s) \cup WantedOf(u)
      BY <1>5 DEF WantedOf
    <2>2. WantedOf(s) \subseteq WantedOf(w)
      BY <1>3 DEF WantedOf
    <2>3. WantedOf(u) \subseteq WantedOf(w)
      BY <1>4 DEF WantedOf
    <2> QED BY <2>1, <2>2, <2>3
  <1> QED BY <1>6, <1>7 DEF w

LEMMA SingleElements ==
  ASSUME NEW x \in Line_t
  PROVE  <<x>> \in Lines_t /\ Elements(<<x>>) = {x} /\ WantedOf(<<x>>) = IF IsWanted(x) THEN {x} ELSE {}
  <1>1. <<x>> \in Seq(Line_t) /\ DOMAIN <<x>> = {1} /\ <<x>>[1] = x
    OBVIOUS
  <1> QED BY <1>1 DEF Elements, WantedOf, Lines_t

LEMMA OneMore ==
  ASSUME NEW s \in Lines_t, NEW x \in Line_t
  PROVE  /\ Elements(s \o <<x>>) = Elements(s) \cup {x}
         /\ WantedOf(s \o <<x>>) = WantedOf(s) \cup (IF IsWanted(x) THEN {x} ELSE {})
  <1> DEFINE e == <<x>>
  <1>1. e \in Lines_t /\ Elements(e) = {x} /\ WantedOf(e) = IF IsWanted(x) THEN {x} ELSE {}
    BY SingleElements
  <1> HIDE DEF e
  <1>2. Elements(s \o e) = Elements(s) \cup Elements(e) /\ WantedOf(s \o e) = WantedOf(s) \cup WantedOf(e)
    BY <1>1, ConcatElements
  <1>3. Elements(s \o e) = Elements(s) \cup {x} /\ WantedOf(s \o e) = WantedOf(s) \cup (IF IsWanted(x) THEN {x} ELSE {})
    BY <1>1, <1>2
  <1> QED BY <1>3 DEF e

LEMMA Associates == \A s, u, v \in Lines_t : (s \o u) \o v = s \o (u \o v)
  <1>1. \A s, u, v \in Seq(Line_t) : (s \o u) \o v = s \o (u \o v)
    BY ConcatAssociative
  <1> QED BY <1>1 DEF Lines_t

LEMMA Concats == \A s, u \in Lines_t : s \o u \in Lines_t /\ s \o <<>> = s
  <1>1. \A s, u \in Seq(Line_t) : s \o u \in Seq(Line_t)
    BY ConcatProperties
  <1>2. \A s \in Seq(Line_t) : s \o <<>> = s
    BY ConcatEmptySeq
  <1> QED BY <1>1, <1>2 DEF Lines_t

\* The wanted entries of a sequence are among its numbered ones.
LEMMA WantedNumbered ==
  ASSUME NEW s, NEW u, Elements(u) = WantedOf(s)
  PROVE  Nums(u) \subseteq Nums(s) /\ \A i \in DOMAIN u : HasNumber(u[i])
  <1>1. \A i \in DOMAIN u : \E j \in DOMAIN s : u[i] = s[j] /\ IsWanted(s[j])
    BY DEF Elements, WantedOf
  <1>2. \A j \in DOMAIN s : IsWanted(s[j]) => HasNumber(s[j])
    BY DEF IsWanted, HasNumber
  <1> QED BY <1>1, <1>2 DEF Nums

\* An entry is received from the channel, and kept when it is of the type.
LEMMA FilterRanges ==
  ASSUME Base, InOrder, FilterTypes, NEW r \in Readers, FilterRange(r), FilterOf(r)
  PROVE  FilterTypes' /\ FilterOf(r)' /\ \A q \in Readers \ {r} : filter'[q] = filter[q] /\ delivered'[q] = delivered[q]
  <1> DEFINE x == Head(chan[r])
             o == filtered[r] \o filteredLogs[r]
  <1>1. Types /\ Receive(r) /\ filter[r].pc = "range" /\ filter[r].hand = <<>> /\ UNCHANGED <<filteredLogs, filtered>>
    BY DEF Base, FilterRange, Filter, FilterOf
  <1>2. /\ chan[r] \in Lines_t /\ delivered[r] \in Lines_t /\ chan[r] # <<>>
        /\ filtered[r] \in Lines_t /\ filteredLogs[r] \in Lines_t
    BY <1>1 DEF Types, Receive, FilterTypes
  <1>3. x \in Line_t /\ <<x>> \in Lines_t /\ Tail(chan[r]) \in Lines_t /\ chan[r] = <<x>> \o Tail(chan[r])
    BY <1>2, FirstAndRest
  <1>4. delivered'[r] = delivered[r] \o <<x>> /\ \A q \in Readers \ {r} : delivered'[q] = delivered[q]
    <2>1. delivered'[r] = Append(delivered[r], x) /\ \A q \in Readers \ {r} : delivered'[q] = delivered[q]
      BY <1>1 DEF Receive, Types
    <2> QED BY <1>2, <1>3, <2>1, AppendIsConcat DEF Lines_t
  <1>5. o \in Lines_t /\ o \o <<>> = o /\ o \o <<x>> \in Lines_t
    BY <1>2, <1>3, Concats, NumsEmpty
  <1>6. Elements(o) = WantedOf(delivered[r]) /\ Asc(o)
    BY <1>1, <1>5 DEF FilterOf, Out
  <1>7. WantedOf(delivered'[r]) = WantedOf(delivered[r]) \cup (IF IsWanted(x) THEN {x} ELSE {})
    <2> HIDE DEF x
    <2>1. WantedOf(delivered[r] \o <<x>>) = WantedOf(delivered[r]) \cup (IF IsWanted(x) THEN {x} ELSE {})
      BY <1>2, <1>3, OneMore
    <2> QED BY <1>4, <2>1
  <1> HIDE DEF x, o
  <1>8. CASE IsWanted(x)
    <2>1. filter' = [filter EXCEPT ![r] = [pc |-> "send", hand |-> <<x>>]]
      BY <1>8 DEF FilterRange, x
    <2>2. filter'[r] = [pc |-> "send", hand |-> <<x>>] /\ \A q \in Readers \ {r} : filter'[q] = filter[q]
      BY <2>1 DEF FilterTypes
    <2>3. FilterTypes'
      BY <1>1, <1>3, <2>1 DEF FilterTypes, Filter_t
    <2>4. Out(r)' = o \o <<x>>
      <3>1. filter'[r].hand = <<x>> /\ filtered'[r] = filtered[r] /\ filteredLogs'[r] = filteredLogs[r]
        BY <1>1, <2>2
      <3> QED BY <3>1, Zenon DEF Out, o
    <2>5. Elements(o \o <<x>>) = WantedOf(delivered[r]) \cup {x}
      BY <1>3, <1>5, <1>6, OneMore
    <2>6. Asc(o \o <<x>>)
      <3>1. Asc(delivered[r] \o chan[r])
        BY DEF InOrder, Entries, Asc
      <3>2. Below(Nums(delivered[r]), Nums(chan[r]))
        BY <1>2, <3>1, AscConcat
      <3>3. Nums(<<x>>) \subseteq Nums(chan[r])
        BY <1>3, NumsConcat
      <3>4. Nums(o) \subseteq Nums(delivered[r])
        BY <1>6, WantedNumbered
      <3>5. Below(Nums(o), Nums(<<x>>)) /\ Asc(<<x>>)
        BY <1>3, <3>2, <3>3, <3>4, NumsSingle DEF Below
      <3> QED BY <1>3, <1>5, <1>6, <3>5, AscConcat
    <2>7. FilterOf(r)'
      BY <1>7, <1>8, <2>2, <2>4, <2>5, <2>6 DEF FilterOf
    <2> QED BY <1>4, <2>2, <2>3, <2>7
  <1>9. CASE ~IsWanted(x)
    <2>1. filter' = filter
      BY <1>9 DEF FilterRange, x
    <2>2. Out(r)' = o
      BY <1>1, <1>5, <2>1 DEF Out, o
    <2>3. FilterOf(r)'
      BY <1>1, <1>6, <1>7, <1>9, <2>1, <2>2 DEF FilterOf
    <2>4. FilterTypes'
      BY <1>1, <2>1 DEF FilterTypes
    <2> QED BY <1>4, <2>1, <2>3, <2>4
  <1> QED BY <1>8, <1>9

\* What is in the hand goes to the channel, and from there to the consumer.
LEMMA FilterMoves ==
  ASSUME FilterTypes, NEW r \in Readers, FilterEnd(r) \/ FilterSend(r) \/ FilterReceive(r)
  PROVE  /\ FilterTypes' /\ UNCHANGED <<kind, delivered>>
         /\ FilterOf(r) => FilterOf(r)'
         /\ \A q \in Readers \ {r} : filter'[q] = filter[q] /\ filtered'[q] = filtered[q]
                                     /\ filteredLogs'[q] = filteredLogs[q]
  <1>1. UNCHANGED <<kind, delivered>>
    BY DEF FilterEnd, FilterSend, FilterReceive, vars, chanVars
  <1>2. filtered[r] \in Lines_t /\ filteredLogs[r] \in Lines_t /\ filter[r] \in Filter_t /\ filter[r].hand \in Lines_t
    BY DEF FilterTypes, Filter_t
  <1>3. ASSUME Out(r)' = Out(r), filter'[r].pc = "range" => filter'[r].hand = <<>> PROVE FilterOf(r) => FilterOf(r)'
    BY <1>1, <1>3 DEF FilterOf
  <1>4. CASE FilterEnd(r)
    <2>1. UNCHANGED <<filteredLogs, filtered>> /\ filter' = [filter EXCEPT ![r].pc = "done"]
      BY <1>4 DEF FilterEnd
    <2>2. filter'[r].pc = "done" /\ filter'[r].hand = filter[r].hand /\ \A q \in Readers \ {r} : filter'[q] = filter[q]
      BY <1>2, <2>1 DEF FilterTypes, Filter_t
    <2>3. FilterTypes' /\ Out(r)' = Out(r)
      BY <1>2, <2>1, <2>2 DEF FilterTypes, Filter_t, Out
    <2> QED BY <1>1, <1>3, <2>1, <2>2, <2>3
  <1>5. CASE FilterSend(r)
    <2>1. CASE FilterPut(r)
      <3>1. /\ filtered' = filtered
            /\ filteredLogs' = [filteredLogs EXCEPT ![r] = filteredLogs[r] \o filter[r].hand]
            /\ filter' = [filter EXCEPT ![r] = [pc |-> "range", hand |-> <<>>]]
        BY <1>5, <2>1 DEF FilterSend, FilterPut
      <3>2. filteredLogs[r] \o filter[r].hand \in Lines_t /\ <<>> \in Lines_t
        BY <1>2, Concats, NumsEmpty
      <3>3. filter'[r] = [pc |-> "range", hand |-> <<>>] /\ filteredLogs'[r] = filteredLogs[r] \o filter[r].hand
        BY <3>1 DEF FilterTypes
      <3>4. Out(r)' = Out(r)
        <4>1. (filtered[r] \o filteredLogs[r]) \o filter[r].hand = filtered[r] \o (filteredLogs[r] \o filter[r].hand)
          BY <1>2, Associates, Zenon
        <4>2. filtered[r] \o (filteredLogs[r] \o filter[r].hand) \in Lines_t
          BY <1>2, <3>2, Concats
        <4>3. (filtered[r] \o (filteredLogs[r] \o filter[r].hand)) \o <<>> = filtered[r] \o (filteredLogs[r] \o filter[r].hand)
          BY <4>2, Concats, Zenon
        <4>4. filter'[r].hand = <<>> /\ filtered'[r] = filtered[r]
          BY <3>1, <3>3
        <4>5. filtered'[r] \o filteredLogs'[r] = filtered[r] \o (filteredLogs[r] \o filter[r].hand)
          BY <3>3, <4>4, Zenon
        <4> QED BY <4>1, <4>3, <4>4, <4>5, Zenon DEF Out
      <3>5. FilterTypes'
        BY <3>1, <3>2 DEF FilterTypes, Filter_t
      <3>6. \A q \in Readers \ {r} : filter'[q] = filter[q] /\ filteredLogs'[q] = filteredLogs[q]
        BY <3>1 DEF FilterTypes
      <3> QED BY <1>1, <1>3, <3>1, <3>3, <3>4, <3>5, <3>6
    <2>2. CASE filter' = [filter EXCEPT ![r].pc = "done"] /\ UNCHANGED filteredLogs
      <3>1. filtered' = filtered
        BY <1>5 DEF FilterSend
      <3>2. filter'[r].pc = "done" /\ filter'[r].hand = filter[r].hand /\ \A q \in Readers \ {r} : filter'[q] = filter[q]
        BY <1>2, <2>2 DEF FilterTypes, Filter_t
      <3>3. FilterTypes' /\ Out(r)' = Out(r)
        BY <1>2, <2>2, <3>1, <3>2 DEF FilterTypes, Filter_t, Out
      <3> QED BY <1>1, <1>3, <2>2, <3>1, <3>2, <3>3
    <2> QED BY <1>5, <2>1, <2>2 DEF FilterSend
  <1>6. CASE FilterReceive(r)
    <2> DEFINE x == Head(filteredLogs[r])
    <2>1. /\ filter' = filter /\ filteredLogs[r] # <<>>
          /\ filtered' = [filtered EXCEPT ![r] = Append(filtered[r], x)]
          /\ filteredLogs' = [filteredLogs EXCEPT ![r] = Tail(filteredLogs[r])]
      BY <1>6 DEF FilterReceive
    <2>2. x \in Line_t /\ <<x>> \in Lines_t /\ Tail(filteredLogs[r]) \in Lines_t
          /\ filteredLogs[r] = <<x>> \o Tail(filteredLogs[r])
      BY <1>2, <2>1, FirstAndRest
    <2> HIDE DEF x
    <2>3. Append(filtered[r], x) = filtered[r] \o <<x>> /\ filtered[r] \o <<x>> \in Lines_t
      BY <1>2, <2>2, AppendIsConcat, Concats DEF Lines_t
    <2>4. filtered'[r] = filtered[r] \o <<x>> /\ filteredLogs'[r] = Tail(filteredLogs[r])
      BY <2>1, <2>3 DEF FilterTypes
    <2>5. Out(r)' = Out(r)
      <3>1. (filtered[r] \o <<x>>) \o Tail(filteredLogs[r]) = filtered[r] \o filteredLogs[r]
        <4>1. (filtered[r] \o <<x>>) \o Tail(filteredLogs[r]) = filtered[r] \o (<<x>> \o Tail(filteredLogs[r]))
          BY <1>2, <2>2, Associates, Zenon
        <4> QED BY <2>2, <4>1, Zenon
      <3> QED BY <2>1, <2>4, <3>1, Zenon DEF Out
    <2>6. FilterTypes'
      BY <2>1, <2>2, <2>3 DEF FilterTypes
    <2>7. \A q \in Readers \ {r} : filtered'[q] = filtered[q] /\ filteredLogs'[q] = filteredLogs[q]
      BY <2>1 DEF FilterTypes
    <2>8. FilterOf(r) => (filter'[r].pc = "range" => filter'[r].hand = <<>>)
      BY <2>1 DEF FilterOf
    <2> QED BY <1>1, <1>3, <2>1, <2>5, <2>6, <2>7, <2>8
  <1> QED BY <1>4, <1>5, <1>6

LEMMA FilterKept ==
  ASSUME Base, InOrder, AppInv, FilterInv, ConsumersNext \/ UNCHANGED allVars
  PROVE  FilterInv'
  <1>1. FilterTypes
    BY DEF FilterInv
  <1>2. ASSUME NEW q \in Readers, filter'[q] = filter[q], filtered'[q] = filtered[q],
               filteredLogs'[q] = filteredLogs[q], delivered'[q] = delivered[q]
        PROVE  FilterOf(q) => FilterOf(q)'
    BY <1>2 DEF FilterOf, Out
  <1>3. ASSUME NEW r \in Readers, FilterRange(r) PROVE FilterInv'
    <2>1. kind = "filter" /\ UNCHANGED <<kind, filteredLogs, filtered>>
      BY <1>3 DEF FilterRange, Filter
    <2>2. \A q \in Readers : FilterOf(q)
      BY <2>1 DEF FilterInv
    <2>3. FilterTypes' /\ FilterOf(r)' /\ \A q \in Readers \ {r} : filter'[q] = filter[q] /\ delivered'[q] = delivered[q]
      BY <1>1, <1>3, <2>2, FilterRanges
    <2>4. \A q \in Readers : FilterOf(q)'
      BY <1>2, <2>1, <2>2, <2>3
    <2> QED BY <2>3, <2>4 DEF FilterInv
  <1>4. ASSUME NEW r \in Readers, FilterEnd(r) \/ FilterSend(r) \/ FilterReceive(r) PROVE FilterInv'
    <2>1. /\ FilterTypes' /\ UNCHANGED <<kind, delivered>>
          /\ FilterOf(r) => FilterOf(r)'
          /\ \A q \in Readers \ {r} : filter'[q] = filter[q] /\ filtered'[q] = filtered[q]
                                      /\ filteredLogs'[q] = filteredLogs[q]
      BY <1>1, <1>4, FilterMoves
    <2>2. \A q \in Readers : FilterOf(q) => FilterOf(q)'
      BY <1>2, <2>1
    <2> QED BY <2>1, <2>2 DEF FilterInv
  <1>5. CASE \A r \in Readers : ~FilterStep(r) /\ ~FilterReceive(r)
    <2>1. UNCHANGED <<kind, filter, filteredLogs, filtered>> /\ (kind = "filter" => delivered' = delivered)
      BY <1>5, AppKeeps
    <2>2. kind = "filter" => \A q \in Readers : FilterOf(q) => FilterOf(q)'
      BY <1>2, <2>1
    <2>3. FilterTypes'
      BY <1>1, <2>1 DEF FilterTypes
    <2> QED BY <2>1, <2>2, <2>3 DEF FilterInv
  <1> QED BY <1>3, <1>4, <1>5 DEF FilterStep

-----------------------------------------------------------------------------
(* The theorems                                                            *)

LEMMA ConsumersStart == ConsumersInit => ConsumersInv
  <1> SUFFICES ASSUME ConsumersInit PROVE ConsumersInv
    OBVIOUS
  <1>1. Init /\ kind \in DOMAIN Bounds
    BY DEF ConsumersInit
  <1>2. IInv
    BY <1>1, StreamsInit
  <1>3. app \in App_t /\ app.logs = "alarms"
    BY DEF ConsumersInit, App_t
  <1>4. AppInv
    BY <1>1, <1>3 DEF AppInv
  <1>5. <<>> \in Lines_t
    BY NumsEmpty
  <1>6. FilterTypes
    BY <1>5 DEF ConsumersInit, FilterTypes, Filter_t
  <1>7. ASSUME NEW r \in Readers PROVE FilterOf(r)
    <2>1. filter[r].hand = <<>> /\ filtered[r] = <<>> /\ filteredLogs[r] = <<>> /\ delivered[r] = <<>>
      BY DEF ConsumersInit, Init
    <2>2. <<>> \o <<>> = <<>>
      BY <1>5, Concats
    <2>3. Out(r) = <<>>
      BY <2>1, <2>2, Zenon DEF Out
    <2>4. Elements(<<>>) = {} /\ WantedOf(<<>>) = {} /\ Asc(<<>>)
      BY DEF Elements, WantedOf, Asc
    <2> QED BY <2>1, <2>3, <2>4 DEF FilterOf
  <1> QED BY <1>2, <1>4, <1>6, <1>7 DEF ConsumersInv, FilterInv

LEMMA ConsumersKept == ConsumersInv /\ [ConsumersNext]_allVars => ConsumersInv'
  <1> SUFFICES ASSUME ConsumersInv, ConsumersNext \/ UNCHANGED allVars PROVE ConsumersInv'
    OBVIOUS
  <1>1. Base /\ InOrder
    BY OrderMeans DEF ConsumersInv, IInv
  <1>2. Step \/ UNCHANGED vars
    BY <1>1, ConsumersStep DEF ConsumersInv
  <1>3. IInv'
    BY <1>2, StreamsKept DEF ConsumersInv
  <1>4. AppInv'
    BY <1>1, AppKept DEF ConsumersInv
  <1>5. FilterInv'
    BY <1>1, FilterKept DEF ConsumersInv
  <1> QED BY <1>3, <1>4, <1>5 DEF ConsumersInv

LEMMA FilterMeans == ConsumersInv => FilterKeepsAll
  <1> SUFFICES ASSUME ConsumersInv, NEW r \in Readers, kind = "filter"
               PROVE  /\ Elements(Out(r)) = WantedOf(delivered[r])
                      /\ \A i, j \in DOMAIN Out(r) : i < j => Out(r)[i].n < Out(r)[j].n
    BY DEF FilterKeepsAll, Out, Elements, WantedOf
  <1> DEFINE out == Out(r)
  <1>1. Elements(out) = WantedOf(delivered[r]) /\ Asc(out)
    BY DEF ConsumersInv, FilterInv, FilterOf
  <1> HIDE DEF out
  <1>2. \A i \in DOMAIN out : HasNumber(out[i])
    BY <1>1, WantedNumbered
  <1>3. \A i, j \in DOMAIN out : i < j => out[i].n < out[j].n
    BY <1>1, <1>2 DEF Asc
  <1> QED BY <1>1, <1>3 DEF out

\* Whoever consumes, the invariant of a LogReader holds, and with it what its filter has done:
\* it has neither lost, invented nor moved an entry of what it received.
THEOREM ConsumersAlways == ConsumersSpec => []ConsumersInv
  <1>1. ConsumersInit => ConsumersInv
    BY ConsumersStart
  <1>2. ConsumersInv /\ [ConsumersNext]_allVars => ConsumersInv'
    BY ConsumersKept
  <1> QED BY <1>1, <1>2, PTL DEF ConsumersSpec

\* A filtered channel yields the wanted entries of the channel before it, all of them and in
\* their order, whatever the context, the consumer and the goroutine of ReadLogs do
\* (logs.go:311-335).
THEOREM FilterAlways == ConsumersSpec => []FilterKeepsAll
  <1>1. ConsumersInv => FilterKeepsAll
    BY FilterMeans
  <1> QED BY <1>1, ConsumersAlways, PTL

\* The entries of a channel come in the order of the controller, each once, also when the
\* example, the tool or a filter receives them (logs.go:139-204).
THEOREM ConsumedInOrder == ConsumersSpec => []InOrder
  <1>1. ConsumersInv => InOrder
    BY OrderMeans DEF ConsumersInv
  <1> QED BY <1>1, ConsumersAlways, PTL

\* Between two entries of a connection that a goroutine kept none is missing, with any consumer
\* (logs.go:139-204, 249-308).
THEOREM ConsumedWithoutGap == ConsumersSpec => []NoGap
  <1>1. ConsumersInv => NoGap
    BY GapMeans DEF ConsumersInv
  <1> QED BY <1>1, ConsumersAlways, PTL

\* With the consumers too the variables stay in their types and no channel holds more than its
\* capacity (logs.go:145, 182).
THEOREM ConsumedTypes == ConsumersSpec => []TypeOK
  <1>1. ConsumersInv => TypeOK
    BY BaseTypeOK DEF ConsumersInv, IInv
  <1> QED BY <1>1, ConsumersAlways, PTL

\* Nor does the example, the tool or a filter make the LogReader leak a connection
\* (logs.go:85-116, 195-238).
THEOREM ConsumedNoLeak == ConsumersSpec => []NoLeak
  <1>1. ConsumersInv => NoLeak
    BY DEF ConsumersInv, IInv, Base, ConnInv
  <1> QED BY <1>1, ConsumersAlways, PTL

\* With them connected is true of an open connection only (logs.go:118, 132, 202, 238).
THEOREM ConsumedConnected == ConsumersSpec => []ConnectedIsOpen
  <1>1. ConsumersInv => ConnectedIsOpen
    BY DEF ConsumersInv, IInv, Base, ConnInv, ConnectedIsOpen
  <1> QED BY <1>1, ConsumersAlways, PTL

\* And what Close closed stays closed once the goroutines of ReadLogs have ended
\* (logs.go:122-137, 147-170).
THEOREM ConsumedStaysClosed == ConsumersSpec => []StaysClosed
  <1>1. ConsumersInv => StaysClosed
    BY BaseStaysClosed DEF ConsumersInv, IInv
  <1> QED BY <1>1, ConsumersAlways, PTL

\* Whoever receives, and the example and the tool call from one goroutine, its methods meet no
\* nil connection (logs.go:347, 352, 423, 428).
THEOREM ConsumedMeetsNoNil == ConsumersSpec => []CallerNotNil
  <1>1. ConsumersInit => CallerInv
    BY CallerStart DEF ConsumersInit
  <1>2. ConsumersInv /\ CallerInv /\ [ConsumersNext]_allVars => CallerInv'
    <2> SUFFICES ASSUME ConsumersInv, CallerInv, ConsumersNext \/ UNCHANGED allVars
                 PROVE  CallerInv'
      OBVIOUS
    <2>1. Base
      BY DEF ConsumersInv, IInv
    <2>2. Step \/ UNCHANGED vars
      BY <2>1, ConsumersStep DEF ConsumersInv
    <2> QED BY <2>1, <2>2, CallerStep
  <1>3. CallerInv => CallerNotNil
    BY DEF CallerInv
  <1> QED BY <1>1, <1>2, <1>3, ConsumersAlways, PTL DEF ConsumersSpec
=============================================================================
