----------------------------- MODULE MCLogReader -----------------------------
(* Instances of LogReader and its consumers for TLC.  The callers are         *)
(* interchangeable.                                                           *)
EXTENDS LogConsumers, TLC

UserSymmetry == Permutations(Users)

Uses(ms, n, d, k, es) == [methods |-> ms, calls |-> n, dials |-> d, lines |-> k, ends |-> es]

\* Goroutines that reconnect, connections that the controller ends, and readers of one stream
MCSafety ==
  "any" :> {Uses({"Close", "ReadLogs", "StartRemoteLogMonitor"}, 3, 2, 0, {}),
            Uses({"Close", "ReadLogs", "StartRemoteLogMonitor"}, 2, 2, 1, {"fin"}),
            Uses(Methods \ {"StartRemoteLogMonitor"}, 2, 1, 4, {})} @@
  "filter" :> {Uses({"ReadLogs"}, 1, 2, 4, {"fin"})}

MCLive ==
  "any" :> {Uses({"Close", "ReadLogs", "StopRemoteLogMonitor"}, 2, 2, 1, {"rst"})} @@
  "filter" :> {Uses({"ReadLogs", "StopRemoteLogMonitor"}, 1, 2, 3, {"rst"})} @@
  "example" :> {Uses({}, 3, 2, 1, {"rst"})} @@ "tool" :> {Uses({}, 2, 2, 1, {"rst"})}

MCOne == "any" :> {Uses({"ReadLogs"}, 1, 2, 1, {})}
=============================================================================
