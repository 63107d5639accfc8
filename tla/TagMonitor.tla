------------------------------ MODULE TagMonitor ------------------------------
(***************************************************************************)
(* One TagMonitor of examples/tag-discovery: the goroutines that call its  *)
(* methods, the polling loop each Start begins, the callbacks it runs, and *)
(* the tags of the PLC.                                                    *)
(*                                                                         *)
(* Every section under m.mu is short and waits for nothing, so it is one   *)
(* step.  A tag's value is the number of times the PLC has changed it:     *)
(* valueEquals compares printed values, which differ when values do.       *)
(***************************************************************************)
EXTENDS Integers

CONSTANTS
  Users,          \* goroutines that use the monitor
  Tags,           \* tags of the PLC
  MaxStarts,      \* bound on calls of Start
  MaxStops,       \* bound on calls of Stop
  MaxCallbacks,   \* bound on the callbacks of a tag
  MaxChanges,     \* bound on the changes of a tag
  CallbackStops   \* whether a callback may call Stop

ASSUME TagMonitorAssumption ==
  /\ MaxStarts \in Nat /\ MaxStops \in Nat /\ MaxCallbacks \in Nat /\ MaxChanges \in Nat
  /\ Tags # {} /\ CallbackStops \in BOOLEAN

Loops == 1..MaxStarts
Missing == -1            \* no value of the tag yet

VARIABLES
  closed,     \* m.stopChan is closed
  wg,         \* the counter of m.wg
  tags,       \* the keys of m.tags
  values,     \* m.values
  callbacks,  \* for each tag, how many callbacks m.callbacks holds
  loops,      \* each monitorLoop goroutine
  stopper,    \* where each user is in Stop
  stops,      \* calls of Stop so far
  started,    \* calls of Start so far
  dev,        \* the PLC's value of each tag
  heard,      \* history: the value each callback was last called with
  quiet,      \* history: the loops that a Stop that returned has waited for
  panicked    \* the process has panicked

vars == <<closed, wg, tags, values, callbacks, loops, stopper, stops, started, dev,
          heard, quiet, panicked>>

\* tick: the ticker's channel, of capacity one, is full;  todo: tags left of this
\* poll;  cb, last: the callback to run next and the last one of the copy.
NoLoop == [pc |-> "unused", tick |-> FALSE, todo |-> {}, tag |-> CHOOSE g \in Tags : TRUE,
           val |-> Missing, cb |-> 1, last |-> 0]

\* NewTagMonitor
Init ==
  /\ closed = FALSE /\ wg = 0 /\ tags = {}
  /\ values = [g \in Tags |-> Missing] /\ callbacks = [g \in Tags |-> 0]
  /\ loops = [l \in Loops |-> NoLoop]
  /\ stopper = [u \in Users |-> "idle"] /\ stops = 0 /\ started = 0
  /\ dev = [g \in Tags |-> 0] /\ heard = [g \in Tags |-> [k \in 1..MaxCallbacks |-> Missing]]
  /\ quiet = {} /\ panicked = FALSE

-----------------------------------------------------------------------------
(* The callers                                                             *)

Idle(u) == ~panicked /\ stopper[u] = "idle"

AddTag(u, g) ==
  /\ Idle(u)
  /\ tags' = tags \cup {g}
  /\ UNCHANGED <<closed, wg, values, callbacks, loops, stopper, stops, started, dev, heard, quiet, panicked>>

OnChange(u, g) ==
  /\ Idle(u) /\ callbacks[g] < MaxCallbacks
  /\ callbacks' = [callbacks EXCEPT ![g] = @ + 1]
  /\ UNCHANGED <<closed, wg, tags, values, loops, stopper, stops, started, dev, heard, quiet, panicked>>

\* Mutant of Start: the goroutine is not counted before it runs.
StartUncounted(u) ==
  /\ Idle(u) /\ started < MaxStarts
  /\ started' = started + 1
  /\ loops' = [loops EXCEPT ![started + 1].pc = "new"]
  /\ UNCHANGED <<closed, wg, tags, values, callbacks, stopper, stops, dev, heard, quiet, panicked>>

Start(u) ==
  /\ Idle(u) /\ started < MaxStarts
  /\ started' = started + 1 /\ wg' = wg + 1
  /\ loops' = [loops EXCEPT ![started + 1].pc = "new"]
  /\ UNCHANGED <<closed, tags, values, callbacks, stopper, stops, dev, heard, quiet, panicked>>

\* Stop up to wg.Wait: closing a closed channel panics.
Stop(u) ==
  /\ Idle(u) /\ stops < MaxStops
  /\ stops' = stops + 1
  /\ closed' = TRUE /\ panicked' = closed
  /\ stopper' = [stopper EXCEPT ![u] = "wait"]
  /\ UNCHANGED <<wg, tags, values, callbacks, loops, started, dev, heard, quiet>>

\* wg.Wait finds the counter at zero, or sleeps until it gets there.
Wait(u) ==
  /\ ~panicked /\ stopper[u] = "wait"
  /\ stopper' = [stopper EXCEPT ![u] = IF wg = 0 THEN "idle" ELSE "asleep"]
  /\ quiet' = IF wg = 0 THEN 1..started ELSE quiet
  /\ UNCHANGED <<closed, wg, tags, values, callbacks, loops, stops, started, dev, heard, panicked>>

\* A Wait that was woken returns, unless a Start came first: that panics.
WaitReturns(u) ==
  /\ ~panicked /\ stopper[u] = "woken"
  /\ panicked' = (wg # 0)
  /\ stopper' = [stopper EXCEPT ![u] = "idle"]
  /\ quiet' = IF wg = 0 THEN 1..started ELSE quiet
  /\ UNCHANGED <<closed, wg, tags, values, callbacks, loops, stops, started, dev, heard>>

-----------------------------------------------------------------------------
(* monitorLoop                                                             *)

Running(l) == ~panicked /\ loops[l].pc \notin {"unused", "new", "done"}

LoopStart(l) ==
  /\ ~panicked /\ loops[l].pc = "new"
  /\ loops' = [loops EXCEPT ![l].pc = "select"]
  /\ UNCHANGED <<closed, wg, tags, values, callbacks, stopper, stops, started, dev, heard, quiet, panicked>>

Tick(l) ==
  /\ Running(l) /\ ~loops[l].tick
  /\ loops' = [loops EXCEPT ![l].tick = TRUE]
  /\ UNCHANGED <<closed, wg, tags, values, callbacks, stopper, stops, started, dev, heard, quiet, panicked>>

\* wg.Done: the last one wakes those who wait.
Done ==
  /\ wg' = wg - 1
  /\ stopper' = IF wg = 1 THEN [u \in Users |-> IF stopper[u] = "asleep" THEN "woken" ELSE stopper[u]]
                ELSE stopper

\* Mutant of SelectStop: the stop is looked at only when no tick is pending.
SelectStopLast(l) ==
  /\ Running(l) /\ loops[l].pc = "select" /\ closed /\ ~loops[l].tick
  /\ loops' = [loops EXCEPT ![l] = [NoLoop EXCEPT !.pc = "done"]]
  /\ Done
  /\ UNCHANGED <<closed, tags, values, callbacks, stops, started, dev, heard, quiet, panicked>>

\* Mutant of SelectStop: the loop ends the select but not itself.
SelectStopBreak(l) ==
  /\ Running(l) /\ loops[l].pc = "select" /\ closed
  /\ Done
  /\ UNCHANGED <<closed, tags, values, callbacks, loops, stops, started, dev, heard, quiet, panicked>>

\* Either branch of the select when both are ready.
SelectStop(l) ==
  /\ Running(l) /\ loops[l].pc = "select" /\ closed
  /\ loops' = [loops EXCEPT ![l] = [NoLoop EXCEPT !.pc = "done"]]
  /\ Done
  /\ UNCHANGED <<closed, tags, values, callbacks, stops, started, dev, heard, quiet, panicked>>

\* pollTags takes its copy of the tags.
SelectTick(l) ==
  /\ Running(l) /\ loops[l].pc = "select" /\ loops[l].tick
  /\ loops' = [loops EXCEPT ![l] = [@ EXCEPT !.pc = "poll", !.tick = FALSE, !.todo = tags]]
  /\ UNCHANGED <<closed, wg, tags, values, callbacks, stopper, stops, started, dev, heard, quiet, panicked>>

\* The map of tags is walked in any order.  The value read is stored later.
ReadTag(l, g) ==
  /\ Running(l) /\ loops[l].pc = "poll" /\ g \in loops[l].todo
  /\ loops' = [loops EXCEPT ![l] = [@ EXCEPT !.pc = "store", !.todo = loops[l].todo \ {g}, !.tag = g, !.val = dev[g]]]
  /\ UNCHANGED <<closed, wg, tags, values, callbacks, stopper, stops, started, dev, heard, quiet, panicked>>

ReadFails(l, g) ==
  /\ Running(l) /\ loops[l].pc = "poll" /\ g \in loops[l].todo
  /\ loops' = [loops EXCEPT ![l].todo = loops[l].todo \ {g}]
  /\ UNCHANGED <<closed, wg, tags, values, callbacks, stopper, stops, started, dev, heard, quiet, panicked>>

PollEnds(l) ==
  /\ Running(l) /\ loops[l].pc = "poll" /\ loops[l].todo = {}
  /\ loops' = [loops EXCEPT ![l].pc = "select"]
  /\ UNCHANGED <<closed, wg, tags, values, callbacks, stopper, stops, started, dev, heard, quiet, panicked>>

\* The new state of a loop that stored or passed over a value.
AfterStore(l, changed) ==
  LET n == callbacks[loops[l].tag]
  IN  [loops[l] EXCEPT !.pc = IF changed /\ n > 0 THEN "call" ELSE "poll", !.cb = 1, !.last = n]

\* Mutant of Changed: every value read counts as a change.
ChangedAlways(g, v) == TRUE

\* Mutant of Changed: the first value of a tag does not count.
ChangedExists(g, v) == values[g] # Missing /\ values[g] # v

Changed(g, v) == values[g] = Missing \/ values[g] # v

\* Mutant of Store: the value is left for after the callbacks.
StoreLate(l) ==
  /\ Running(l) /\ loops[l].pc = "store"
  /\ loops' = [loops EXCEPT ![l] = AfterStore(l, Changed(loops[l].tag, loops[l].val))]
  /\ UNCHANGED <<closed, wg, tags, values, callbacks, stopper, stops, started, dev, heard, quiet, panicked>>

Store(l) ==
  LET g == loops[l].tag  v == loops[l].val IN
  /\ Running(l) /\ loops[l].pc = "store"
  /\ loops' = [loops EXCEPT ![l] = AfterStore(l, Changed(g, v))]
  /\ values' = IF Changed(g, v) THEN [values EXCEPT ![g] = v] ELSE values
  /\ UNCHANGED <<closed, wg, tags, callbacks, stopper, stops, started, dev, heard, quiet, panicked>>

\* The next callback of the copy runs, outside the lock.
Callback(l) ==
  LET k == loops[l].cb IN
  /\ Running(l) /\ loops[l].pc = "call"
  /\ heard' = [heard EXCEPT ![loops[l].tag][k] = loops[l].val]
  /\ loops' = [loops EXCEPT ![l] = [@ EXCEPT !.cb = k + 1,
                                    !.pc = IF k = loops[l].last THEN "poll" ELSE "call"]]
  /\ UNCHANGED <<closed, wg, tags, values, callbacks, stopper, stops, started, dev, quiet, panicked>>

\* A callback that calls Stop waits for the counter its own loop holds up.
CallbackStop(l) ==
  /\ CallbackStops /\ stops < MaxStops
  /\ Running(l) /\ loops[l].pc = "call"
  /\ stops' = stops + 1
  /\ closed' = TRUE /\ panicked' = closed
  /\ heard' = [heard EXCEPT ![loops[l].tag][loops[l].cb] = loops[l].val]
  /\ loops' = [loops EXCEPT ![l].pc = "stuck"]
  /\ UNCHANGED <<wg, tags, values, callbacks, stopper, started, dev, quiet>>

\* Whatever changes the tags in the PLC
Change(g) ==
  /\ dev[g] < MaxChanges
  /\ dev' = [dev EXCEPT ![g] = @ + 1]
  /\ UNCHANGED <<closed, wg, tags, values, callbacks, loops, stopper, stops, started, heard, quiet, panicked>>

-----------------------------------------------------------------------------

LoopStep(l) ==
  \/ LoopStart(l) \/ Tick(l) \/ SelectTick(l) \/ SelectStop(l) \/ PollEnds(l) \/ Store(l) \/ Callback(l)

\* The process is gone, or nothing is left that anyone is obliged to do.
Quiescent == (panicked \/ started = 0 \/ closed) /\ UNCHANGED vars

Next ==
  \/ \E u \in Users : Start(u) \/ Stop(u) \/ Wait(u) \/ WaitReturns(u)
  \/ \E u \in Users, g \in Tags : AddTag(u, g) \/ OnChange(u, g)
  \/ \E l \in Loops : LoopStep(l) \/ CallbackStop(l)
  \/ \E l \in Loops, g \in Tags : ReadTag(l, g) \/ ReadFails(l, g)
  \/ \E g \in Tags : Change(g)
  \/ Quiescent

Spec == Init /\ [][Next]_vars

\* Goroutines are scheduled, tickers tick, the select neglects no branch that is ready
\* again and again, and the PLC answers a tag that is asked for again and again.
Fairness ==
  /\ \A u \in Users : WF_vars(Wait(u)) /\ WF_vars(WaitReturns(u))
  /\ \A l \in Loops :
       /\ WF_vars(LoopStart(l)) /\ WF_vars(Tick(l)) /\ WF_vars(PollEnds(l))
       /\ WF_vars(Store(l)) /\ WF_vars(Callback(l))
       /\ SF_vars(SelectTick(l)) /\ SF_vars(SelectStop(l))
       /\ WF_vars(\E g \in Tags : ReadTag(l, g) \/ ReadFails(l, g))
       /\ \A g \in Tags : SF_vars(ReadTag(l, g))

FairSpec == Spec /\ Fairness

-----------------------------------------------------------------------------
(* Properties                                                              *)

Value == {Missing} \cup 0..MaxChanges

Loop_t == [pc : {"unused", "new", "select", "poll", "store", "call", "stuck", "done"},
           tick : BOOLEAN, todo : SUBSET Tags, tag : Tags, val : Value,
           cb : 1..(MaxCallbacks + 1), last : 0..MaxCallbacks]

\* The variables stay in their types: the wait group never goes below zero, which would
\* panic, and no loop runs past the end of its copy of the callbacks.
TypeOK ==
  /\ closed \in BOOLEAN /\ panicked \in BOOLEAN
  /\ wg \in 0..MaxStarts
  /\ tags \subseteq Tags
  /\ values \in [Tags -> Value] /\ dev \in [Tags -> 0..MaxChanges]
  /\ callbacks \in [Tags -> 0..MaxCallbacks] /\ heard \in [Tags -> [1..MaxCallbacks -> Value]]
  /\ loops \in [Loops -> Loop_t]
  /\ stopper \in [Users -> {"idle", "wait", "asleep", "woken"}] /\ stops \in 0..MaxStops
  /\ started \in 0..MaxStarts /\ quiet \subseteq 1..started

\* After Stop has returned, no loop started before it reads a tag, changes a value or
\* runs a callback (main.go:61, 68, 73).
QuietAfterStop == \A l \in quiet : loops[l].pc = "done"

\* With one loop, a callback hears every value at most once and in the order in which the
\* tag took them, however reads, stores and registrations interleave (main.go:96-117).
HeardInOrder ==
  started <= 1 =>
    \A l \in Loops : loops[l].pc = "call" => heard[loops[l].tag][loops[l].cb] < loops[l].val

\* With one loop, GetValue called from a callback returns the value the callback is told:
\* the value is stored before the lock is given up (main.go:108-116).
CallbackSeesValue ==
  started <= 1 =>
    \A l \in Loops : loops[l].pc = "call" => values[loops[l].tag] = loops[l].val

\* A Stop returns, unless a callback has called Stop too or the process panics.
StopReturns ==
  \A u \in Users :
    stopper[u] # "idle" ~> stopper[u] = "idle" \/ panicked \/ \E l \in Loops : loops[l].pc = "stuck"

\* A callback hears the value a monitored tag settles on, as long as the monitor runs, also
\* when two loops overwrite each other's values with older ones.
ChangeIsHeard ==
  \A g \in Tags, k \in 1..MaxCallbacks :
    (started > 0 /\ g \in tags /\ k <= callbacks[g] /\ values[g] # dev[g])
      ~> closed \/ panicked \/ heard[g][k] = dev[g]
=============================================================================
