-------------------------- MODULE TagMonitor_proofs --------------------------
(***************************************************************************)
(* Proofs about TagMonitor: types, what a Stop that returned guarantees,   *)
(* and the order in which a single loop reports values.                    *)
(***************************************************************************)
EXTENDS TagMonitor, FiniteSetTheorems, TLAPS

\* The loops the wait group counts.
Live == {l \in Loops : loops[l].pc \notin {"unused", "done"}}

\* Loops are started in order, and the wait group counts those that are not done.
Counted ==
  /\ \A l \in Loops : loops[l].pc = "unused" <=> l > started
  /\ wg = Cardinality(Live)

CallsInCopy == \A l \in Loops : loops[l].pc = "call" => loops[l].cb <= loops[l].last

\* With one loop: a callback has heard nothing newer than the monitor's value, which is
\* not newer than what the loop has read and not stored, which is not newer than the PLC's.
Order ==
  started <= 1 =>
    /\ \A g \in Tags : values[g] <= dev[g] /\ \A k \in 1..MaxCallbacks : heard[g][k] <= values[g]
    /\ \A l \in Loops :
         /\ loops[l].pc = "store" =>
              loops[l].val >= 0 /\ values[loops[l].tag] <= loops[l].val /\ loops[l].val <= dev[loops[l].tag]
         /\ loops[l].pc = "call" =>
              /\ values[loops[l].tag] = loops[l].val
              /\ \A k \in 1..MaxCallbacks : k >= loops[l].cb => heard[loops[l].tag][k] < loops[l].val

IInv == TypeOK /\ Counted /\ QuietAfterStop /\ CallsInCopy /\ Order

USE TagMonitorAssumption

-----------------------------------------------------------------------------

\* A set of loops is finite and has at most MaxStarts members.
LEMMA LoopSets ==
  ASSUME NEW S \in SUBSET Loops
  PROVE  IsFiniteSet(S) /\ Cardinality(S) \in 0..MaxStarts
<1>1. IsFiniteSet(Loops) /\ Cardinality(Loops) = MaxStarts
  BY FS_Interval DEF Loops
<1>2. IsFiniteSet(S) /\ Cardinality(S) <= MaxStarts
  BY <1>1, FS_Subset
<1> QED BY <1>2, FS_CardinalityType

LEMMA NoLoopType == NoLoop \in Loop_t
  BY DEF NoLoop, Loop_t, Value, Missing

LEMMA InitInv == Init => IInv
<1> SUFFICES ASSUME Init PROVE IInv
  OBVIOUS
<1>1. TypeOK
  <2>1. Missing \in Value
    BY DEF Value
  <2>2. heard \in [Tags -> [1..MaxCallbacks -> Value]] /\ values \in [Tags -> Value]
    BY <2>1 DEF Init
  <2>3. loops \in [Loops -> Loop_t]
    BY NoLoopType DEF Init
  <2>4. /\ dev \in [Tags -> 0..MaxChanges] /\ callbacks \in [Tags -> 0..MaxCallbacks]
        /\ stopper \in [Users -> {"idle", "wait", "asleep", "woken"}]
    BY DEF Init
  <2>5. wg \in 0..MaxStarts /\ stops \in 0..MaxStops /\ started \in 0..MaxStarts /\ quiet = {}
    BY DEF Init
  <2>6. closed \in BOOLEAN /\ panicked \in BOOLEAN /\ tags \subseteq Tags
    BY DEF Init
  <2> QED BY <2>2, <2>3, <2>4, <2>5, <2>6 DEF TypeOK
<1>2. Live = {}
  BY DEF Init, Live, NoLoop
<1>3. Counted
  <2>1. wg = Cardinality(Live)
    BY <1>2, FS_EmptySet DEF Init
  <2> QED BY <2>1 DEF Init, Counted, NoLoop, Loops
<1>4. QuietAfterStop /\ CallsInCopy /\ Order
  BY DEF Init, QuietAfterStop, CallsInCopy, Order, NoLoop, Missing
<1> QED BY <1>1, <1>3, <1>4 DEF IInv

-----------------------------------------------------------------------------
(* Types and the count of the loops                                        *)

\* The loop steps that neither begin nor end a loop.
Inner(l) ==
  \/ LoopStart(l) \/ Tick(l) \/ SelectTick(l) \/ PollEnds(l) \/ Store(l) \/ Callback(l) \/ CallbackStop(l)
  \/ \E g \in Tags : ReadTag(l, g) \/ ReadFails(l, g)

\* The steps of the callers and of the PLC that leave the loops alone.
Outer ==
  \/ \E u \in Users : Stop(u) \/ Wait(u) \/ WaitReturns(u)
  \/ \E u \in Users, g \in Tags : AddTag(u, g) \/ OnChange(u, g)
  \/ \E g \in Tags : Change(g)
  \/ UNCHANGED vars

LEMMA NextCases ==
  ASSUME [Next]_vars
  PROVE  \/ Outer
         \/ \E u \in Users : Start(u)
         \/ \E l \in Loops : SelectStop(l) \/ Inner(l)
  BY DEF Next, LoopStep, Quiescent, Inner, Outer

LEMMA LoopsType ==
  ASSUME TypeOK, CallsInCopy, NEW l \in Loops, Inner(l)
  PROVE  loops' \in [Loops -> Loop_t]
<1>0. loops[l] \in Loop_t
  BY DEF TypeOK
<1>1. ASSUME NEW p \in {"select", "stuck"}, loops' = [loops EXCEPT ![l].pc = p]
      PROVE  loops' \in [Loops -> Loop_t]
  BY <1>0, <1>1 DEF Loop_t, TypeOK
<1>7. CASE Tick(l)
  BY ZenonT(60), <1>7 DEF Tick, Loop_t, TypeOK
<1>2. CASE SelectTick(l)
  <2> DEFINE r == [loops[l] EXCEPT !.pc = "poll", !.tick = FALSE, !.todo = tags]
  <2>1. r \in Loop_t
    BY <1>0 DEF Loop_t, TypeOK
  <2>2. loops' = [loops EXCEPT ![l] = r]
    BY <1>2 DEF SelectTick
  <2> QED BY <2>1, <2>2 DEF TypeOK
<1>3. CASE Store(l)
  <2>1. callbacks[loops[l].tag] \in 0..MaxCallbacks /\ 1 \in 1..(MaxCallbacks + 1)
    BY <1>0 DEF TypeOK, Loop_t
  <2>2. ASSUME NEW p \in {"call", "poll"}, NEW n \in 0..MaxCallbacks
        PROVE  [loops[l] EXCEPT !.pc = p, !.cb = 1, !.last = n] \in Loop_t
    BY <1>0, <2>1 DEF Loop_t
  <2>3. ASSUME NEW c \in BOOLEAN
        PROVE  AfterStore(l, c) \in Loop_t
    BY <2>1, <2>2 DEF AfterStore
  <2>4. \E c \in BOOLEAN : loops' = [loops EXCEPT ![l] = AfterStore(l, c)]
    BY <1>3 DEF Store, Changed
  <2> QED BY <2>3, <2>4 DEF TypeOK
<1>4. CASE Callback(l)
  <2> DEFINE p == IF loops[l].cb = loops[l].last THEN "poll" ELSE "call"
             r == [loops[l] EXCEPT !.cb = loops[l].cb + 1, !.pc = p]
  <2>1. loops[l].cb + 1 \in 1..(MaxCallbacks + 1)
    BY <1>0, <1>4 DEF Loop_t, Callback, CallsInCopy
  <2>2. r \in Loop_t
    BY <1>0, <2>1 DEF Loop_t
  <2>3. loops' = [loops EXCEPT ![l] = r]
    BY <1>4 DEF Callback
  <2> QED BY <2>2, <2>3 DEF TypeOK
<1>5. CASE \E g \in Tags : ReadTag(l, g)
  <2>1. PICK g \in Tags : ReadTag(l, g)
    BY <1>5
  <2> DEFINE r == [loops[l] EXCEPT !.pc = "store", !.todo = loops[l].todo \ {g}, !.tag = g, !.val = dev[g]]
  <2>2. r \in Loop_t
    BY <1>0 DEF Loop_t, TypeOK, Value
  <2>3. loops' = [loops EXCEPT ![l] = r]
    BY <2>1 DEF ReadTag
  <2> QED BY <2>2, <2>3 DEF TypeOK
<1>6. CASE \E g \in Tags : ReadFails(l, g)
  <2>1. PICK g \in Tags : ReadFails(l, g)
    BY <1>6
  <2> DEFINE r == [loops[l] EXCEPT !.todo = loops[l].todo \ {g}]
  <2>2. r \in Loop_t
    BY <1>0 DEF Loop_t
  <2>3. loops' = [loops EXCEPT ![l] = r]
    BY <2>1 DEF ReadFails
  <2> QED BY <2>2, <2>3 DEF TypeOK
<1>8. CASE LoopStart(l) \/ PollEnds(l) \/ CallbackStop(l)
  BY <1>1, <1>8 DEF LoopStart, PollEnds, CallbackStop
<1> QED BY <1>2, <1>3, <1>4, <1>5, <1>6, <1>7, <1>8 DEF Inner

LEMMA InnerType ==
  ASSUME TypeOK, CallsInCopy, NEW l \in Loops, Inner(l)
  PROVE  TypeOK'
<1>0. loops[l] \in Loop_t /\ loops' \in [Loops -> Loop_t]
  BY LoopsType DEF TypeOK
<1>1. CASE LoopStart(l) \/ Tick(l) \/ SelectTick(l) \/ PollEnds(l)
  BY <1>0, <1>1 DEF TypeOK, LoopStart, Tick, SelectTick, PollEnds
<1>2. CASE Store(l)
  <2>1. values' \in [Tags -> Value]
    BY <1>0, <1>2 DEF TypeOK, Loop_t, Store
  <2> QED BY <1>0, <1>2, <2>1 DEF TypeOK, Store
<1>3. CASE Callback(l)
  <2>1. heard' \in [Tags -> [1..MaxCallbacks -> Value]]
    BY <1>0, <1>3 DEF TypeOK, Loop_t, Callback
  <2> QED BY <1>0, <1>3, <2>1 DEF TypeOK, Callback
<1>4. CASE CallbackStop(l)
  <2>1. heard' \in [Tags -> [1..MaxCallbacks -> Value]]
    BY <1>0, <1>4 DEF TypeOK, Loop_t, CallbackStop
  <2> QED BY SMTT(30), <1>0, <1>4, <2>1 DEF TypeOK, CallbackStop
<1>5. ASSUME NEW g \in Tags, ReadTag(l, g) \/ ReadFails(l, g)
      PROVE  TypeOK'
  BY <1>0, <1>5 DEF TypeOK, ReadTag, ReadFails
<1> QED BY <1>1, <1>2, <1>3, <1>4, <1>5 DEF Inner

\* An inner step changes the record of one live loop, which stays live.
LEMMA InnerFrame ==
  ASSUME TypeOK, NEW l \in Loops, Inner(l)
  PROVE  /\ UNCHANGED <<wg, started, quiet>>
         /\ loops[l].pc \notin {"unused", "done"} /\ loops'[l].pc \notin {"unused", "done"}
         /\ \A m \in Loops \ {l} : loops'[m] = loops[m]
<1>0. loops[l] \in Loop_t
  BY DEF TypeOK
<1> USE DEF TypeOK, Loop_t
<1>1. CASE LoopStart(l)
  BY <1>0, <1>1 DEF LoopStart
<1>2. CASE Tick(l)
  BY <1>0, <1>2 DEF Tick, Running
<1>3. CASE SelectTick(l)
  BY <1>0, <1>3 DEF SelectTick
<1>4. CASE PollEnds(l)
  BY <1>0, <1>4 DEF PollEnds
<1>5. CASE Store(l)
  BY <1>0, <1>5 DEF Store, AfterStore
<1>6. CASE Callback(l)
  <2>1. loops'[l].pc \in {"poll", "call"} /\ \A m \in Loops \ {l} : loops'[m] = loops[m]
    BY <1>0, <1>6 DEF Callback
  <2> QED BY <2>1, <1>6 DEF Callback
<1>7. CASE CallbackStop(l)
  BY <1>0, <1>7 DEF CallbackStop
<1>8. ASSUME NEW g \in Tags, ReadTag(l, g) \/ ReadFails(l, g)
      PROVE  /\ UNCHANGED <<wg, started, quiet>>
             /\ loops[l].pc = "poll" /\ loops'[l].pc \in {"poll", "store"}
             /\ \A m \in Loops \ {l} : loops'[m] = loops[m]
  <2>1. CASE ReadTag(l, g)
    BY <1>0, <2>1 DEF ReadTag
  <2>2. CASE ReadFails(l, g)
    BY <1>0, <2>2 DEF ReadFails
  <2> QED BY <1>8, <2>1, <2>2
<1> QED BY <1>1, <1>2, <1>3, <1>4, <1>5, <1>6, <1>7, <1>8 DEF Inner

LEMMA InnerCounted ==
  ASSUME TypeOK, Counted, QuietAfterStop, NEW l \in Loops, Inner(l)
  PROVE  Counted' /\ QuietAfterStop'
<1>1. Live' = Live
  BY InnerFrame DEF Live
<1>2. \A m \in Loops : loops'[m].pc = "unused" <=> m > started
  BY InnerFrame DEF Counted
<1>3. \A m \in quiet : loops'[m].pc = "done"
  <2>1. quiet \subseteq Loops
    BY DEF TypeOK, Loops
  <2>2. l \notin quiet
    BY InnerFrame DEF QuietAfterStop
  <2> QED BY <2>1, <2>2, InnerFrame DEF QuietAfterStop
<1> QED BY <1>1, <1>2, <1>3, InnerFrame DEF Counted, QuietAfterStop

LEMMA OuterFrame ==
  ASSUME TypeOK, Outer
  PROVE  /\ UNCHANGED <<wg, started, loops>> /\ TypeOK'
         /\ quiet' = quiet \/ (quiet' = 1..started /\ wg = 0)
<1> USE DEF TypeOK
<1>1. CASE \E u \in Users : Stop(u)
  BY <1>1 DEF Stop, Idle
<1>2. CASE \E u \in Users : Wait(u) \/ WaitReturns(u)
  BY <1>2 DEF Wait, WaitReturns
<1>3. CASE \E u \in Users, g \in Tags : AddTag(u, g)
  BY <1>3 DEF AddTag
<1>4. CASE \E u \in Users, g \in Tags : OnChange(u, g)
  BY <1>4 DEF OnChange
<1>5. CASE \E g \in Tags : Change(g)
  BY <1>5 DEF Change
<1>6. CASE UNCHANGED vars
  BY <1>6 DEF vars
<1> QED BY <1>1, <1>2, <1>3, <1>4, <1>5, <1>6 DEF Outer

\* The counter is zero only when every loop that was started is done.
LEMMA ZeroIsDone ==
  ASSUME TypeOK, Counted, wg = 0
  PROVE  \A l \in 1..started : loops[l].pc = "done"
<1>1. Live = {}
  BY LoopSets, FS_EmptySet DEF Counted, Live
<1>2. ASSUME NEW l \in 1..started
      PROVE  loops[l].pc = "done"
  <2>1. l \in Loops /\ ~(l > started)
    BY DEF TypeOK, Loops
  <2> QED BY <1>1, <2>1 DEF Counted, Live
<1> QED BY <1>2

LEMMA OuterCounted ==
  ASSUME TypeOK, Counted, QuietAfterStop, Outer
  PROVE  Counted' /\ QuietAfterStop'
<1>1. Live' = Live
  BY OuterFrame DEF Live
<1>2. Counted'
  BY <1>1, OuterFrame DEF Counted
<1>3. QuietAfterStop'
  BY OuterFrame, ZeroIsDone DEF QuietAfterStop
<1> QED BY <1>2, <1>3

LEMMA StartCounted ==
  ASSUME TypeOK, Counted, QuietAfterStop, NEW u \in Users, Start(u)
  PROVE  TypeOK' /\ Counted' /\ QuietAfterStop'
<1> DEFINE n == started + 1
<1>1. n \in Loops /\ loops' = [loops EXCEPT ![n].pc = "new"] /\ loops[n].pc = "unused"
  BY DEF Start, Loops, TypeOK, Counted
<1>2. n \notin Live /\ Live' = Live \cup {n}
  BY <1>1 DEF Live, TypeOK, Loop_t
<1>3. wg' = Cardinality(Live')
  BY <1>2, LoopSets, FS_AddElement DEF Start, Counted, Live
<1>4. wg' \in 0..MaxStarts
  BY <1>3, LoopSets DEF Live
<1>5. /\ loops' \in [Loops -> Loop_t] /\ loops'[n].pc = "new"
      /\ \A l \in Loops \ {n} : loops'[l] = loops[l]
  BY ZenonT(60), <1>1 DEF TypeOK, Loop_t
<1>6. started' = n /\ started \in Nat /\ n \in 0..MaxStarts
  BY DEF Start, TypeOK
<1>7. TypeOK'
  <2>1. quiet' \subseteq 1..started'
    BY <1>6 DEF Start, TypeOK
  <2> QED BY <1>4, <1>5, <1>6, <2>1 DEF TypeOK, Start
<1>8. \A l \in Loops : loops'[l].pc = "unused" <=> l > started'
  <2>1. ASSUME NEW l \in Loops, l # n
        PROVE  l > started <=> l > n
    BY <2>1, <1>6 DEF Loops
  <2> QED BY <1>1, <1>5, <1>6, <2>1 DEF Counted
<1>9. QuietAfterStop'
  <2>1. quiet \subseteq Loops \ {n}
    BY <1>6 DEF TypeOK, Loops
  <2> QED BY <1>5, <2>1 DEF QuietAfterStop, Start
<1> QED BY <1>3, <1>7, <1>8, <1>9 DEF Counted

LEMMA StopCounted ==
  ASSUME TypeOK, Counted, QuietAfterStop, NEW l \in Loops, SelectStop(l)
  PROVE  TypeOK' /\ Counted' /\ QuietAfterStop'
<1>1. loops' = [loops EXCEPT ![l] = [NoLoop EXCEPT !.pc = "done"]] /\ loops[l].pc = "select"
  BY DEF SelectStop
<1>2. [NoLoop EXCEPT !.pc = "done"] \in Loop_t /\ [NoLoop EXCEPT !.pc = "done"].pc = "done"
  BY NoLoopType DEF Loop_t
<1>3. l \in Live /\ Live' = Live \ {l}
  BY <1>1, <1>2 DEF Live, TypeOK
<1>4. wg' = Cardinality(Live')
  BY <1>3, LoopSets, FS_RemoveElement DEF SelectStop, Done, Counted, Live
<1>5. wg' \in 0..MaxStarts
  BY <1>4, LoopSets DEF Live
<1>6. TypeOK'
  BY <1>1, <1>2, <1>5 DEF TypeOK, SelectStop, Done
<1>7. \A m \in Loops : loops'[m].pc = "unused" <=> m > started'
  BY <1>1, <1>2 DEF SelectStop, Counted, TypeOK
<1>8. QuietAfterStop'
  BY <1>1, <1>2 DEF QuietAfterStop, SelectStop, TypeOK, Loops
<1> QED BY <1>4, <1>6, <1>7, <1>8 DEF Counted

LEMMA CountStep ==
  ASSUME TypeOK, Counted, QuietAfterStop, CallsInCopy, [Next]_vars
  PROVE  TypeOK' /\ Counted' /\ QuietAfterStop'
<1>1. CASE Outer
  BY <1>1, OuterFrame, OuterCounted
<1>2. CASE \E u \in Users : Start(u)
  BY <1>2, StartCounted
<1>3. CASE \E l \in Loops : SelectStop(l)
  BY <1>3, StopCounted
<1>4. CASE \E l \in Loops : Inner(l)
  BY <1>4, InnerType, InnerCounted
<1> QED BY <1>1, <1>2, <1>3, <1>4, NextCases

-----------------------------------------------------------------------------
(* The order of the values                                                 *)

\* With at most one loop started, a loop that runs is the only one that does.
LEMMA OnlyLoop ==
  ASSUME TypeOK, Counted, started <= 1, NEW l \in Loops, loops[l].pc # "unused",
         NEW m \in Loops, m # l
  PROVE  loops[m].pc = "unused"
  BY DEF Counted, Loops, TypeOK

LEMMA InnerOrder ==
  ASSUME TypeOK, Counted, CallsInCopy, Order, NEW l \in Loops, Inner(l)
  PROVE  CallsInCopy' /\ Order'
<1> DEFINE g == loops[l].tag
<1>0. g \in Tags /\ loops[l] \in Loop_t
  BY DEF TypeOK, Loop_t
<1>1. CallsInCopy'
  <2> USE DEF TypeOK, Loop_t, CallsInCopy
  <2>0. \A m \in Loops \ {l} : loops'[m] = loops[m]
    BY InnerFrame
  <2>1. CASE LoopStart(l)
    BY <2>0, <2>1, <1>0 DEF LoopStart
  <2>6. CASE Tick(l)
    BY <2>0, <2>6, <1>0 DEF Tick
  <2>7. CASE SelectTick(l)
    BY <2>0, <2>7, <1>0 DEF SelectTick
  <2>8. CASE PollEnds(l)
    BY <2>0, <2>8, <1>0 DEF PollEnds
  <2>2. CASE Store(l)
    BY <2>2, <1>0 DEF Store, AfterStore, Running
  <2>3. CASE Callback(l)
    BY SMTT(30), <2>3 DEF Callback, Running
  <2>4. CASE CallbackStop(l)
    BY <2>4 DEF CallbackStop, Running
  <2>5. ASSUME NEW h \in Tags, ReadTag(l, h)
        PROVE  CallsInCopy'
    BY <2>0, <2>5, <1>0 DEF ReadTag
  <2>9. ASSUME NEW h \in Tags, ReadFails(l, h)
        PROVE  CallsInCopy'
    BY <2>0, <2>9, <1>0 DEF ReadFails
  <2> QED BY <2>1, <2>2, <2>3, <2>4, <2>5, <2>6, <2>7, <2>8, <2>9 DEF Inner
<1>2. ASSUME started <= 1
      PROVE  Order'
  <2>1. \A m \in Loops \ {l} : loops'[m].pc = "unused"
    BY <1>2, InnerFrame, OnlyLoop
  <2>2. /\ \A h \in Tags : values[h] <= dev[h] /\ \A k \in 1..MaxCallbacks : heard[h][k] <= values[h]
        /\ loops[l].pc = "store" => loops[l].val >= 0 /\ values[g] <= loops[l].val /\ loops[l].val <= dev[g]
        /\ loops[l].pc = "call" =>
             /\ values[g] = loops[l].val
             /\ \A k \in 1..MaxCallbacks : k >= loops[l].cb => heard[g][k] < loops[l].val
    BY <1>2 DEF Order
  <2> DEFINE
        Bounded == \A h \in Tags : values'[h] <= dev'[h] /\ \A k \in 1..MaxCallbacks : heard'[h][k] <= values'[h]
        Mine ==
          /\ loops'[l].pc = "store" =>
               /\ loops'[l].val >= 0 /\ loops'[l].val <= dev'[loops'[l].tag]
               /\ values'[loops'[l].tag] <= loops'[l].val
          /\ loops'[l].pc = "call" =>
               /\ values'[loops'[l].tag] = loops'[l].val
               /\ \A k \in 1..MaxCallbacks : k >= loops'[l].cb => heard'[loops'[l].tag][k] < loops'[l].val
  <2>3. SUFFICES Bounded /\ Mine
    BY <2>1 DEF Order
  <2>4. /\ loops[l].val \in Int /\ loops[l].cb \in Int
        /\ \A h \in Tags : /\ values[h] \in Int /\ dev[h] \in Nat
                           /\ \A k \in 1..MaxCallbacks : heard[h][k] \in Int
    BY <1>0 DEF TypeOK, Loop_t, Value, Missing
  <2>5. ASSUME UNCHANGED <<values, dev, heard>>, loops'[l].pc \notin {"store", "call"}
        PROVE  Bounded /\ Mine
    BY <2>2, <2>5
  <2>6. ASSUME UNCHANGED <<values, dev, heard>>, loops' = [loops EXCEPT ![l].tick = TRUE]
        PROVE  Bounded /\ Mine
    <3>1. loops'[l].pc = loops[l].pc /\ loops'[l].val = loops[l].val /\ loops'[l].tag = g /\ loops'[l].cb = loops[l].cb
      BY <2>6, <1>0 DEF TypeOK, Loop_t
    <3> QED BY <2>2, <2>6, <3>1
  <2>7. CASE LoopStart(l) \/ PollEnds(l)
    <3>1. UNCHANGED <<values, dev, heard>> /\ loops' = [loops EXCEPT ![l].pc = "select"]
      BY <2>7 DEF LoopStart, PollEnds
    <3>2. loops'[l].pc = "select"
      BY <3>1, <1>0 DEF TypeOK, Loop_t
    <3> QED BY <2>5, <3>1, <3>2
  <2>8. CASE SelectTick(l)
    <3>1. UNCHANGED <<values, dev, heard>> /\ loops'[l].pc = "poll"
      BY <2>8, <1>0 DEF SelectTick, TypeOK, Loop_t
    <3> QED BY <2>5, <3>1
  <2>9. CASE Tick(l)
    BY <2>6, <2>9 DEF Tick
  <2>10. CASE Store(l)
    <3>1. values' = [values EXCEPT ![g] = loops[l].val] /\ UNCHANGED <<dev, heard>> /\ loops[l].pc = "store"
      BY <2>10, <1>0 DEF Store, Changed, TypeOK
    <3>2. /\ loops'[l].pc \in {"call", "poll"} /\ loops'[l].tag = g /\ loops'[l].val = loops[l].val
          /\ loops'[l].pc = "call" => values[g] # loops[l].val \/ values[g] = Missing
      BY <2>10, <1>0 DEF Store, AfterStore, Changed, TypeOK, Loop_t
    <3>3. \A h \in Tags : values'[h] = IF h = g THEN loops[l].val ELSE values[h]
      BY <3>1 DEF TypeOK
    <3>4. Bounded
      BY <1>0, <2>2, <2>4, <3>1, <3>3
    <3>5. Mine
      BY <1>0, <2>2, <2>4, <3>1, <3>2, <3>3 DEF Missing
    <3> QED BY <3>4, <3>5
  <2>11. ASSUME heard' = [heard EXCEPT ![g][loops[l].cb] = loops[l].val], loops[l].pc = "call",
                UNCHANGED <<dev, values>>
         PROVE  /\ Bounded
                /\ \A h \in Tags : \A k \in 1..MaxCallbacks :
                     heard'[h][k] = IF h = g /\ k = loops[l].cb THEN loops[l].val ELSE heard[h][k]
    <3>1. \A h \in Tags : \A k \in 1..MaxCallbacks :
            heard'[h][k] = IF h = g /\ k = loops[l].cb THEN loops[l].val ELSE heard[h][k]
      BY <2>11 DEF TypeOK
    <3> QED BY <1>0, <2>2, <2>4, <2>11, <3>1
  <2>12. CASE CallbackStop(l)
    <3>1. loops'[l].pc = "stuck"
      BY <2>12, <1>0 DEF CallbackStop, TypeOK, Loop_t
    <3> QED BY <2>11, <2>12, <3>1 DEF CallbackStop
  <2>13. CASE Callback(l)
    <3>1. /\ loops'[l].pc \in {"call", "poll"} /\ loops'[l].tag = g /\ loops'[l].val = loops[l].val
          /\ loops'[l].cb = loops[l].cb + 1
      BY <2>13, <1>0 DEF Callback, TypeOK, Loop_t
    <3>2. /\ heard' = [heard EXCEPT ![g][loops[l].cb] = loops[l].val]
          /\ UNCHANGED <<dev, values>> /\ loops[l].pc = "call"
      BY <2>13 DEF Callback
    <3>3. Mine
      BY <1>0, <2>2, <2>4, <2>11, <3>1, <3>2
    <3> QED BY <2>11, <3>2, <3>3
  <2>14. ASSUME NEW h \in Tags, ReadTag(l, h)
         PROVE  Bounded /\ Mine
    <3>1. loops'[l].pc = "store" /\ loops'[l].tag = h /\ loops'[l].val = dev[h]
      BY <2>14, <1>0 DEF ReadTag, TypeOK, Loop_t
    <3> QED BY <2>2, <2>4, <2>14, <3>1 DEF ReadTag
  <2>15. ASSUME NEW h \in Tags, ReadFails(l, h)
         PROVE  Bounded /\ Mine
    <3>1. loops'[l].pc = "poll"
      BY <2>15, <1>0 DEF ReadFails, TypeOK, Loop_t
    <3> QED BY <2>5, <2>15, <3>1 DEF ReadFails
  <2> QED BY <2>7, <2>8, <2>9, <2>10, <2>13, <2>14, <2>15, <2>12 DEF Inner
<1>3. started' = started
  BY InnerFrame
<1> QED BY <1>1, <1>2, <1>3 DEF Order

LEMMA OuterOrder ==
  ASSUME TypeOK, CallsInCopy, Order, Outer
  PROVE  CallsInCopy' /\ Order'
<1>1. UNCHANGED <<loops, started, values, heard>> /\ \A g \in Tags : dev[g] <= dev'[g] /\ dev'[g] \in Nat /\ dev[g] \in Nat
  <2> USE DEF TypeOK
  <2>1. CASE \E u \in Users : Stop(u) \/ Wait(u) \/ WaitReturns(u)
    BY <2>1 DEF Stop, Wait, WaitReturns
  <2>2. CASE \E u \in Users, g \in Tags : AddTag(u, g) \/ OnChange(u, g)
    BY <2>2 DEF AddTag, OnChange
  <2>3. CASE \E g \in Tags : Change(g)
    BY <2>3 DEF Change
  <2>4. CASE UNCHANGED vars
    BY <2>4 DEF vars
  <2> QED BY <2>1, <2>2, <2>3, <2>4 DEF Outer
<1>2. CallsInCopy'
  BY <1>1 DEF CallsInCopy
<1>3. /\ \A g \in Tags : values[g] \in Int
      /\ \A l \in Loops : loops[l].tag \in Tags /\ loops[l].val \in Int
  BY DEF TypeOK, Loop_t, Value, Missing
<1>4. Order'
  BY <1>1, <1>3 DEF Order
<1> QED BY <1>2, <1>4

LEMMA StartOrder ==
  ASSUME TypeOK, Counted, CallsInCopy, Order, NEW u \in Users, Start(u)
  PROVE  CallsInCopy' /\ Order'
  BY DEF Start, TypeOK, Loop_t, CallsInCopy, Order, Loops

LEMMA StopOrder ==
  ASSUME TypeOK, CallsInCopy, Order, NEW l \in Loops, SelectStop(l)
  PROVE  CallsInCopy' /\ Order'
<1>1. loops' = [loops EXCEPT ![l] = [NoLoop EXCEPT !.pc = "done"]]
  BY DEF SelectStop
<1>2. [NoLoop EXCEPT !.pc = "done"].pc = "done"
  BY DEF NoLoop
<1> QED BY <1>1, <1>2 DEF SelectStop, TypeOK, CallsInCopy, Order

LEMMA StepInv == IInv /\ [Next]_vars => IInv'
<1> SUFFICES ASSUME IInv, [Next]_vars PROVE IInv'
  OBVIOUS
<1>1. TypeOK' /\ Counted' /\ QuietAfterStop'
  BY CountStep DEF IInv
<1>2. CallsInCopy' /\ Order'
  <2>1. CASE Outer
    BY <2>1, OuterOrder DEF IInv
  <2>2. CASE \E u \in Users : Start(u)
    BY <2>2, StartOrder DEF IInv
  <2>3. CASE \E l \in Loops : SelectStop(l)
    BY <2>3, StopOrder DEF IInv
  <2>4. CASE \E l \in Loops : Inner(l)
    BY <2>4, InnerOrder DEF IInv
  <2> QED BY <2>1, <2>2, <2>3, <2>4, NextCases
<1> QED BY <1>1, <1>2 DEF IInv

-----------------------------------------------------------------------------

LEMMA Invariant == Spec => []IInv
  BY InitInv, StepInv, PTL DEF Spec

\* The variables keep their types: the wait group's counter never goes negative and no
\* loop runs past its copy of the callbacks (main.go:61, 73, 110-117).
THEOREM TypeCorrect == Spec => []TypeOK
<1>1. IInv => TypeOK
  BY DEF IInv
<1> QED BY <1>1, Invariant, PTL

\* Once a Stop has returned, every loop started before it is done and stays done,
\* whatever Start and Stop other users call (main.go:59-69).
THEOREM QuietAfterStopHolds == Spec => []QuietAfterStop
<1>1. IInv => QuietAfterStop
  BY DEF IInv
<1> QED BY <1>1, Invariant, PTL

\* With one loop, each callback hears the values of its tag in order and none twice, for
\* any number of tags, callbacks and changes (main.go:96-117).
THEOREM HeardInOrderHolds == Spec => []HeardInOrder
<1>1. IInv => HeardInOrder
  <2> SUFFICES ASSUME IInv, started <= 1, NEW l \in Loops, loops[l].pc = "call"
               PROVE  heard[loops[l].tag][loops[l].cb] < loops[l].val
    BY DEF HeardInOrder
  <2>1. loops[l].cb \in 1..MaxCallbacks
    BY DEF IInv, TypeOK, Loop_t, CallsInCopy
  <2> QED BY <2>1 DEF IInv, Order
<1> QED BY <1>1, Invariant, PTL

\* With one loop, the monitor's value is the one a running callback is told
\* (main.go:108-116).
THEOREM CallbackSeesValueHolds == Spec => []CallbackSeesValue
<1>1. IInv => CallbackSeesValue
  BY DEF IInv, Order, CallbackSeesValue
<1> QED BY <1>1, Invariant, PTL
=============================================================================
