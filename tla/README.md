# cpppo-go in TLA+

A verification project for `cpppo-go`: an EtherNet/IP and CIP client library
(`pkg/cpppo`), its FANUC extensions (`pkg/fanuc`), a command line tool and three
example programs. It holds TLA+ models translated from the Go source, TLC
configurations that check them on small instances, and TLAPS proofs.

- [The system](#the-system): components, their state, operations, interactions, hard behaviours
- [The modules](#the-modules): what models what, and how it corresponds to the code
- [The runs](#the-runs): questions asked, bounds, fairness
- [What the runs show of the code](#disagreements)
- [The proofs](#the-proofs): theorems, inductive invariants, assumptions, what is only model-checked
- [What is left out](#what-is-left-out) and [the plan](#the-plan)

Run everything from this directory: `tlc -workers 2 -config MCEIPSession_safety.cfg
MCEIPSession`, and likewise for the others; `tlapm EIPSession_proofs.tla`, and likewise for the
other seven `*_proofs.tla`.

## The system

| Component | State | Operations | Correct when |
|---|---|---|---|
| **EtherNet/IP client session** `pkg/cpppo/client.go` | `mu`, `conn`, `sessionHandle`, the TCP stream in both directions | `RegisterSession`, `ListIdentity`, `SendRRData`, `SendUnitData`, `Close` | a call gets the reply to its own request; nothing of a reply stays in the stream; client and device agree on the session; no stale handle is sent; every call returns; `Close` frees the socket |
| **PLC client** `pkg/cpppo/plc.go` | a `Client` | `NewPLCClient`, `ReadTag`, `WriteTag`, `Close` | a client whose registration failed is closed; what `WriteTag` takes `ReadTag` returns |
| **CIP codec** `pkg/cpppo/cip.go` | none | build requests, parse responses | lengths fit their fields, encode and decode are inverse |
| **Utilities** `pkg/cpppo/util.go` | none | `ExponentialBackoff`, encoders and decoders, formatting | retries what is transient, never more than `maxRetries` times, delays bounded |
| **FANUC registers** `pkg/fanuc/registers.go` | none; the registers are in the controller | read and write a register or a position, component by component | a position read is one that was there; a failed write is visible; indices of extension axes are kept |
| **FANUC log reader** `pkg/fanuc/logs.go` | `mutex`, `conn`, `connected`; one goroutine, `bufio.Reader` and channel per stream | `Connect`, `Close`, `ReadLogs`, `FilterLogsByType`, `GetLatestAlarms`, `Start/StopRemoteLogMonitor`, internal `reconnect` | lines arrive in order and without gaps; no connection leaks; `Close` closes; a cancelled context ends the stream; every call returns |
| **Tag monitor** `examples/tag-discovery/main.go` | `mu`, `tags`, `values`, `callbacks`, `stopChan`, `wg`; one goroutine per `Start` | `AddTag`, `OnChange`, `GetValue`, `Start`, `Stop`, `pollTags` | callbacks hear each change once and in order; nothing runs after `Stop`; `Stop` returns |
| **Command line tool** `cmd/cpppo-go/main.go` | flags | info, read, write, logs | what `-value` spells is what the controller gets, or nothing is; the mode logs ends |
| **PLC and FANUC examples** `examples/plc`, `examples/fanuc` | a context, a wait group, two monitors | a sequence of library calls; shutdown on an interrupt | what was written is read back; an interrupt ends the program |

**How they interact.** `PLCClient` turns each tag access into one `SendRRData`
exchange of a shared `Client`; the FANUC registers make seven to ten such
exchanges per position; the tag monitor makes one per tag and poll, from its own
goroutine. All of them meet at the mutex of `Client` and at one TCP stream. The
log reader has a connection of its own, shared by its callers and by every
goroutine `ReadLogs` starts: these use `lr.conn` partly under `lr.mutex` and
partly without it.

**What is hard.** Exchanges share a stream with no correlation of replies to
requests, so one abandoned exchange (a timeout, a refused request) shifts the
later ones. `Close` reads the session handle and closes the connection outside
the mutex. Reply lengths come from the peer. The log reader's goroutines
reconnect behind the backs of its callers, a deadline set once governs every later
read, several buffers read one stream, and a bounded channel couples the reader
to its consumer. The monitor stores a value read before it took the lock, and
runs callbacks while everything may change. `PROJECT.json` lists these hazards
line by line, with the properties that cover each.

## The modules

| Module | Models | Uses |
|---|---|---|
| `EIPSession` | `client.go` as goroutines share a `Client`, the stream and the device | `ClientContract` |
| `ClientContract` | what `client.go` promises: each call one step | |
| `CIPCodec` | `cip.go`, the conversions of `plc.go` and `util.go`, the framing of `SendRRData`: operators on bytes | |
| `TagAccess` | `plc.go` against a PLC with tags | `CIPCodec`, `TagStore` |
| `TagStore` | what `plc.go` promises: a value per tag, read and written whole | |
| `Programs` | `cmd/cpppo-go` and `examples/plc` | `TagAccess` |
| `FanucRegisters` | `registers.go` over the accesses of `plc.go` | |
| `LogReader` | `logs.go` but `FilterLogsByType`, and the controller | |
| `LogConsumers` | `FilterLogsByType`, `examples/fanuc`, the mode logs of the tool | `LogReader` |
| `TagMonitor` | the monitor of `examples/tag-discovery` | |
| `Backoff` | `ExponentialBackoff` of `util.go` | |

What surrounds a component (the device, the controller, the PLC, the network, the callers) is
in its module, as far as the code presumes it. `MC<module>` instantiates a module for TLC (`MCPrograms`
with it `TagAccess`, `MCLogReader` with it `LogConsumers`); `<module>_proofs` proves about it.
`LogStream_proofs` continues `LogReader_proofs`, and `LogConsumers_proofs` both; `Programs_proofs`
holds what is proved of `CIPCodec` and `TagAccess` too.
`PROJECT.json` maps every definition to the lines it stands for.

### EIPSession

`mu`, `sessionHandle` and `connOpen` are the fields of `Client`; `pc` and `call`
say where each goroutine is. A call goes through `Call`, `Lock`, `Request` (the
write), `ReadHeader` and `ReadBody`, each method with its own guards, checks and
early returns; `Close` through `CloseCheck`, `Lock`, `unregisterSession` and
`CloseConn`, the first and the last without the mutex, as in the code.

- The stream to the device is the queue `c2s`. The stream from it is a *count* of
  unread bytes and the offsets at which replies start. Taking bytes moves the
  offsets; a header read where no reply starts is arbitrary, since its bytes are
  those of another field. Contents are not modelled, lengths are: what the
  properties tell apart is whose reply a read finds.
- A read that cannot be satisfied ends by its deadline (`ReadFails`), having
  consumed all that was there, as `io.ReadFull` does. With the fault `late` the
  deadline may pass while the reply is on its way.
- The prefix and the payload of a `SendRRData` reply are two reads under one
  deadline with nothing between them; they are one step.
- A write that fails leaves the stream to the device whole (`WriteError`). One that fails at its
  deadline may in fact have sent a part; the code goes on to use the connection, and the device would take
  the next request for the rest of it. That is not modelled.
- A reply to `SendRRData` has the six bytes of the prefix or more, as the protocol has it. Of
  a shorter one the client would read into the reply that follows.
- The device gives every registration a fresh handle, serves requests in order,
  and forgets a session only when it is unregistered.
- `desync` is a history variable: it becomes true when an exchange ends while its
  reply is not fully consumed.

**`ClientContract`** is the abstract client: the session, whether the connection is open,
whether replies can be trusted, and each goroutine's call. Each method is one step between
`Begin` and its return, except `Close`, whose two effects (`Unregister`, `Disconnect`) are apart
because the code does not hold the mutex over both. `EIPSession!KeepsContract` is the refinement:
`session` is `sessionHandle`, `open` is `connOpen`, `trust` is `~desync`, and a call is seen
as its caller sees it, without result until it has returned.

### CIPCodec, TagAccess and Programs

`CIPCodec` translates the byte-level code function by function: a byte is a number below
`Byte`, a word is two of them, integers wrap where Go's conversions do, slices that go out of
range panic. `TagAccess` puts `ReadTag` and `WriteTag` of `plc.go` on top, with a PLC that parses what it
receives by the lengths it finds and answers with bytes, and may refuse, stay silent, cut a reply
short or announce a wrong string length (`Faults`). `Programs` runs a program over that: the PLC
example, the tool with each of a set of command lines, or any program. `op` is the access that returns
as the user meant it (`asked`) and as the PLC took it (`seen`).

**`TagStore`** is the abstract PLC client: a value per tag, and the access that returns. A read that succeeds returns
the value of its tag, a write that succeeds has changed its tag to the value given, one that fails has or has
not, and nothing else changes. `TagAccess!KeepsStore` is the refinement: `value` is `last`, and
`access` is what the user sees of `op` (`AnswerSeen`). Not vouched for (`"unsure"`) is a read of a `REAL`, which
[does not return what was written](#disagreements), and one of a string in whose reply the PLC announces another length.

- One access is one step (`EIPSession` shows why). `Byte` is 16 in the runs, so that an 8-bit length
  that wraps is a name of 16 letters; the codes are distinct in their low four bits.
- A `REAL` is its bits, a table on a few numbers (`Float32bits`). What `float32(bits)` in `cip.go:336` makes of
  the bits is modelled as the number they spell; in the code it also keeps no more than 24 of them.
- What a text of `-value` spells is a table too, one for integers (`Spells`) and one for the nearest float32
  (`SpellsReal`), since `strconv.ParseFloat(_, 32)` rounds where `ParseInt` refuses.
- `GoRange` says which numbers a Go type holds, `StandsFor` which bytes of a tag are which value.
- A name of `2 * Byte` letters or more (512 in the code) makes its length byte and the path size wrap so
  that its own letters are parsed as the rest of the request. It is taken for another access only if one
  of them is a data type code where a data type is expected; `Plain` names, which are shorter or contain no
  such code, never are. The codes are above `0x7f`: every name in ASCII is plain.
- In standard mode the tool's `ReadTag` and `WriteTag` are placeholders: they send two bytes and
  do not look at the reply (`main.go:263-298`); `Exchange` models exactly that.

### Backoff

One step an attempt, one a sleep. `Outcomes` are the kinds of error the type assertions of
`isConnectionError` tell apart; the function that is retried may have any at each attempt. A duration
is a signed number that wraps at `Half`.

### LogReader

`mutex`, `conn` and `connected` are the fields of `LogReader`; `net` holds every
connection ever dialled, so that a leak is visible. `op` is each caller's method
and position in it, `rd` each `ReadLogs` goroutine: the connection its
`bufio.Reader` was created on, the lines it has buffered, the entry in its hand.
Sections under the mutex that do not wait for the network are one step;
`Connect`, `reconnect` and `StopRemoteLogMonitor` hold the mutex over a network
read and are two. Uses of `lr.conn` outside the mutex are steps of their own.

- The unit is the line. A `Read` takes any non-empty prefix of the lines that have
  arrived; the `bufio.Reader` hands out the first and keeps the rest, and the rest
  is lost when the reader is dropped. Lines cut in two are not modelled.
- `bufs` counts who reads a connection: its `bufio.Reader`, and the reads of `Connect` and the
  commands that go past it (`ReadBeside`). Lines are not lost while it is 1, which is what `NoGap` says.
- `expired` is the read deadline: set once per connection (`logs.go:101`, `220`)
  and never renewed. `Expire` may happen any time.
- A write to a connection the controller has ended may succeed or fail. Writes
  have no deadline; they are assumed not to block.
- `lr.conn` can be nil when a caller gets to use it, since another caller's failed
  dial assigns nil (`logs.go:86`), and a controller may announce a negative number of alarms, for which
  `make` panics (`logs.go:367`, fault `count`). The model goes to `panicked`, in which nothing more
  happens.

**`LogConsumers`** says who reads the channels. `filter` and `filteredLogs` are the goroutine and the
channel of `FilterLogsByType` (`FilterRange`, `FilterSend`, `FilterEnd`). `app` is the FANUC example
(context, `monitorLogs`, `monitorRegisters`, main) or the mode logs of the tool, whose main does what
`monitorLogs` does and ranges over the channel instead of selecting. Their calls are calls of
`LogReader` (`Calling` is `Invoke` with the method given), so each interleaves with the stream's
goroutine as there. One kind of consumer exists in a behaviour, and `bound` says which methods it calls, how
often, and how many dials, lines and ended connections there are: one of `Bounds` for its kind.

### TagMonitor

One record per `monitorLoop` (the tick pending in its ticker, the tags left in
this poll, the value read and not yet stored, the callback to run next). Each
section under `m.mu` is one step. `wg` is the counter of the wait group, and
`Stop` is split as the code splits it: closing the channel, `Wait` finding the
counter, and the return of a `Wait` that was woken, which panics when a `Start`
came in between, as `sync.WaitGroup` does. Closing the channel twice panics. A
callback may call `Stop` (`CallbackStops`), which never returns.

### FanucRegisters

`store` is the controller's registers, a number for each component: which call wrote
it. `op` is the call each goroutine makes and the component it is at. `ReadRegister` and
`WriteRegister` begin a call, of one component or, for a position register, of all;
`ReadComponent` and `WriteComponent` make an access and go on, `ReadFails`,
`WriteFails` and `WriteUnsupported` return its error, `SkipExtension` ignores it.

- An access is one exchange of `SendRRData`, atomic because it holds the client's mutex.
  The controller serves it, refuses it or does not answer (`Answers`); the client gets
  the *first* reply of the stream, or none by its deadline, and then its reply stays
  (`late`). That is what `EIPSession` shows an exchange to do, with replies that are late
  as a whole: part of a reply left behind is refused by the header checks there.
- What the client looks at is what the code looks at: a read compares the data type
  (`ParsesAs`), a write the status (`Accepts`). A `REAL` is decoded to the number its
  bits spell (`Decoded`).
- `writable` is what `WriteTag` of the client behind `PLCClientInterface` takes (`Clients`):
  those of `plc.go` that a register can have, or, for another implementation such as the
  one of the tests, strings too.
- `astray`, `lost` and `torn` are history variables: an access has taken another's reply, a
  request was never answered, two writes of a register have overlapped.

## The runs

| Run | Question | Bounds |
|---|---|---|
| `eip_safety` | Does each answer go to its own request until a read is given up, do client and device agree on the session, and is every handle that reaches the device live, with late, dropped, refused and reset exchanges, and replies to `SendUnitData`? | 2 goroutines, 4 calls |
| `eip_live` | Is the stream empty between exchanges, does each call return, and does the client implement `ClientContract`, with dropped, refused and reset exchanges? | 2 goroutines, 3 calls, two body lengths |
| `tag_access` | Does the PLC understand what is sent; do clients and PLC implement `TagStore`; are strings whole; do the helpers of `util.go` agree; does the tool write what its command line says? | bytes of 4 bits, tags of 7 types, names of 0 to 250 letters, extreme values, command lines of every mode, type and register, with numbers below zero, at and past the limits of the types, and one that a float rounds |
| `registers` | What does a failed write leave of a position, when can a read and a write be trusted, and what do late replies do to a position? | 2 goroutines, 3 calls, a position register of one coordinate, `Config` and two axes, a number and a string register, 2 late replies |
| `log_safety` | Does the log reader leak a connection, believe it is connected when it is not, stay connected once closed, or panic under a caller that is alone; are lines delivered in order, once, without gaps, and does a filter lose any? | 2 callers; 3 calls (so up to 3 goroutines) and 2 connections without lines, 2 calls and 2 connections of a line that the controller may end, 2 calls of any method and a connection of 4 lines, one of them empty, or a `ReadLogs` behind a filter; dials and authentications that fail; channels of 1 |
| `log_live` | Does a cancelled context end every goroutine of a stream, does every call return, and do the FANUC example and the tool end? | 1 caller, 3 calls, 2 connections, a controller that is silent, resets, or announces a wrong number of alarms, 4 kinds of consumers |
| `tag_monitor` | Are callbacks called once, in order and never after `Stop`; does `Stop` return; is every lasting change heard? | 2 users, 2 loops, 2 stops, one tag, one callback that may call `Stop` |
| `backoff` | Which errors are retried, how often, with which sleeps, and what is returned? | -1 to 4 retries, durations of 7 bits, 36 pairs of delays |
| `eip_stale_reply`, `log_dead_reader`, `real_read_back`, `position_write` | [Disagreements](#disagreements), each a counterexample | as small as shows it |

**Bounds.** `MaxCalls` bounds the calls, not the steps within them. In the client
the state a call leaves to the next is the stream, the session and `desync`: one
call to register, one to be abandoned, one to meet what it left and one to close
reach every combination; two goroutines are enough for any race on the mutex,
which hands over between two at a time. `HeaderLen`, `RegisterLen` and
`PrefixLen` are small in the runs so that a misread header can fall inside or
across replies; only that they are positive matters, and the proofs use no more.
In the log reader two connections show any reconnect (the old and the new), a
channel of one entry is full as easily as one of a hundred, and four lines are what
a gap between two delivered lines needs when one line is empty; behind a filter they fill
both channels and both hands. Each kind of consumer has its own bounds. In `log_live` these are two calls of any
program (a stream, and a call or another stream beside it), a `ReadLogs` with three wanted lines
behind a filter, of which one fills the filtered channel, one is in the filter's hand and one fills the log
channel, so that both goroutines block once nobody receives, the three calls the example makes, and the
two the tool makes. The names of `tag_access` are at the limits of the length byte, of the path size and of
the header's length, each a wrap of the model's bytes; every other length behaves as one of these. In the monitor a
value that changes once is enough to be stale. Of the six coordinates of a position one
stands for all: they are accessed alike, and only their order before `Config` and the
axes matters. A late reply has to be out by a whole
position before `Config` is found again, and two suffice for the short one: the two axes of
a first read time out, a second read fails at `Config`, the third reads what the second
left. Three calls also are two writes and a read, or three layers of a register. Callers are interchangeable, so
runs of safety properties use symmetry; runs with liveness do not.

**Fairness.** Goroutines that can run do (WF on their steps). A goroutine that
waits for a mutex gets it when it is freed again and again (SF on the steps that
lock): `sync.Mutex` switches to starvation mode and hands over in order. A device
that is up serves what it received (WF on `Serve`); nothing forces it to answer
when faults allow otherwise. Deadlines pass (WF on `Expire`), as the clock does.
In the log consumers too each goroutine runs (WF on `FilterStep`, `AppStep`), and a `select` that finds
the context done again and again takes that branch (SF on `RegistersDone`); the 30 seconds of the tool
pass (WF on `Timeout`). Nobody has to receive or to cancel, and no interrupt has to come.
In the monitor, `select` picks at random among the branches that are ready, so a
branch ready again and again is taken (SF); the assumption that the PLC answers a
tag that is asked for again and again (SF on `ReadTag`) is needed by `ChangeIsHeard`
alone.

**Mutants.** For every property of a passing run there is a mutant of a definition,
named above it as `Mutant of ...`, that is a plausible bug and violates it:
a lock that is not taken, a `break` for a `return`, an entry sent without the
`select`, a connection that is not closed, and so on.

## Disagreements

What the code does and a comment in it says otherwise. Each of the first four is a run that TLC
finds violated.

1. **A late reply is returned to the wrong call** (`eip_stale_reply`). `client.go:191`
   and `255` promise "the response". `SenderContext` is sent as zeros and not
   compared, and the connection stays in use after a timeout: the next call reads the
   reply, or the rest of the reply, of the abandoned one.
2. **After a reconnect nothing is read** (`log_dead_reader`). `logs.go:151`, `167`: the
   `bufio.Reader` is created once, on the first connection; `reconnect` replaces
   `lr.conn` but not what the goroutine reads from, so it fails and reconnects for ever.
   The deadline of `Connect`, never renewed, brings every stream to this point.
3. **A REAL that is read is not the one written** (`real_read_back`). `cip.go:336` converts
   `float32(bits)` where `math.Float32frombits` is meant: the PLC example, which says "Read back the
   value we just wrote" (`main.go:165`), writes 75.5 and reads 1117192192.
4. **A position cannot be written** (`position_write`). `registers.go:234`: "WritePositionRegister writes a Position
   to a position register (PR)", and the README (`134-143`) and the FANUC example (`main.go:182-202`,
   "Successfully wrote to PR[1]") use it so. `Config` goes as a `STRING` (`registers.go:275`), which `WriteTag` of
   the `PLCClient` that `NewFanucClient` makes refuses (`plc.go:100`): each such write overwrites the six coordinates and then
   fails, with any controller. The test passes because its mock takes any type.

Two more are plain from the code that the models have, and no run is about them:

5. **`ExponentialBackoff` retries no timeout and no lost connection of this library.** `util.go:26` says "Check if
   this is a network error that we should retry", `43` "Check if the error is a connection error that should be
   retried". The type assertion does not see an error wrapped with `%w`, which is how the client returns a timeout or a
   lost connection (`client.go:126`, for one); only the error of closing what is closed comes bare. `Retryable` has these errors, the wrapped ones of `Outcomes`, as not
   retried. An attempt of `Backoff` may end in any way, so that a call of the library yields no other than wrapped ones is
   not in it, and no property says it.
6. **The tool in standard mode prints "Write successful" and has written nothing** (`main.go:114`). Its `WriteTag`
   sends a request of two bytes and does not look at the reply (`main.go:286-297`). `Programs` has it so;
   `WritesWhatItSays` is about the FANUC mode.

Met on the way and modelled. Some are stated as a property, of what the code does instead:

- `Close` leaves the connection open when the Unregister request cannot be written (`client.go:72`),
  and returns an error: `KeepsContract` shows that there is no other way.
- `Close` of a log reader is undone while a `ReadLogs` goroutine lives whose context is not
  cancelled: it takes the closed connection for a failure and connects again. `StaysClosed` says what
  is left: once these goroutines have ended the reader is closed.
- `-value TRUE` writes false to a `BOOL`.
- A string length within 4 of 65535 passes the comparison, which wraps, and the slice panics
  (`StringWhole`, `cip.go:320`).
- `SendUnitData` returns no response though `client.go:348` says it does, and a device that sends one
  shifts every later exchange (fault `unitReply` of `eip_safety`).
- An axis that cannot be read moves the later ones down (`registers.go:203`); a refused
  write may take a late reply and report success (`plc.go:114`).
- `log.Fatalf` skips the deferred `Close` in the tool and the PLC example; the FANUC example ends
  without waiting for the goroutine of `ReadLogs`, and without `StopRemoteLogMonitor` when it finds its
  channel closed first. `GetLatestAlarms` does not look at its context.
- The nil connection that panics, in a method only when there are two callers (`logs.go:347`, `CallerNotNil`), and in
  a goroutine of `ReadLogs` also after a later `Connect` whose dial failed (`logs.go:152`); the negative number of
  alarms that panics (`logs.go:367`); the second `Stop` that panics and the `Stop` from a
  callback that deadlocks (`main.go:67`, `68` of the tag monitor), and two loops that overwrite
  a newer value with an older one (`main.go:97-108`).

## The proofs

Every invariant and action property that a run checks is a theorem, and so are the refinements of
`ClientContract` and `TagStore`. They hold for every value of the constants
that the named assumptions admit: any number of goroutines, calls, connections, lines, tags, retries,
any lengths and byte size. The assumptions give the constants their types and keep
names of different kinds apart; TLC evaluates them in the runs. Each argument is an inductive invariant; its
step proof has a lemma for an action, or for a group of actions that disturb the same conjuncts. `BY` names
all that a leaf needs.

| Module | Theorems (and the property, where the name differs) |
|---|---|
| `EIPSession_proofs` | `TypeCorrect`, `OneExchange`, `HInvAlways`, `CleanAnswersAlways`, `LiveHandleAlways`, `AgreeOnSessionAlways`, `NothingLeftBehindHolds`, `ContractKept` (`KeepsContract`) |
| `Programs_proofs` | `TypeCorrect`, `AlwaysUnderstood`, `AlwaysUtilAgrees`, `StoreKept` (`KeepsStore`), `AlwaysReadBack`, `AlwaysStored` (`AckIsStored`), `AlwaysWhole` (`StringWhole`), `ToolHonest` (`WritesWhatItSays`) |
| `FanucRegisters_proofs` | `TypeCorrect`, `LayeredAlways`, `WrittenAlways` (`WrittenIsStored`), `SnapshotAlways` (`ReadIsSnapshot`), `ConfigAlignsAlways` |
| `LogReader_proofs` | `BaseAlways`, `TypeCorrect`, `NeverLeaks` (`NoLeak`), `ConnectedOpen` (`ConnectedIsOpen`), `ClosedStays` (`StaysClosed`), `CallerMeetsNoNil` (`CallerNotNil`) |
| `LogStream_proofs` | `StreamsAlways`, `OrderAlways` (`InOrder`), `NeverGaps` (`NoGap`) |
| `LogConsumers_proofs` | `ConsumersAlways`, `FilterAlways` (`FilterKeepsAll`), and those of the two modules above for a `LogReader` with its consumers (`Consumed...`) |
| `TagMonitor_proofs` | `TypeCorrect`, `QuietAfterStopHolds`, `HeardInOrderHolds`, `CallbackSeesValueHolds` |
| `Backoff_proofs` | `TypeCorrect`, `OutcomeAlways`, `DelaysFollow`, `DelaysDouble` (`SleepsDouble`) |

**EIPSession.** None of the properties is inductive: whose answer a call takes depends on what was in the
stream before it. `HInv == Base /\ (~desync => InStep) /\ CleanAnswers`:

- `Base` holds whatever the network does: types (no read takes more bytes than there are), the mutex is held
  by whoever is inside an exchange (`LockInv`), what each position waits for (`CallInv`), calls have numbers
  of their own (`Ids`), and nothing waits in the stream of a device that is gone (`Gone`).
- `InStep` describes the stream until an exchange is abandoned. It is not empty between
  exchanges, since a device may answer `SendUnitData` and nobody reads that. But it is made of whole replies, one
  after the other (`Tiling`); at most one request or reply is owed to anyone, and a goroutine waits for it
  (`OneAsked`, `OneAnswer`); what is read is the reader's own (`OwnBody`). `CleanAnswers` follows.
- The sessions of the device are the client's and those granted in replies under way (`Agreed`); requests name
  sessions that are not unregistered before them (`Live`); a new handle is not in use (`Fresh`). From
  these follow `AgreeOnSession` and `LiveHandle`.

`NothingLeftBehind` needs a device that does not answer `SendUnitData` (with one that does it is false); the
theorem says so and adds `OnlyOwed`, that nothing else is in the stream. `ContractKept` shows that
`Init` implies `C!Init` and that each step is a step of the contract or leaves what callers see alone. It adds
to `HInv` that the session stays as it is while a call waits (`OneSession`) and that replies belong to calls
that were made (`Known`).

**Programs, TagAccess, CIPCodec.** The invariants come in two layers. `Base == TypeOK /\ Understood /\ UtilAgrees /\
Planned` holds for all names; `Planned` says that the tool has yet to do what its flags ask. `Full` adds, for plain
names, `Stored` (each tag's bytes stand for the value it was last written with), `Judged` (`ReadBack`,
`AckIsStored` and `StringWhole`), and `ToolInv` (the tool has changed its target alone, and when it is done says so of what
is stored). The work is in lemmas about the operators, in this order: arithmetic with a base (`DivMod`, `TwoDigits`,
`Complement`: two's complement is undone), parts of joined sequences, words as bytes, values as data
and back (`Sent`, `ReadBackNumber`), what the PLC finds in a request (`RequestShape`, then `SeenWell` for a
name that fits and `SeenIll` for one that does not), what the client finds in a reply, whole or cut (`RepliesCut`,
`NumberRead`, `StringRead`), one access (`ReadTyped`, `WriteTyped`, `ReadJudged`, `WriteJudged`), and the
steps of a program (`PlansFit`, `ToolStep`). `StoreKept` is the refinement: `Full` makes each step of a program a step
of the store, or one that its user does not see (`StoreStep`); a read is the store's because of `ReadBack'`, a write
because of what the PLC takes it for. `ReadBack` and `AckIsStored` are what it means for one access, and are
theorems of their own. Five theorems have the hypothesis `\A n \in Names : Plain(n)`. It admits all
names in ASCII, and all of less than 512 bytes; `MCPrograms` has TLC evaluate it. Without it they
do not hold: a longer name in another encoding could be taken for a write to another tag.

**FanucRegisters.** Besides the properties, `IInv` has: how far a call is and what it
has read (`Progress`); a call that thinks it is alone is (`AloneInv`); the only writer of a register has the
newest number and has stored it up to where it is (`WriterInv`, for `Layered` and `WrittenIsStored`); a
reader whose replies are its own has read each component from where it belongs (`ReaderInv`, for
`ReadIsSnapshot`). For
`ConfigAligns`, `StreamInv` looks at what a lone goroutine has taken and what is still late as one
sequence, in which the replies before each `Config` are those of its coordinates (`Chained`), and which ends
with the accesses made last (`Ends`).

**LogReader.** `Base == Types /\ Bounded /\ IdsInv /\ LockInv /\ ConnInv /\ ClosedInv`. `LockInv` says who holds the
mutex over a network read, `ConnInv` which connections are open at each position, `ClosedInv` which goroutines may
still connect after a `Close`. `CallerMeetsNoNil` is a second induction on top: `HasConn` of a goroutine that alone has
called is kept by its own steps (`HasConnMoves`), and by the goroutines of `ReadLogs`, whose `reconnect` leaves `lr.conn` as it
is when its dial fails (`ConnStays`); it says that `lr.conn` is not nil, and no more. `LogStream_proofs` adds that `bufs` counts the readers of a connection (`BufsInv`); that
entries delivered, entry in hand, buffer and connection ascend, in that order (`OrderInv`); and that together
they miss nothing while one buffer reads (`GapInv`). `LogConsumers_proofs` shows that a step
with consumers is a step of `LogReader`, or leaves it alone (`Aside`), and adds that a filtered
channel, its goroutine and its consumer together have exactly the wanted entries of the channel before (`FilterInv`).

**TagMonitor.** `Counted`: loops are started in order, and the wait group counts those not done, so that a `Wait`
that sees zero has waited for all of them. `Order`: heard <= stored <= read <= the PLC's
value, which makes a new value newer than what its callbacks know; it is stated for one loop because it fails
for two. Cardinalities come from `FiniteSetTheorems`.

**Backoff.** `Counted`: before an attempt there were `i`, each worth a retry and slept after. `SleepsFollow`: each sleep is
twice the one before or `maxDelay`, as long as nothing overflows. `DelaysDouble` says of each alone what it is, the initial delay
doubled once for each sleep before it, as long as no doubling can overflow, and where one can, only that it does not exceed both arguments.
`Doubled` is a recursive function; that it is one, and what it returns, is proved by `Induction`: a set of naturals that
has 0 and with each the next is all of them, since what it lacks would have a least member (`WFMin`).

**Only model-checked.**

- Liveness, out of the prover's reach as are fairness and `ENABLED`: `EveryCallReturns`, `CancelEndsPipeline`,
  `ProgramsEnd`, `StopReturns`, `ChangeIsHeard`.
- The disagreements that have a run, which are counterexamples.

## What is left out

- Bytes of headers and payloads in `EIPSession`, where only lengths matter (`CIPCodec` has
  those of requests and replies); the fields `parseLogEntry` extracts, but for the type a filter
  asks for; `TagDiscovery`, which returns a constant list.
- `FormatTagName` and `ParseIPAddress`, which format text and are not called; the texts of
  `CIPStatusToError`; what the programs print, but for what it claims.
- In `FanucRegisters` the type assertions on values that were read: the parser has compared the type.
- `writeToPositionRegister` and `demonstrateRegisterOperations` of the FANUC example, which are not
  called; the round of register reads at a tick is one step of `LogConsumers`.
- Whether `GetLatestAlarms` returned an error: `LogReader` does not record it, so the tool may end or
  go on after it (`AlarmsFail`).
- Data races: `Close` reads `sessionHandle` without the mutex, and the log reader uses
  `lr.conn` without it. The models take a racy read of one word to return the value of
  that moment; a torn read of the interface value `lr.conn` is not modelled.

## The plan

Every component is modelled, and what can be proved of the properties is. What may still be worth it:

1. An abstract specification of a log stream, a sequence of which a channel yields a subsequence, and the proof
   that `LogReader` implements it, from `OrderInv` and `GapInv`.
2. Shorter proofs of the step lemmas of `LogReader_proofs`, where several actions share a case.
