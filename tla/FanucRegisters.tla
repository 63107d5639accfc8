---------------------------- MODULE FanucRegisters ----------------------------
(***************************************************************************)
(* Goroutines that read and write the registers of a controller through    *)
(* one FanucClient: pkg/fanuc/registers.go over ReadTag and WriteTag of    *)
(* pkg/cpppo/plc.go.                                                       *)
(*                                                                         *)
(* A register is accessed one tag at a time; a position register has       *)
(* NumReals coordinates (X, Y, Z, W, P, R), Config, and up to MaxExt       *)
(* extension axes, numbered in this order.  One access is one step, since  *)
(* SendRRData holds the client's mutex; what another call finds of it is   *)
(* the reply it left in the stream, which EIPSession shows to happen after *)
(* a timeout.  Here replies are late as a whole and in order.              *)
(*                                                                         *)
(* A value is the number of the call that wrote it.  Calls are numbered in *)
(* the order they begin, so of two writes the later has the larger values. *)
(***************************************************************************)
EXTENDS Integers, Sequences

CONSTANTS
  Callers,    \* goroutines that share the FanucClient
  Positions,  \* PR registers
  Numbers,    \* R, AI and AO registers
  Flags,      \* DI, DO, GI and GO registers
  Strings,    \* SR, UR and VR registers
  NumReals,   \* coordinates of a position: 6
  MaxExt,     \* extension axes the code accesses: 3
  Axes,       \* extension axes the controller has
  Clients,    \* for each client the interface may hold, the types its WriteTag takes
  Faults,     \* subset of {"late", "refuse", "drop"}
  MaxCalls,   \* bound on calls
  MaxLate     \* bound on replies left in the stream

Registers == Positions \cup Numbers \cup Flags \cup Strings
DataTypes == {"REAL", "BOOL", "STRING"}

ASSUME RegistersAssumption ==
  /\ NumReals \in Nat \ {0} /\ MaxExt \in Nat /\ Axes \in Nat /\ Axes =< MaxExt
  /\ Clients # {} /\ Clients \subseteq SUBSET DataTypes
  /\ MaxCalls \in Nat /\ MaxLate \in Nat
  /\ Registers # {}
  /\ Positions \cap (Numbers \cup Flags \cup Strings) = {}
  /\ Numbers \cap Flags = {} /\ Strings \cap (Numbers \cup Flags) = {}

\* What plc.go:58-101 converts; of these, what a register can be.
PLCClient == {"REAL", "BOOL"}

Config == NumReals + 1
Components == 1..(Config + MaxExt)

\* Components without which an access to the register fails.
Required(r) == IF r \in Positions THEN Config ELSE 1
\* Components that ReadRegister accesses.
ReadLength(r) == IF r \in Positions THEN Config + MaxExt ELSE 1
\* Mutant of WriteLength: every extension is written
WriteLengthAll(r, e) == Required(r) + e

\* Components that WriteRegister accesses, for a Position with e extensions.
WriteLength(r, e) == Required(r) + (IF e > MaxExt THEN MaxExt ELSE e)

\* getRegisterDataType, and the types the components of a position are accessed with
DataType(r, c) ==
  CASE r \in Flags                           -> "BOOL"
    [] r \in Strings                         -> "STRING"
    [] r \in Positions /\ c = Config         -> "STRING"
    [] r \in Numbers                         -> "REAL"
    [] r \in Positions /\ c # Config         -> "REAL"

VARIABLES
  writable,   \* the types that WriteTag of f.PLCClient takes
  store,      \* the controller's registers
  late,       \* replies in the stream that the call they are for did not wait for
  op,         \* the call each goroutine makes or has made last
  calls,      \* calls so far
  astray,     \* history: some access took the reply to another
  lost,       \* history: some request was never answered
  torn        \* history: registers that two calls were writing at once

vars == <<writable, store, late, op, calls, astray, lost, torn>>

\* at, len: the component to access next and the last one;  id: number of a write;
\* got: the values read so far;  alone: no other call has been writing the register.
Idle == [do |-> "idle", reg |-> CHOOSE r \in Registers : TRUE, at |-> 1, len |-> 1,
         id |-> 0, got |-> <<>>, alone |-> TRUE]

\* NewFanucClient, NewPLCClient: a client whose session is registered
Init ==
  /\ writable \in Clients
  /\ store = [r \in Registers |-> [c \in Components |-> 0]]
  /\ late = <<>> /\ op = [p \in Callers |-> Idle] /\ calls = 0
  /\ astray = FALSE /\ lost = FALSE /\ torn = {}

-----------------------------------------------------------------------------
(* The controller and the stream.                                            *)

Exists(r, c) == r \in Positions => c =< Config + Axes

NoReply == [kind |-> "none", reg |-> CHOOSE r \in Registers : TRUE, comp |-> 1, val |-> 0]
Refusal(o) == [kind |-> "refused", reg |-> o.reg, comp |-> o.at, val |-> 0]
Answer(o) ==
  IF o.do = "read"
  THEN [kind |-> DataType(o.reg, o.at), reg |-> o.reg, comp |-> o.at, val |-> store[o.reg][o.at]]
  ELSE [kind |-> "written", reg |-> o.reg, comp |-> o.at, val |-> 0]

\* How the controller may answer the access of o: it serves it, refuses it, or says nothing.
Answers(o) ==
  {s \in {<<Answer(o)>>, <<Refusal(o)>>, <<>>} :
     /\ s = <<Answer(o)>> => Exists(o.reg, o.at)
     /\ s = <<Refusal(o)>> => ~Exists(o.reg, o.at) \/ "refuse" \in Faults
     /\ s = <<>> => "drop" \in Faults}

\* What the access of o can find: its own reply, one that is late, or none.
Incoming(o) == {NoReply, Answer(o), Refusal(o)} \cup {late[i] : i \in DOMAIN late}

\* SendRRData, when the controller answers s: the first reply of the stream, or none
\* by the read deadline.
Exchange(s, reply) ==
  /\ \/ /\ late \o s # <<>>
        /\ reply = Head(late \o s) /\ late' = Tail(late \o s)
     \/ /\ late \o s = <<>> \/ "late" \in Faults
        /\ Len(late \o s) =< MaxLate
        /\ reply = NoReply /\ late' = late \o s
  /\ astray' = (astray \/ (late # <<>> /\ reply # NoReply))
  /\ lost' = (lost \/ s = <<>>)

\* Mutant of ParsesAs: the data type is not compared
ParsesAny(reply, type) == reply.kind \in DataTypes

\* ParseCIPReadResponse: the data type is compared, and nothing else.
ParsesAs(reply, type) == reply.kind = type
\* float32FromUint32 makes a REAL the number its bits spell, not the one they encode.
Decoded(reply) ==
  [reg |-> reply.reg, comp |-> reply.comp, val |-> reply.val, bits |-> reply.kind = "REAL"]
\* ParseCIPResponse: a write only looks at the status.
Accepts(reply) == reply.kind \notin {"none", "refused"}

-----------------------------------------------------------------------------
(* Calls.                                                                    *)

Active(p) == op[p].do \in {"read", "write"}
Writes(p, r) == op[p].do = "write" /\ op[p].reg = r
Others(p) == Callers \ {p}

Begin(p, do, r, len) ==
  [do |-> do, reg |-> r, at |-> 1, len |-> len, id |-> IF do = "write" THEN calls + 1 ELSE 0, got |-> <<>>,
   alone |-> \A q \in Others(p) : ~Writes(q, r)]

\* ReadRegister, ReadPositionRegister and their wrappers
ReadRegister(p, r) ==
  /\ ~Active(p) /\ calls < MaxCalls
  /\ calls' = calls + 1
  /\ op' = [op EXCEPT ![p] = Begin(p, "read", r, ReadLength(r))]
  /\ UNCHANGED <<writable, store, late, astray, lost, torn>>

\* WriteRegister, WritePositionRegister and their wrappers
WriteRegister(p, r, e) ==
  /\ ~Active(p) /\ calls < MaxCalls
  /\ r \notin Positions => e = 0
  /\ calls' = calls + 1
  /\ op' = [q \in Callers |->
              IF q = p THEN Begin(p, "write", r, WriteLength(r, e))
              ELSE [op[q] EXCEPT !.alone = @ /\ op[q].reg # r]]
  /\ torn' = IF \E q \in Others(p) : Writes(q, r) THEN torn \cup {r} ELSE torn
  /\ UNCHANGED <<writable, store, late, astray, lost>>

\* The value is not of the Go type that WriteRegister or WriteTag asserts.
WrongType(p) ==
  /\ ~Active(p) /\ calls < MaxCalls
  /\ calls' = calls + 1
  /\ op' = [op EXCEPT ![p] = [Idle EXCEPT !.do = "rejected"]]
  /\ UNCHANGED <<writable, store, late, astray, lost, torn>>

\* The call has made the access it was at.
Advance(p, got, returned) ==
  op' = [op EXCEPT ![p] = IF op[p].at = op[p].len
                          THEN [op[p] EXCEPT !.do = returned, !.got = got]
                          ELSE [op[p] EXCEPT !.at = op[p].at + 1, !.got = got]]
\* It returns the error of that access.
Fail(p, returned) == op' = [op EXCEPT ![p] = [Idle EXCEPT !.do = returned, !.reg = op[p].reg]]

-----------------------------------------------------------------------------
(* Reading.                                                                  *)

ReadTag(p, reply) ==
  /\ op[p].do = "read"
  /\ \E s \in Answers(op[p]) : Exchange(s, reply)
  /\ UNCHANGED <<writable, store, calls, torn>>

Parses(p, reply) == ParsesAs(reply, DataType(op[p].reg, op[p].at))

ReadComponent(p) == \E reply \in Incoming(op[p]) :
  ReadTag(p, reply) /\ Parses(p, reply) /\ Advance(p, Append(op[p].got, Decoded(reply)), "readOK")

ReadFails(p) == \E reply \in Incoming(op[p]) :
  /\ ReadTag(p, reply) /\ ~Parses(p, reply)
  /\ op[p].at =< Required(op[p].reg)
  /\ Fail(p, "readFailed")

\* Mutant of SkipExtension: the value read before is appended once more
SkipRepeats(p) == \E reply \in Incoming(op[p]) :
  /\ ReadTag(p, reply) /\ ~Parses(p, reply)
  /\ op[p].at > Required(op[p].reg)
  /\ Advance(p, Append(op[p].got, op[p].got[Len(op[p].got)]), "readOK")

\* The error of an extension axis is ignored, and its value left out.
SkipExtension(p) == \E reply \in Incoming(op[p]) :
  /\ ReadTag(p, reply) /\ ~Parses(p, reply)
  /\ op[p].at > Required(op[p].reg)
  /\ Advance(p, op[p].got, "readOK")

-----------------------------------------------------------------------------
(* Writing.                                                                  *)

Supported(p) == DataType(op[p].reg, op[p].at) \in writable

WriteTag(p, reply) ==
  /\ op[p].do = "write" /\ Supported(p)
  /\ \E s \in Answers(op[p]) :
       /\ Exchange(s, reply)
       /\ store' = IF s = <<Answer(op[p])>>
                   THEN [store EXCEPT ![op[p].reg][op[p].at] = op[p].id] ELSE store
  /\ UNCHANGED <<writable, calls, torn>>

WriteComponent(p) == \E reply \in Incoming(op[p]) :
  WriteTag(p, reply) /\ Accepts(reply) /\ Advance(p, <<>>, "wrote")

\* Mutant of WriteFails: the coordinates that follow are still written
WriteGoesOn(p) == \E reply \in Incoming(op[p]) :
  /\ WriteTag(p, reply) /\ ~Accepts(reply)
  /\ IF op[p].at < Config THEN Advance(p, <<>>, "wrote") ELSE Fail(p, "writeFailed")

\* Mutant of WriteFails: the errors of extension axes are ignored, as in a read
WriteSkips(p) == \E reply \in Incoming(op[p]) :
  /\ WriteTag(p, reply) /\ ~Accepts(reply)
  /\ IF op[p].at > Config THEN Advance(p, <<>>, "wrote") ELSE Fail(p, "writeFailed")

WriteFails(p) == \E reply \in Incoming(op[p]) :
  WriteTag(p, reply) /\ ~Accepts(reply) /\ Fail(p, "writeFailed")

\* WriteTag returns "unsupported data type" before it sends anything.
WriteUnsupported(p) ==
  /\ op[p].do = "write" /\ ~Supported(p)
  /\ Fail(p, "writeFailed")
  /\ UNCHANGED <<writable, store, late, calls, astray, lost, torn>>

-----------------------------------------------------------------------------
Next == \E p \in Callers :
  \/ \E r \in Registers :
       \/ ReadRegister(p, r)
       \/ \E e \in 0..(MaxExt + 1) : WriteRegister(p, r, e)
  \/ WrongType(p) \/ ReadComponent(p) \/ ReadFails(p) \/ SkipExtension(p)
  \/ WriteComponent(p) \/ WriteFails(p) \/ WriteUnsupported(p)

Spec == Init /\ [][Next]_vars

-----------------------------------------------------------------------------
(* Properties.                                                               *)

Decodings == [reg : Registers, comp : Components, val : 0..MaxCalls, bits : BOOLEAN]
Replies == [kind : DataTypes \cup {"written", "refused"}, reg : Registers,
            comp : Components, val : 0..MaxCalls]
Ops == [do : {"idle", "read", "write", "rejected", "readOK", "readFailed", "wrote", "writeFailed"},
        reg : Registers, at : Components, len : Components, id : 0..MaxCalls,
        got : Seq(Decodings), alone : BOOLEAN]

\* The variables have these types; a call never goes past the last component it is for,
\* whatever number of extensions the Position has.
TypeOK ==
  /\ writable \in Clients
  /\ store \in [Registers -> [Components -> 0..MaxCalls]]
  /\ late \in Seq(Replies) /\ Len(late) =< MaxLate
  /\ op \in [Callers -> Ops]
  /\ \A p \in Callers : op[p].at =< op[p].len /\ Len(op[p].got) =< op[p].len
  /\ calls \in 0..MaxCalls /\ torn \subseteq Registers
  /\ astray \in BOOLEAN /\ lost \in BOOLEAN

\* A write that fails half-way, or whose replies are late, leaves the first components of
\* the new position over the rest of the old one, and writes over it do the same: from X to
\* the last axis a register holds values that only get older.  No component is skipped, and
\* none is written after one that failed.  (Two calls that write the register at once, or
\* a reply taken for another's, break this.)
Layered ==
  ~astray => \A r \in Positions \ torn : \A c, d \in Components :
    c < d => store[r][c] >= store[r][d]

\* A write that returned no error, and met no other write to the register, has stored all
\* of its components: the error of any of them, an extension axis too, is reported.
WrittenIsStored ==
  ~astray => \A p \in Callers : op[p].do = "wrote" /\ op[p].alone =>
    \A c \in 1..op[p].len : store[op[p].reg][c] = op[p].id

\* A read that no write disturbed returns what the register holds: each coordinate and
\* Config in its field, and the extension axes in order.  Those are in their places when none
\* is missing; where an axis could not be read the later ones move down.
ReadIsSnapshot ==
  ~astray => \A p \in Callers : op[p].do = "readOK" /\ op[p].alone =>
    LET r == op[p].reg  got == op[p].got  IN
    /\ Len(got) >= Required(r)
    /\ \A i \in DOMAIN got : got[i].reg = r /\ got[i].val = store[r][got[i].comp]
    /\ \A i \in 1..Required(r) : got[i].comp = i
    /\ \A i, j \in DOMAIN got : i < j => got[i].comp < got[j].comp
    /\ r \in Positions /\ Len(got) = Config + Axes => \A i \in DOMAIN got : got[i].comp = i

\* Replies carry no mark of their request, so after a timeout every access may return the
\* value of another.  A lone goroutine still never gets a position whose coordinates are
\* shifted or of several registers: the six reads before the one that finds a Config found
\* the replies to the six requests before the request for that Config.  (Unless a reply
\* never came, or the Config is the value of a string register.)
ConfigAligns ==
  \A p \in Callers :
    /\ op[p].do = "readOK" /\ op[p].reg \in Positions
    /\ op[p].got[Config].reg \in Positions
    /\ ~lost /\ \A q \in Others(p) : op[q].do = "idle"
    => \A i \in 1..Config : op[p].got[i].comp = i /\ op[p].got[i].reg = op[p].got[1].reg

\* registers.go:234: "WritePositionRegister writes a Position to a position register (PR)", as
\* README.md:134-143 and examples/fanuc/main.go:182-202 use it.  Where the controller has the
\* axes, refuses nothing and loses nothing, such a write does not fail.
PositionIsWritten ==
  \A p \in Callers : op[p].reg \in Positions => op[p].do # "writeFailed"
=============================================================================
