------------------------- MODULE FanucRegisters_proofs -------------------------
(***************************************************************************)
(* Proofs about FanucRegisters: what a position holds after interrupted    *)
(* writes, what a read of it returns, and that replies read out of step    *)
(* do not make a position with its coordinates out of order.               *)
(***************************************************************************)
EXTENDS FanucRegisters, SequenceTheorems, TLAPS

Reads(p) == op[p].do \in {"read", "readOK"}

\* A call knows how far it is: what it has read is before the component it is at.
Progress == \A p \in Callers :
  /\ Reads(p) => op[p].len = ReadLength(op[p].reg)
  /\ op[p].do = "read" =>
       /\ Len(op[p].got) < op[p].at
       /\ op[p].at =< Required(op[p].reg) => Len(op[p].got) = op[p].at - 1
  /\ Reads(p) /\ (op[p].do = "readOK" \/ op[p].at > Required(op[p].reg)) =>
       Len(op[p].got) >= Required(op[p].reg)
  /\ op[p].do = "write" =>
       op[p].got = <<>> /\ op[p].len >= Required(op[p].reg) /\ op[p].id =< calls

\* alone and torn say what they are for.
AloneInv == \A p \in Callers :
  /\ (Reads(p) \/ op[p].do \in {"write", "wrote"}) /\ op[p].alone =>
       \A q \in Others(p) : ~Writes(q, op[p].reg)
  /\ op[p].do = "write" /\ op[p].reg \notin torn => op[p].alone

\* An only writer has the newest value, and has stored it up to where it is.
WriterInv ==
  /\ \A r \in Registers : \A c \in Components : store[r][c] =< calls
  /\ \A p \in Callers : op[p].do = "write" /\ op[p].alone =>
       /\ \A c \in Components : store[op[p].reg][c] =< op[p].id
       /\ ~astray => \A c \in Components : c < op[p].at => store[op[p].reg][c] = op[p].id

\* What a call whose replies are its own has read so far.
ReaderInv == ~astray => \A p \in Callers : Reads(p) =>
  LET got == op[p].got  r == op[p].reg  IN
  /\ \A i \in DOMAIN got :
       /\ got[i].reg = r
       /\ Exists(r, got[i].comp)
       /\ got[i].comp < op[p].at \/ op[p].do = "readOK"
       /\ op[p].alone => got[i].val = store[r][got[i].comp]
       /\ i =< Required(r) => got[i].comp = i
  /\ \A i, j \in DOMAIN got : i =< j => got[j].comp - got[i].comp >= j - i

-----------------------------------------------------------------------------
(* Replies of a lone goroutine.                                              *)

Kinded == \A i \in DOMAIN late :
  late[i].kind \in DataTypes => late[i].kind = DataType(late[i].reg, late[i].comp)

Lone(p) == ~lost /\ \A q \in Others(p) : op[q].do = "idle"

\* p is reading a position, and has not read its Config.
Collects(p) == op[p].do = "read" /\ op[p].reg \in Positions /\ op[p].at =< Config

\* The replies p has taken for the position it reads, and those it has yet to meet.
Stream(p) == (IF Collects(p) THEN op[p].got ELSE <<>>) \o late

\* Before the reply of a Config come those of the components before it.
Chained(f) == \A i, j \in DOMAIN f :
  f[j].comp = Config /\ f[j].reg \in Positions /\ i < j /\ j - i < Config =>
    f[i].reg = f[j].reg /\ f[i].comp = Config - (j - i)

\* The last replies of f are those of the accesses that o has made.
Ends(f, o) == \A i \in DOMAIN f : Len(f) - i < o.at - 1 =>
  f[i].reg = o.reg /\ f[i].comp = o.at - 1 - (Len(f) - i)

Aligned(got) == got[Config].reg \in Positions =>
  \A i \in 1..Config : got[i].comp = i /\ got[i].reg = got[1].reg

StreamInv == \A p \in Callers : Lone(p) =>
  /\ Chained(Stream(p))
  /\ Active(p) /\ op[p].reg \in Positions /\ op[p].at =< Config => Ends(Stream(p), op[p])
  /\ Reads(p) /\ op[p].reg \in Positions /\ ~Collects(p) => Aligned(op[p].got)

IInv ==
  /\ TypeOK /\ Progress /\ AloneInv
  /\ WriterInv /\ Layered /\ WrittenIsStored
  /\ ReaderInv
  /\ Kinded /\ StreamInv

USE RegistersAssumption

-----------------------------------------------------------------------------
(* Operators of the model.                                                   *)

LEMMA Lengths ==
  /\ NumReals \in Nat /\ MaxExt \in Nat /\ Axes \in Nat /\ MaxCalls \in Nat /\ MaxLate \in Nat
  /\ Config \in Nat /\ Config >= 2 /\ Axes =< MaxExt
  /\ Components = 1..(Config + MaxExt) /\ 1 \in Components
  /\ \A r : /\ Required(r) \in 1..Config /\ ReadLength(r) \in Components
            /\ Required(r) =< ReadLength(r)
            /\ r \in Positions => Required(r) = Config
            /\ \A e \in Nat : /\ WriteLength(r, e) \in Components /\ Required(r) =< WriteLength(r, e)
                              /\ WriteLength(r, e) \in Nat /\ WriteLength(r, e) >= 1
  BY DEF Config, Components, Required, ReadLength, WriteLength

LEMMA DataTypeIn ==
  ASSUME NEW r \in Registers, NEW c
  PROVE  /\ DataType(r, c) \in DataTypes
         /\ r \in Positions => (DataType(r, c) = "STRING" <=> c = Config)
  BY DEF DataType, DataTypes, Registers

LEMMA IdleType == Idle \in Ops /\ Idle.do = "idle" /\ Idle.at = 1 /\ Idle.len = 1
<1>1. (CHOOSE r \in Registers : TRUE) \in Registers
  OBVIOUS
<1>2. <<>> \in Seq(Decodings)
  OBVIOUS
<1>3. 0 \in 0..MaxCalls /\ 1 \in Components
  BY Lengths
<1> QED BY <1>1, <1>2, <1>3 DEF Idle, Ops

LEMMA OpType ==
  ASSUME TypeOK, NEW p \in Callers
  PROVE  /\ op[p] \in Ops /\ op[p].reg \in Registers /\ op[p].got \in Seq(Decodings)
         /\ op[p].at \in Components /\ op[p].len \in Components /\ op[p].at =< op[p].len
         /\ op[p].id \in 0..MaxCalls /\ op[p].alone \in BOOLEAN
         /\ op[p].at \in Nat /\ op[p].len \in Nat
<1>1. op[p] \in Ops /\ op[p].at =< op[p].len
  BY DEF TypeOK
<1> QED BY <1>1, Lengths DEF Ops

LEMMA AnswerType ==
  ASSUME TypeOK, NEW p \in Callers, NEW s \in Answers(op[p])
  PROVE  /\ Answer(op[p]) \in Replies /\ Refusal(op[p]) \in Replies /\ s \in Seq(Replies) /\ Len(s) =< 1
         /\ s = <<>> \/ s = <<Answer(op[p])>> \/ s = <<Refusal(op[p])>>
<1> DEFINE o == op[p]
<1>1. o.reg \in Registers /\ o.at \in Components
  BY OpType
<1>2. store[o.reg][o.at] \in 0..MaxCalls
  BY <1>1 DEF TypeOK
<1>3. DataType(o.reg, o.at) \in DataTypes
  BY <1>1, DataTypeIn
<1>4. Answer(o) \in Replies
  <2>1. CASE o.do = "read"
    BY <2>1, <1>1, <1>2, <1>3 DEF Answer, Replies
  <2>2. CASE o.do # "read"
    BY <2>2, <1>1, Lengths DEF Answer, Replies
  <2> QED BY <2>1, <2>2
<1>5. Refusal(o) \in Replies
  BY <1>1, Lengths DEF Refusal, Replies
<1>6. s = <<>> \/ s = <<Answer(o)>> \/ s = <<Refusal(o)>>
  BY DEF Answers
<1>7. s \in Seq(Replies) /\ Len(s) =< 1
  <2>1. ASSUME NEW x \in Replies PROVE <<x>> \in Seq(Replies) /\ Len(<<x>>) = 1
    OBVIOUS
  <2>2. <<>> \in Seq(Replies) /\ Len(<<>>) = 0
    OBVIOUS
  <2>3. CASE s = <<>>
    BY <2>2, <2>3
  <2>4. CASE s = <<Answer(o)>>
    BY <2>1, <2>4, <1>4
  <2>5. CASE s = <<Refusal(o)>>
    BY <2>1, <2>5, <1>5
  <2> QED BY <2>3, <2>4, <2>5, <1>6
<1> QED BY <1>4, <1>5, <1>6, <1>7

\* What an access finds: the first reply of the stream, or none.
LEMMA ExchangeShape ==
  ASSUME TypeOK, NEW p \in Callers, NEW s \in Answers(op[p]), NEW reply, Exchange(s, reply)
  PROVE  /\ late \o s \in Seq(Replies) /\ late' \in Seq(Replies) /\ Len(late') =< MaxLate
         /\ \/ /\ late \o s # <<>> /\ reply \in Replies
               /\ reply = Head(late \o s) /\ late' = Tail(late \o s)
            \/ reply = NoReply /\ late' = late \o s
         /\ astray' \in BOOLEAN /\ lost' \in BOOLEAN
<1>1. late \in Seq(Replies) /\ Len(late) =< MaxLate
  BY DEF TypeOK
<1>2. s \in Seq(Replies) /\ Len(s) =< 1
  BY AnswerType
<1>3. late \o s \in Seq(Replies) /\ Len(late \o s) = Len(late) + Len(s)
  BY <1>1, <1>2
<1>4. astray' \in BOOLEAN /\ lost' \in BOOLEAN
  BY DEF Exchange, TypeOK
<1>5. CASE late \o s # <<>> /\ reply = Head(late \o s) /\ late' = Tail(late \o s)
  <2>1. Head(late \o s) \in Replies /\ Tail(late \o s) \in Seq(Replies)
        /\ Len(Tail(late \o s)) = Len(late \o s) - 1
    BY <1>3, <1>5, HeadTailProperties
  <2>2. Len(Tail(late \o s)) =< MaxLate
    BY <2>1, <1>1, <1>2, <1>3, Lengths
  <2> QED BY <2>1, <2>2, <1>3, <1>4, <1>5
<1>6. CASE Len(late \o s) =< MaxLate /\ reply = NoReply /\ late' = late \o s
  BY <1>3, <1>4, <1>6
<1> QED BY <1>5, <1>6 DEF Exchange

\* No reply is neither a value nor an acknowledgement.
LEMMA Taken ==
  ASSUME NEW reply, Accepts(reply)
  PROVE  reply # NoReply
  BY DEF Accepts, NoReply

LEMMA ParsedIsTaken ==
  ASSUME TypeOK, NEW p \in Callers, NEW reply, Parses(p, reply)
  PROVE  Accepts(reply) /\ reply.kind \in DataTypes /\ reply.kind = DataType(op[p].reg, op[p].at)
<1>1. DataType(op[p].reg, op[p].at) \in DataTypes
  BY OpType, DataTypeIn
<1> QED BY <1>1 DEF Parses, ParsesAs, Accepts, DataTypes

\* As long as no access took another's reply, one that is accepted is the access's own.
LEMMA OwnReply ==
  ASSUME TypeOK, NEW p \in Callers, NEW s \in Answers(op[p]), NEW reply,
         Exchange(s, reply), Accepts(reply), ~astray'
  PROVE  /\ reply = Answer(op[p]) /\ s = <<Answer(op[p])>> /\ late = <<>>
         /\ Exists(op[p].reg, op[p].at)
<1>1. reply # NoReply
  BY Taken
<1>2. late = <<>>
  BY <1>1 DEF Exchange
<1>3. s \in Seq(Replies) /\ (s = <<>> \/ s = <<Answer(op[p])>> \/ s = <<Refusal(op[p])>>)
  BY AnswerType
<1>4. late \o s = s
  BY <1>2, <1>3
<1>5. s # <<>> /\ reply = Head(s)
  BY <1>1, <1>4 DEF Exchange
<1>6. s # <<Refusal(op[p])>>
  <2>1. Refusal(op[p]).kind = "refused"
    BY DEF Refusal
  <2> QED BY <2>1, <1>5 DEF Accepts
<1>7. s = <<Answer(op[p])>>
  BY <1>3, <1>5, <1>6
<1> QED BY <1>2, <1>5, <1>7 DEF Answers

-----------------------------------------------------------------------------
(* Steps.                                                                    *)

\* The access of a read or of a write that the controller answers s and that finds reply.
ReadsWith(p, s, reply) ==
  /\ op[p].do = "read" /\ s \in Answers(op[p]) /\ Exchange(s, reply)
  /\ UNCHANGED <<writable, store, calls, torn>>
  /\ \/ Parses(p, reply) /\ Advance(p, Append(op[p].got, Decoded(reply)), "readOK")
     \/ ~Parses(p, reply) /\ op[p].at =< Required(op[p].reg) /\ Fail(p, "readFailed")
     \/ ~Parses(p, reply) /\ op[p].at > Required(op[p].reg) /\ Advance(p, op[p].got, "readOK")
WritesWith(p, s, reply) ==
  /\ op[p].do = "write" /\ Supported(p) /\ s \in Answers(op[p]) /\ Exchange(s, reply)
  /\ store' = IF s = <<Answer(op[p])>>
              THEN [store EXCEPT ![op[p].reg][op[p].at] = op[p].id] ELSE store
  /\ UNCHANGED <<writable, calls, torn>>
  /\ \/ Accepts(reply) /\ Advance(p, <<>>, "wrote")
     \/ ~Accepts(reply) /\ Fail(p, "writeFailed")

\* What p can do next.
Step(p) ==
  \/ \E r \in Registers : ReadRegister(p, r)
  \/ \E r \in Registers, e \in 0..(MaxExt + 1) : WriteRegister(p, r, e)
  \/ WrongType(p)
  \/ \E s, reply : ReadsWith(p, s, reply)
  \/ \E s, reply : WritesWith(p, s, reply)
  \/ WriteUnsupported(p)

LEMMA NextCases ==
  ASSUME [Next]_vars
  PROVE  (\E p \in Callers : Step(p)) \/ UNCHANGED vars
<1>1. ASSUME NEW p \in Callers, ReadComponent(p) \/ ReadFails(p) \/ SkipExtension(p)
      PROVE  Step(p)
  <2>1. CASE ReadComponent(p)
    BY <2>1 DEF ReadComponent, ReadTag, ReadsWith, Step
  <2>2. CASE ReadFails(p)
    BY <2>2 DEF ReadFails, ReadTag, ReadsWith, Step
  <2>3. CASE SkipExtension(p)
    BY <2>3 DEF SkipExtension, ReadTag, ReadsWith, Step
  <2> QED BY <1>1, <2>1, <2>2, <2>3
<1>2. ASSUME NEW p \in Callers, WriteComponent(p) \/ WriteFails(p)
      PROVE  Step(p)
  <2>1. CASE WriteComponent(p)
    BY <2>1 DEF WriteComponent, WriteTag, WritesWith, Step
  <2>2. CASE WriteFails(p)
    BY <2>2 DEF WriteFails, WriteTag, WritesWith, Step
  <2> QED BY <1>2, <2>1, <2>2
<1> QED BY <1>1, <1>2 DEF Next, Step

\* The call of p goes on to the next component, or returns after the last.
LEMMA AdvanceOp ==
  ASSUME TypeOK, NEW p \in Callers, NEW got \in Seq(Decodings),
         NEW returned \in {"readOK", "wrote"}, Advance(p, got, returned)
  PROVE  /\ op' \in [Callers -> Ops] /\ \A q \in Others(p) : op'[q] = op[q]
         /\ op'[p].got = got
         /\ op'[p].reg = op[p].reg /\ op'[p].len = op[p].len
         /\ op'[p].id = op[p].id /\ op'[p].alone = op[p].alone
         /\ \/ op[p].at = op[p].len /\ op'[p].at = op[p].at /\ op'[p].do = returned
            \/ op[p].at < op[p].len /\ op'[p].at = op[p].at + 1 /\ op'[p].do = op[p].do
<1>0. op \in [Callers -> Ops] /\ op[p] \in Ops /\ op[p].at =< op[p].len
  BY OpType DEF TypeOK
<1>1. op[p].at \in Nat /\ op[p].len \in Nat /\ op[p].len \in Components /\ op[p].at \in Components
  BY OpType
<1>2. CASE op[p].at = op[p].len
  <2> DEFINE n == [op[p] EXCEPT !.do = returned, !.got = got]
  <2>1. n \in Ops
    BY <1>0 DEF Ops
  <2>2. op' = [op EXCEPT ![p] = n]
    BY <1>2 DEF Advance
  <2> QED BY <1>0, <1>2, <2>1, <2>2 DEF Ops, Others
<1>3. CASE op[p].at # op[p].len
  <2> DEFINE n == [op[p] EXCEPT !.at = op[p].at + 1, !.got = got]
  <2>1. op[p].at + 1 \in Components /\ op[p].at < op[p].len
    BY <1>0, <1>1, <1>3, Lengths
  <2>2. n \in Ops
    BY <1>0, <2>1 DEF Ops
  <2>3. op' = [op EXCEPT ![p] = n]
    BY <1>3 DEF Advance
  <2> QED BY <1>0, <2>1, <2>2, <2>3 DEF Ops, Others
<1> QED BY <1>2, <1>3

LEMMA FailOp ==
  ASSUME TypeOK, NEW p \in Callers, NEW returned \in {"readFailed", "writeFailed"}, Fail(p, returned)
  PROVE  /\ op' \in [Callers -> Ops] /\ \A q \in Others(p) : op'[q] = op[q]
         /\ op'[p].do = returned /\ op'[p].reg = op[p].reg /\ op'[p].got = <<>>
         /\ op'[p].at =< op'[p].len
<1> DEFINE n == [Idle EXCEPT !.do = returned, !.reg = op[p].reg]
<1>1. n \in Ops
  BY IdleType, OpType DEF Ops
<1>2. n.got = <<>> /\ n.do = returned /\ n.reg = op[p].reg /\ n.at =< n.len
  BY DEF Idle
<1>3. op' = [op EXCEPT ![p] = n]
  BY DEF Fail
<1> QED BY <1>1, <1>2, <1>3 DEF Others, TypeOK

LEMMA RejectedOp ==
  ASSUME TypeOK, NEW p \in Callers, WrongType(p)
  PROVE  /\ op' \in [Callers -> Ops] /\ \A q \in Others(p) : op'[q] = op[q]
         /\ op'[p].do = "rejected" /\ op'[p].got = <<>> /\ op'[p].at =< op'[p].len
<1> DEFINE n == [Idle EXCEPT !.do = "rejected"]
<1>1. n \in Ops
  BY IdleType DEF Ops
<1>2. n.got = <<>> /\ n.do = "rejected" /\ n.at =< n.len
  BY DEF Idle
<1>3. op' = [op EXCEPT ![p] = n]
  BY DEF WrongType
<1> QED BY <1>1, <1>2, <1>3 DEF Others, TypeOK

LEMMA BeginType ==
  ASSUME TypeOK, calls < MaxCalls, NEW p \in Callers, NEW r \in Registers,
         NEW do \in {"read", "write"}, NEW len \in Components
  PROVE  /\ Begin(p, do, r, len) \in Ops /\ calls + 1 \in 0..MaxCalls
         /\ Begin(p, do, r, len).at = 1 /\ Begin(p, do, r, len).at =< len
<1>1. calls + 1 \in 0..MaxCalls /\ 1 =< len /\ 1 \in Components /\ <<>> \in Seq(Decodings)
  BY Lengths DEF TypeOK
<1>2. (\A q \in Others(p) : ~Writes(q, r)) \in BOOLEAN
  OBVIOUS
<1> QED BY <1>1, <1>2 DEF Begin, Ops

LEMMA ReadRegisterOp ==
  ASSUME TypeOK, NEW p \in Callers, NEW r \in Registers, ReadRegister(p, r)
  PROVE  /\ op' \in [Callers -> Ops] /\ \A q \in Others(p) : op'[q] = op[q]
         /\ op'[p].do = "read" /\ op'[p].reg = r /\ op'[p].at = 1 /\ op'[p].len = ReadLength(r)
         /\ op'[p].got = <<>> /\ (op'[p].alone <=> \A q \in Others(p) : ~Writes(q, r))
         /\ calls' = calls + 1 /\ calls + 1 \in 0..MaxCalls
<1> DEFINE n == Begin(p, "read", r, ReadLength(r))
<1>1. n \in Ops /\ calls + 1 \in 0..MaxCalls
  BY BeginType, Lengths DEF ReadRegister
<1>2. /\ n.do = "read" /\ n.reg = r /\ n.at = 1 /\ n.len = ReadLength(r)
      /\ n.got = <<>> /\ (n.alone <=> \A q \in Others(p) : ~Writes(q, r))
  BY DEF Begin
<1>3. op' = [op EXCEPT ![p] = n]
  BY DEF ReadRegister
<1> HIDE DEF n
<1> QED BY <1>1, <1>2, <1>3 DEF Others, TypeOK, ReadRegister

LEMMA WriteRegisterOp ==
  ASSUME TypeOK, NEW p \in Callers, NEW r \in Registers, NEW e \in 0..(MaxExt + 1),
         WriteRegister(p, r, e)
  PROVE  /\ op' \in [Callers -> Ops]
         /\ \A q \in Others(p) :
              /\ op'[q] = [op[q] EXCEPT !.alone = op'[q].alone]
              /\ op'[q].alone => op[q].alone /\ op[q].reg # r
              /\ op[q].alone /\ op[q].reg # r => op'[q].alone
         /\ op'[p].do = "write" /\ op'[p].reg = r /\ op'[p].at = 1 /\ op'[p].len = WriteLength(r, e)
         /\ op'[p].id = calls + 1
         /\ op'[p].got = <<>> /\ (op'[p].alone <=> \A q \in Others(p) : ~Writes(q, r))
         /\ calls' = calls + 1 /\ calls + 1 \in 0..MaxCalls
<1> DEFINE n == Begin(p, "write", r, WriteLength(r, e))
           m(q) == [op[q] EXCEPT !.alone = @ /\ op[q].reg # r]
<1>1. n \in Ops /\ calls + 1 \in 0..MaxCalls
  BY BeginType, Lengths DEF WriteRegister
<1>2. /\ n.do = "write" /\ n.reg = r /\ n.at = 1 /\ n.len = WriteLength(r, e) /\ n.id = calls + 1
      /\ n.got = <<>> /\ (n.alone <=> \A q \in Others(p) : ~Writes(q, r))
  BY DEF Begin
<1>3. ASSUME NEW q \in Callers
      PROVE  /\ m(q) \in Ops /\ m(q) = [op[q] EXCEPT !.alone = m(q).alone]
             /\ m(q).alone => op[q].alone /\ op[q].reg # r
             /\ op[q].alone /\ op[q].reg # r => m(q).alone
  <2>1. op[q] \in Ops
    BY OpType
  <2> QED BY <2>1 DEF Ops
<1>4. op' = [q \in Callers |-> IF q = p THEN n ELSE m(q)]
  BY DEF WriteRegister
<1> HIDE DEF n, m
<1>5. op' \in [Callers -> Ops] /\ op'[p] = n
  BY <1>1, <1>3, <1>4
<1>6. \A q \in Others(p) : op'[q] = m(q)
  BY <1>4 DEF Others
<1> QED BY <1>1, <1>2, <1>3, <1>5, <1>6 DEF Others, WriteRegister

-----------------------------------------------------------------------------
(* Types and progress.                                                       *)

\* A read has one value more, or ends, or leaves an extension out.
LEMMA ReadsOp ==
  ASSUME TypeOK, NEW p \in Callers, NEW s, NEW reply, ReadsWith(p, s, reply)
  PROVE  /\ op' \in [Callers -> Ops] /\ \A q \in Others(p) : op'[q] = op[q]
         /\ op'[p].reg = op[p].reg
         /\ \/ /\ Parses(p, reply) /\ Decoded(reply) \in Decodings /\ op'[p].do # "readFailed"
               /\ op'[p].got = Append(op[p].got, Decoded(reply))
            \/ /\ ~Parses(p, reply) /\ op[p].at > Required(op[p].reg)
               /\ op'[p].got = op[p].got /\ op'[p].do # "readFailed"
            \/ /\ ~Parses(p, reply) /\ op[p].at =< Required(op[p].reg)
               /\ op'[p].do = "readFailed" /\ op'[p].got = <<>> /\ op'[p].at =< op'[p].len
         /\ op'[p].do # "readFailed" =>
              /\ op'[p].len = op[p].len /\ op'[p].alone = op[p].alone
              /\ \/ op[p].at = op[p].len /\ op'[p].at = op[p].at /\ op'[p].do = "readOK"
                 \/ op[p].at < op[p].len /\ op'[p].at = op[p].at + 1 /\ op'[p].do = "read"
<1>1. op[p].got \in Seq(Decodings) /\ op[p].do = "read" /\ s \in Answers(op[p]) /\ Exchange(s, reply)
  BY OpType DEF ReadsWith
<1>2. CASE Parses(p, reply) /\ Advance(p, Append(op[p].got, Decoded(reply)), "readOK")
  <2>1. reply \in Replies
    BY <1>1, <1>2, ExchangeShape, ParsedIsTaken, Taken
  <2>2. Decoded(reply) \in Decodings
    BY <2>1 DEF Decoded, Decodings, Replies
  <2>3. Append(op[p].got, Decoded(reply)) \in Seq(Decodings)
    BY <2>2, <1>1, AppendProperties
  <2> QED BY <1>1, <1>2, <2>2, <2>3, AdvanceOp
<1>3. CASE ~Parses(p, reply) /\ op[p].at =< Required(op[p].reg) /\ Fail(p, "readFailed")
  BY <1>3, FailOp
<1>4. CASE ~Parses(p, reply) /\ op[p].at > Required(op[p].reg) /\ Advance(p, op[p].got, "readOK")
  BY <1>1, <1>4, AdvanceOp
<1> QED BY <1>2, <1>3, <1>4 DEF ReadsWith

LEMMA WritesOp ==
  ASSUME TypeOK, NEW p \in Callers, NEW s, NEW reply, WritesWith(p, s, reply)
  PROVE  /\ op' \in [Callers -> Ops] /\ \A q \in Others(p) : op'[q] = op[q]
         /\ op'[p].reg = op[p].reg /\ op'[p].got = <<>>
         /\ \/ /\ Accepts(reply)
               /\ op'[p].len = op[p].len /\ op'[p].alone = op[p].alone /\ op'[p].id = op[p].id
               /\ \/ op[p].at = op[p].len /\ op'[p].at = op[p].at /\ op'[p].do = "wrote"
                  \/ op[p].at < op[p].len /\ op'[p].at = op[p].at + 1 /\ op'[p].do = "write"
            \/ ~Accepts(reply) /\ op'[p].do = "writeFailed" /\ op'[p].at =< op'[p].len
<1>1. <<>> \in Seq(Decodings) /\ op[p].do = "write"
  BY DEF WritesWith
<1>2. CASE Accepts(reply) /\ Advance(p, <<>>, "wrote")
  BY <1>1, <1>2, AdvanceOp
<1>3. CASE ~Accepts(reply) /\ Fail(p, "writeFailed")
  BY <1>3, FailOp
<1> QED BY <1>2, <1>3 DEF WritesWith

\* A write changes one component, if the controller serves it.
LEMMA StoreStep ==
  ASSUME TypeOK, NEW p \in Callers, NEW s, NEW reply, WritesWith(p, s, reply)
  PROVE  /\ store' \in [Registers -> [Components -> 0..MaxCalls]]
         /\ \A r \in Registers, c \in Components :
              store'[r][c] = IF s = <<Answer(op[p])>> /\ r = op[p].reg /\ c = op[p].at
                             THEN op[p].id ELSE store[r][c]
<1>1. op[p].reg \in Registers /\ op[p].at \in Components /\ op[p].id \in 0..MaxCalls
  BY OpType
<1>2. store \in [Registers -> [Components -> 0..MaxCalls]]
  BY DEF TypeOK
<1>3. CASE s = <<Answer(op[p])>>
  <2>1. store' = [store EXCEPT ![op[p].reg][op[p].at] = op[p].id]
    BY <1>3 DEF WritesWith
  <2> QED BY <1>1, <1>2, <1>3, <2>1
<1>4. CASE s # <<Answer(op[p])>>
  BY <1>2, <1>4 DEF WritesWith
<1> QED BY <1>3, <1>4

LEMMA TypeStep ==
  ASSUME TypeOK, Progress, NEW p \in Callers, Step(p)
  PROVE  TypeOK'
<1>0. \A q \in Callers : Len(op[q].got) \in Nat /\ op[q].at =< op[q].len /\ Len(op[q].got) =< op[q].len
                         /\ (q # p => q \in Others(p))
  BY OpType, LenProperties DEF TypeOK, Others
<1>1. CASE \E r \in Registers : ReadRegister(p, r)
  <2>1. PICK r \in Registers : ReadRegister(p, r)
    BY <1>1
  <2>2. op'[p].at =< op'[p].len /\ Len(op'[p].got) =< op'[p].len
    <3>1. op'[p].at = 1 /\ op'[p].len = ReadLength(r) /\ op'[p].got = <<>>
      BY <2>1, ReadRegisterOp
    <3>2. ReadLength(r) \in Nat /\ ReadLength(r) >= 1
      BY Lengths
    <3> QED BY <3>1, <3>2
  <2>3. op' \in [Callers -> Ops] /\ \A q \in Others(p) : op'[q] = op[q]
    BY <2>1, ReadRegisterOp
  <2>4. calls' \in 0..MaxCalls /\ UNCHANGED <<writable, store, late, astray, lost, torn>>
    BY <2>1, ReadRegisterOp DEF ReadRegister
  <2> QED BY <1>0, <2>2, <2>3, <2>4 DEF TypeOK
<1>2. CASE \E r \in Registers, e \in 0..(MaxExt + 1) : WriteRegister(p, r, e)
  <2>1. PICK r \in Registers, e \in 0..(MaxExt + 1) : WriteRegister(p, r, e)
    BY <1>2
  <2>2. op'[p].at =< op'[p].len /\ Len(op'[p].got) =< op'[p].len
    <3>1. op'[p].at = 1 /\ op'[p].len = WriteLength(r, e) /\ op'[p].got = <<>>
      BY <2>1, WriteRegisterOp
    <3>2. WriteLength(r, e) \in Nat /\ WriteLength(r, e) >= 1
      <4>1. e \in Nat
        OBVIOUS
      <4> QED BY <4>1, Lengths
    <3> QED BY <3>1, <3>2
  <2>3. op' \in [Callers -> Ops]
    BY <2>1, WriteRegisterOp
  <2>4. \A q \in Others(p) : op'[q].at = op[q].at /\ op'[q].len = op[q].len /\ op'[q].got = op[q].got
    <3> SUFFICES ASSUME NEW q \in Others(p)
                 PROVE  op'[q].at = op[q].at /\ op'[q].len = op[q].len /\ op'[q].got = op[q].got
      OBVIOUS
    <3>1. op'[q] = [op[q] EXCEPT !.alone = op'[q].alone] /\ op[q] \in Ops
      BY <2>1, WriteRegisterOp, OpType DEF Others
    <3> QED BY <3>1 DEF Ops
  <2>5. calls' \in 0..MaxCalls /\ UNCHANGED <<writable, store, late, astray, lost>>
    BY <2>1, WriteRegisterOp DEF WriteRegister
  <2>6. torn' \subseteq Registers
    BY <2>1 DEF WriteRegister, TypeOK
  <2> QED BY <1>0, <2>2, <2>3, <2>4, <2>5, <2>6 DEF TypeOK
<1>3. CASE WrongType(p)
  <2>1. Len(op'[p].got) = 0 /\ op'[p].len \in Nat
    <3>1. op'[p] \in Ops /\ op'[p].got = <<>>
      BY <1>3, RejectedOp
    <3> QED BY <3>1, Lengths DEF Ops
  <2>3. \A q \in Callers : op'[q].at =< op'[q].len /\ Len(op'[q].got) =< op'[q].len
    BY <1>0, <1>3, <2>1, RejectedOp
  <2>2. calls' \in 0..MaxCalls
    BY <1>3 DEF WrongType, TypeOK
  <2> QED BY <1>3, <2>2, <2>3, RejectedOp DEF WrongType, TypeOK
<1>4. CASE \E s, reply : ReadsWith(p, s, reply)
  <2>1. PICK s, reply : ReadsWith(p, s, reply)
    BY <1>4
  <2>2. op[p].do = "read" /\ Len(op[p].got) < op[p].at /\ op[p].got \in Seq(Decodings)
    BY <2>1, OpType DEF ReadsWith, Progress
  <2>3. op' \in [Callers -> Ops] /\ (\A q \in Others(p) : op'[q] = op[q]) /\ op'[p] \in Ops
    BY <2>1, ReadsOp
  <2>4. op'[p].at =< op'[p].len /\ Len(op'[p].got) =< op'[p].len
    <3>1. op[p].at \in Nat /\ op[p].len \in Nat /\ op'[p].len \in Nat /\ op[p].at =< op[p].len
      BY <2>3, OpType, Lengths DEF Ops
    <3>2. Len(op'[p].got) = Len(op[p].got) \/ Len(op'[p].got) = Len(op[p].got) + 1 \/ op'[p].do = "readFailed"
      <4>1. ASSUME NEW d \in Decodings PROVE Len(Append(op[p].got, d)) = Len(op[p].got) + 1
        BY <2>2, AppendProperties
      <4>2. \/ op'[p].got = op[p].got \/ op'[p].do = "readFailed"
            \/ Decoded(reply) \in Decodings /\ op'[p].got = Append(op[p].got, Decoded(reply))
        BY <2>1, ReadsOp
      <4> QED BY <4>1, <4>2
    <3>3. op'[p].do = "readFailed" => op'[p].got = <<>> /\ op'[p].at =< op'[p].len
      BY <2>1, ReadsOp
    <3>4. Len(<<>>) = 0
      OBVIOUS
    <3>5. op'[p].do # "readFailed" =>
            op'[p].len = op[p].len /\ op[p].at =< op'[p].at /\ op'[p].at =< op[p].len
      <4>1. op'[p].do # "readFailed" =>
              /\ op'[p].len = op[p].len
              /\ \/ op'[p].at = op[p].at
                 \/ op[p].at < op[p].len /\ op'[p].at = op[p].at + 1
        BY <2>1, ReadsOp
      <4> QED BY <3>1, <4>1
    <3>6. Len(op[p].got) \in Nat
      BY <1>0
    <3> QED BY <2>2, <3>1, <3>2, <3>3, <3>4, <3>5, <3>6
  <2>5. late' \in Seq(Replies) /\ Len(late') =< MaxLate /\ astray' \in BOOLEAN /\ lost' \in BOOLEAN
    BY <2>1, ExchangeShape DEF ReadsWith
  <2>6. UNCHANGED <<writable, store, calls, torn>>
    BY <2>1 DEF ReadsWith
  <2> QED BY <1>0, <2>3, <2>4, <2>5, <2>6 DEF TypeOK
<1>5. CASE \E s, reply : WritesWith(p, s, reply)
  <2>1. PICK s, reply : WritesWith(p, s, reply)
    BY <1>5
  <2>2. op' \in [Callers -> Ops] /\ (\A q \in Others(p) : op'[q] = op[q]) /\ op'[p] \in Ops
    BY <2>1, WritesOp
  <2>3. op'[p].at =< op'[p].len /\ Len(op'[p].got) =< op'[p].len
    <3>1. op[p].at \in Nat /\ op[p].len \in Nat /\ op'[p].len \in Nat
      BY <2>2, OpType, Lengths DEF Ops
    <3>2. Len(op'[p].got) = 0
      BY <2>1, WritesOp
    <3> QED BY <1>0, <2>1, <3>1, <3>2, WritesOp
  <2>4. late' \in Seq(Replies) /\ Len(late') =< MaxLate /\ astray' \in BOOLEAN /\ lost' \in BOOLEAN
    BY <2>1, ExchangeShape DEF WritesWith
  <2>5. UNCHANGED <<writable, calls, torn>>
    BY <2>1 DEF WritesWith
  <2> QED BY <1>0, <2>1, <2>2, <2>3, <2>4, <2>5, StoreStep DEF TypeOK
<1>6. CASE WriteUnsupported(p)
  <2>1. Fail(p, "writeFailed")
    BY <1>6 DEF WriteUnsupported
  <2>2. Len(op'[p].got) = 0 /\ op'[p].len \in Nat
    <3>1. op'[p] \in Ops /\ op'[p].got = <<>>
      BY <2>1, FailOp
    <3> QED BY <3>1, Lengths DEF Ops
  <2>3. \A q \in Callers : op'[q].at =< op'[q].len /\ Len(op'[q].got) =< op'[q].len
    BY <1>0, <2>1, <2>2, FailOp
  <2> QED BY <1>6, <2>1, <2>3, FailOp DEF WriteUnsupported, TypeOK
<1> QED BY <1>1, <1>2, <1>3, <1>4, <1>5, <1>6 DEF Step

\* A step of p leaves the other calls as they are, but for what it makes of their being alone.
LEMMA OthersKeep ==
  ASSUME TypeOK, NEW p \in Callers, Step(p), NEW q \in Callers, q # p
  PROVE  /\ op'[q].do = op[q].do /\ op'[q].reg = op[q].reg /\ op'[q].at = op[q].at
         /\ op'[q].len = op[q].len /\ op'[q].id = op[q].id /\ op'[q].got = op[q].got
         /\ op'[q].alone => op[q].alone
         /\ (\A r \in Registers, e \in 0..(MaxExt + 1) : ~WriteRegister(p, r, e)) => op'[q] = op[q]
<1>0. q \in Others(p) /\ op[q] \in Ops
  BY OpType DEF Others
<1>1. CASE \E r \in Registers : ReadRegister(p, r)
  BY <1>0, <1>1, ReadRegisterOp
<1>2. CASE \E r \in Registers, e \in 0..(MaxExt + 1) : WriteRegister(p, r, e)
  <2>1. PICK r \in Registers, e \in 0..(MaxExt + 1) : WriteRegister(p, r, e)
    BY <1>2
  <2>2. op'[q] = [op[q] EXCEPT !.alone = op'[q].alone]
    BY <1>0, <2>1, WriteRegisterOp
  <2>3. op'[q].alone => op[q].alone
    BY <1>0, <2>1, WriteRegisterOp
  <2> QED BY <1>0, <1>2, <2>2, <2>3 DEF Ops
<1>3. CASE WrongType(p)
  BY <1>0, <1>3, RejectedOp
<1>4. CASE \E s, reply : ReadsWith(p, s, reply)
  BY <1>0, <1>4, ReadsOp
<1>5. CASE \E s, reply : WritesWith(p, s, reply)
  BY <1>0, <1>5, WritesOp
<1>6. CASE WriteUnsupported(p)
  BY <1>0, <1>6, FailOp DEF WriteUnsupported
<1> QED BY <1>1, <1>2, <1>3, <1>4, <1>5, <1>6 DEF Step

LEMMA CallsStep ==
  ASSUME TypeOK, NEW p \in Callers, Step(p)
  PROVE  calls' \in Nat /\ calls =< calls' /\ calls \in Nat
<1>1. calls' = calls \/ calls' = calls + 1
  BY DEF Step, ReadRegister, WriteRegister, WrongType, ReadsWith, WritesWith, WriteUnsupported
<1> QED BY <1>1 DEF TypeOK

\* What Progress says of one call.
ProgressOf(p) ==
  /\ Reads(p) => op[p].len = ReadLength(op[p].reg)
  /\ op[p].do = "read" =>
       /\ Len(op[p].got) < op[p].at
       /\ op[p].at =< Required(op[p].reg) => Len(op[p].got) = op[p].at - 1
  /\ Reads(p) /\ (op[p].do = "readOK" \/ op[p].at > Required(op[p].reg)) =>
       Len(op[p].got) >= Required(op[p].reg)
  /\ op[p].do = "write" =>
       op[p].got = <<>> /\ op[p].len >= Required(op[p].reg) /\ op[p].id =< calls

LEMMA ProgressStep ==
  ASSUME TypeOK, Progress, NEW p \in Callers, Step(p)
  PROVE  Progress'
<1>1. ASSUME NEW q \in Callers, q # p
      PROVE  ProgressOf(q)'
  <2>1. ProgressOf(q)
    BY DEF Progress, ProgressOf
  <2>2. op[q].do = "write" => op[q].id =< calls'
    BY <2>1, CallsStep, OpType DEF ProgressOf
  <2> QED BY <1>1, <2>1, <2>2, OthersKeep DEF ProgressOf, Reads
<1>2. ProgressOf(p)'
  <2>0. Len(<<>>) = 0
    OBVIOUS
  <2>1. CASE \E r \in Registers : ReadRegister(p, r)
    <3>1. PICK r \in Registers : ReadRegister(p, r)
      BY <2>1
    <3>2. Required(r) \in Nat /\ 1 =< Required(r)
      BY Lengths
    <3> QED BY <2>0, <3>1, <3>2, ReadRegisterOp DEF ProgressOf, Reads
  <2>2. CASE \E r \in Registers, e \in 0..(MaxExt + 1) : WriteRegister(p, r, e)
    <3>1. PICK r \in Registers, e \in 0..(MaxExt + 1) : WriteRegister(p, r, e)
      BY <2>2
    <3>2. e \in Nat
      OBVIOUS
    <3>3. Required(r) =< WriteLength(r, e)
      BY <3>2, Lengths
    <3> QED BY <3>1, <3>3, WriteRegisterOp DEF ProgressOf, Reads
  <2>3. CASE WrongType(p)
    BY <2>3, RejectedOp DEF ProgressOf, Reads
  <2>4. CASE \E s, reply : ReadsWith(p, s, reply)
    <3>1. PICK s, reply : ReadsWith(p, s, reply)
      BY <2>4
    <3> DEFINE r == op[p].reg
               n == Len(op[p].got)
               R == Required(r)
    <3>2. /\ op[p].do = "read" /\ op[p].len = ReadLength(r) /\ n < op[p].at
          /\ op[p].at =< R => n = op[p].at - 1
          /\ op[p].at > R => n >= R
      BY <3>1 DEF ReadsWith, Progress, Reads
    <3>3. /\ n \in Nat /\ R \in Nat /\ R =< op[p].len /\ op[p].at \in Nat /\ op[p].len \in Nat
          /\ op[p].got \in Seq(Decodings)
      <4>1. op[p].got \in Seq(Decodings) /\ op[p].at \in Nat /\ op[p].len \in Nat
        BY OpType
      <4>2. R \in Nat /\ R =< ReadLength(r)
        BY Lengths
      <4> QED BY <4>1, <4>2, <3>2, LenProperties
    <3>4. \/ op'[p].do = "readFailed"
          \/ op'[p].do # "readFailed" /\ Len(op'[p].got) = n + 1
          \/ op'[p].do # "readFailed" /\ Len(op'[p].got) = n /\ op[p].at > R
      <4>1. ASSUME NEW d \in Decodings PROVE Len(Append(op[p].got, d)) = n + 1
        BY <3>3, AppendProperties
      <4>2. \/ op'[p].do = "readFailed"
            \/ op'[p].do # "readFailed" /\ Decoded(reply) \in Decodings
               /\ op'[p].got = Append(op[p].got, Decoded(reply))
            \/ op'[p].do # "readFailed" /\ op'[p].got = op[p].got /\ op[p].at > R
        BY <3>1, ReadsOp
      <4> QED BY <4>1, <4>2
    <3>5. op'[p].do # "readFailed" =>
            /\ op'[p].len = op[p].len
            /\ \/ op[p].at = op[p].len /\ op'[p].at = op[p].at /\ op'[p].do = "readOK"
               \/ op[p].at < op[p].len /\ op'[p].at = op[p].at + 1 /\ op'[p].do = "read"
      BY <3>1, ReadsOp
    <3>6. op'[p].reg = r
      BY <3>1, ReadsOp
    <3> HIDE DEF n, R
    <3>7. CASE op'[p].do = "readFailed"
      BY <3>7 DEF ProgressOf, Reads
    <3>8. CASE op'[p].do # "readFailed"
      <4>1. op'[p].len = ReadLength(r)
        BY <3>2, <3>5, <3>8
      <4>2. op'[p].do = "read" => Len(op'[p].got) < op'[p].at /\ (op'[p].at =< R => Len(op'[p].got) = op'[p].at - 1)
        BY <3>2, <3>3, <3>4, <3>5, <3>8
      <4>3. op'[p].do = "readOK" \/ op'[p].at > R => Len(op'[p].got) >= R
        BY <3>2, <3>3, <3>4, <3>5, <3>8
      <4>4. op'[p].do # "write"
        BY <3>5, <3>8
      <4> QED BY <3>6, <4>1, <4>2, <4>3, <4>4 DEF ProgressOf, Reads, R
    <3> QED BY <3>7, <3>8
  <2>5. CASE \E s, reply : WritesWith(p, s, reply)
    <3>1. PICK s, reply : WritesWith(p, s, reply)
      BY <2>5
    <3>2. op[p].do = "write" /\ op[p].len >= Required(op[p].reg) /\ op[p].id =< calls /\ calls' = calls
      BY <3>1 DEF WritesWith, Progress
    <3> QED BY <3>1, <3>2, WritesOp DEF ProgressOf, Reads
  <2>6. CASE WriteUnsupported(p)
    BY <2>6, FailOp DEF WriteUnsupported, ProgressOf, Reads
  <2> QED BY <2>1, <2>2, <2>3, <2>4, <2>5, <2>6 DEF Step
<1>3. \A q \in Callers : ProgressOf(q)'
  BY <1>1, <1>2
<1> QED BY <1>3 DEF Progress, ProgressOf, Reads

-----------------------------------------------------------------------------
(* Writers of a register.                                                    *)

\* A call that is read or written on, or has just returned, is the one that was under way.
LEMMA Continues ==
  ASSUME TypeOK, NEW p \in Callers, Step(p),
         \A r \in Registers : ~ReadRegister(p, r),
         \A r \in Registers, e \in 0..(MaxExt + 1) : ~WriteRegister(p, r, e)
  PROVE  /\ torn' = torn /\ writable' = writable
         /\ Reads(p)' => op[p].do = "read"
         /\ op'[p].do \in {"write", "wrote"} => op[p].do = "write" /\ op'[p].id = op[p].id
         /\ Reads(p)' \/ op'[p].do \in {"write", "wrote"} =>
              /\ op'[p].reg = op[p].reg /\ op'[p].len = op[p].len /\ op'[p].alone = op[p].alone
<1>3. CASE WrongType(p)
  BY <1>3, RejectedOp DEF Reads, WrongType
<1>4. CASE \E s, reply : ReadsWith(p, s, reply)
  <2>1. PICK s, reply : ReadsWith(p, s, reply)
    BY <1>4
  <2>2. op[p].do = "read" /\ torn' = torn /\ writable' = writable
    BY <2>1 DEF ReadsWith
  <2> QED BY <2>1, <2>2, ReadsOp DEF Reads
<1>5. CASE \E s, reply : WritesWith(p, s, reply)
  <2>1. PICK s, reply : WritesWith(p, s, reply)
    BY <1>5
  <2>2. op[p].do = "write" /\ torn' = torn /\ writable' = writable
    BY <2>1 DEF WritesWith
  <2> QED BY <2>1, <2>2, WritesOp DEF Reads
<1>6. CASE WriteUnsupported(p)
  BY <1>6, FailOp DEF WriteUnsupported, Reads
<1> QED BY <1>3, <1>4, <1>5, <1>6 DEF Step

\* What AloneInv says of one call.
AloneOf(p) ==
  /\ (Reads(p) \/ op[p].do \in {"write", "wrote"}) /\ op[p].alone =>
       \A q \in Others(p) : ~Writes(q, op[p].reg)
  /\ op[p].do = "write" /\ op[p].reg \notin torn => op[p].alone

LEMMA AloneStep ==
  ASSUME TypeOK, AloneInv, NEW p \in Callers, Step(p)
  PROVE  AloneInv'
<1>0. \A q \in Callers : AloneOf(q) /\ op[q].reg \in Registers /\ (q # p <=> q \in Others(p))
  BY OpType DEF AloneInv, AloneOf, Others
<1>1. ASSUME NEW q \in Callers, q # p, NEW r PROVE Writes(q, r)' <=> Writes(q, r)
  BY <1>1, OthersKeep DEF Writes
<1>2. CASE \E r \in Registers : ReadRegister(p, r)
  <2>1. PICK r \in Registers : ReadRegister(p, r)
    BY <1>2
  <2>2. torn' = torn /\ (\A q \in Others(p) : op'[q] = op[q]) /\ op'[p].do = "read" /\ op'[p].reg = r
    BY <2>1, ReadRegisterOp DEF ReadRegister
  <2>3. op'[p].alone => \A q \in Others(p) : ~Writes(q, r)
    BY <2>1, ReadRegisterOp
  <2>4. AloneOf(p)'
    BY <1>0, <1>1, <2>2, <2>3 DEF AloneOf, Others
  <2>5. ASSUME NEW q \in Callers, q # p PROVE AloneOf(q)'
    <3>1. \A x \in Others(q) : \A y : Writes(x, y)' => Writes(x, y)
      BY <1>1, <2>2 DEF Writes, Others
    <3> QED BY <1>0, <2>2, <2>5, <3>1 DEF AloneOf, Reads, Others
  <2> QED BY <2>4, <2>5 DEF AloneInv, AloneOf
<1>3. CASE \E r \in Registers, e \in 0..(MaxExt + 1) : WriteRegister(p, r, e)
  <2>1. PICK r \in Registers, e \in 0..(MaxExt + 1) : WriteRegister(p, r, e)
    BY <1>3
  <2>2. /\ op'[p].do = "write" /\ op'[p].reg = r
        /\ op'[p].alone <=> \A q \in Others(p) : ~Writes(q, r)
    BY <2>1, WriteRegisterOp
  <2>3. torn' = IF \E q \in Others(p) : Writes(q, r) THEN torn \cup {r} ELSE torn
    BY <2>1 DEF WriteRegister
  <2>4. AloneOf(p)'
    BY <1>0, <1>1, <2>2, <2>3 DEF AloneOf, Others
  <2>5. ASSUME NEW q \in Callers, q # p PROVE AloneOf(q)'
    <3>1. /\ op'[q].alone => op[q].alone /\ op[q].reg # r
          /\ op[q].alone /\ op[q].reg # r => op'[q].alone
      <4>1. op'[q] = [op[q] EXCEPT !.alone = @ /\ op[q].reg # r] /\ op[q] \in Ops
        BY <2>1, <2>5, OpType DEF WriteRegister
      <4> QED BY <4>1 DEF Ops
    <3>2. op'[q].reg = op[q].reg /\ op'[q].do = op[q].do
      BY <2>5, OthersKeep
    <3>3. \A x \in Others(q) : \A y : y # r /\ Writes(x, y)' => Writes(x, y)
      BY <1>1, <2>2 DEF Writes, Others
    <3>4. op[q].do = "write" /\ op[q].reg = r => r \in torn'
      BY <1>0, <2>3, <2>5 DEF Writes
    <3>5. op[q].reg \notin torn' => op[q].reg \notin torn
      BY <2>3
    <3>6. AloneOf(q)
      BY <1>0
    <3>7. (Reads(q)' <=> Reads(q)) /\ (op'[q].reg = op[q].reg)
      BY <3>2 DEF Reads
    <3>8. (Reads(q) \/ op[q].do \in {"write", "wrote"}) /\ op'[q].alone =>
            \A x \in Others(q) : \A y : y = op[q].reg => ~Writes(x, y)'
      BY <3>1, <3>3, <3>6 DEF AloneOf
    <3>9. op[q].do = "write" /\ op[q].reg \notin torn' => op'[q].alone
      BY <3>1, <3>4, <3>5, <3>6 DEF AloneOf
    <3> QED BY <3>2, <3>7, <3>8, <3>9 DEF AloneOf, Writes, Others
  <2> QED BY <2>4, <2>5 DEF AloneInv, AloneOf
<1>4. CASE /\ \A r \in Registers : ~ReadRegister(p, r)
           /\ \A r \in Registers, e \in 0..(MaxExt + 1) : ~WriteRegister(p, r, e)
  <2>1. torn' = torn /\ (\A q \in Others(p) : op'[q] = op[q])
    BY <1>4, Continues, OthersKeep DEF Others
  <2>2. ASSUME NEW r, Writes(p, r)' PROVE Writes(p, r)
    BY <1>4, <2>2, Continues DEF Writes
  <2>3. AloneOf(p)'
    <3>1. AloneOf(p)
      BY <1>0
    <3>2. op'[p].do = "write" => op[p].do = "write" /\ op'[p].reg = op[p].reg /\ op'[p].alone = op[p].alone
      BY <1>4, Continues
    <3>3. Reads(p)' \/ op'[p].do \in {"write", "wrote"} =>
            /\ Reads(p) \/ op[p].do \in {"write", "wrote"}
            /\ op'[p].reg = op[p].reg /\ op'[p].alone = op[p].alone
      BY <1>4, Continues DEF Reads
    <3> QED BY <1>1, <2>1, <3>1, <3>2, <3>3 DEF AloneOf, Others
  <2>4. ASSUME NEW q \in Callers, q # p PROVE AloneOf(q)'
    <3>1. \A x \in Others(q) : \A y : Writes(x, y)' => Writes(x, y)
      BY <1>1, <2>2 DEF Others
    <3> QED BY <1>0, <2>1, <2>4, <3>1 DEF AloneOf, Reads, Others
  <2> QED BY <2>3, <2>4 DEF AloneInv, AloneOf
<1> QED BY <1>2, <1>3, <1>4

-----------------------------------------------------------------------------
(* What writes leave in a register.                                          *)

LEMMA HistoryStep ==
  ASSUME NEW p \in Callers, Step(p)
  PROVE  /\ astray => astray'
         /\ lost => lost'
         /\ torn \subseteq torn'
         /\ (\A s, reply : ~WritesWith(p, s, reply)) => store' = store
<1>1. CASE \/ \E r \in Registers : ReadRegister(p, r)
           \/ \E r \in Registers, e \in 0..(MaxExt + 1) : WriteRegister(p, r, e)
           \/ WrongType(p) \/ WriteUnsupported(p)
  BY <1>1 DEF ReadRegister, WriteRegister, WrongType, WriteUnsupported
<1>2. CASE \E s, reply : ReadsWith(p, s, reply)
  BY <1>2 DEF ReadsWith, Exchange
<1>3. CASE \E s, reply : WritesWith(p, s, reply)
  BY <1>3 DEF WritesWith, Exchange
<1> QED BY <1>1, <1>2, <1>3 DEF Step

\* Nobody else changes the register of a call that is alone.
LEMMA StoreKept ==
  ASSUME TypeOK, AloneInv, NEW p \in Callers, Step(p), NEW q \in Callers, q # p,
         Reads(q) \/ op[q].do \in {"write", "wrote"}, op[q].alone, NEW c \in Components
  PROVE  store'[op[q].reg][c] = store[op[q].reg][c]
<1>1. CASE \E s, reply : WritesWith(p, s, reply)
  <2>1. PICK s, reply : WritesWith(p, s, reply)
    BY <1>1
  <2>2. op[p].reg # op[q].reg
    BY <2>1 DEF WritesWith, AloneInv, Writes, Others
  <2> QED BY <2>1, <2>2, StoreStep, OpType
<1>2. CASE \A s, reply : ~WritesWith(p, s, reply)
  BY <1>2, HistoryStep
<1> QED BY <1>1, <1>2

\* A write that goes on or returns well has stored the component it was at, unless a reply
\* went astray.
LEMMA Stored ==
  ASSUME TypeOK, NEW p \in Callers, NEW s, NEW reply, WritesWith(p, s, reply),
         op'[p].do \in {"write", "wrote"}, ~astray'
  PROVE  store'[op[p].reg][op[p].at] = op[p].id
<1>1. Accepts(reply) /\ s \in Answers(op[p]) /\ Exchange(s, reply)
  BY WritesOp DEF WritesWith
<1>2. s = <<Answer(op[p])>>
  BY <1>1, OwnReply
<1> QED BY <1>2, StoreStep, OpType

LEMMA WriterStep ==
  ASSUME TypeOK, Progress, AloneInv, WriterInv, NEW p \in Callers, Step(p)
  PROVE  WriterInv'
<1>1. ASSUME NEW r \in Registers, NEW c \in Components PROVE store'[r][c] =< calls'
  <2>1. store[r][c] =< calls /\ store[r][c] \in Nat
    BY DEF WriterInv, TypeOK
  <2>2. CASE \E s, reply : WritesWith(p, s, reply)
    <3>1. PICK s, reply : WritesWith(p, s, reply)
      BY <2>2
    <3>2. op[p].id =< calls /\ calls' = calls
      BY <3>1 DEF WritesWith, Progress
    <3>3. store'[r][c] = op[p].id \/ store'[r][c] = store[r][c]
      BY <3>1, StoreStep
    <3> QED BY <2>1, <3>2, <3>3
  <2>3. CASE \A s, reply : ~WritesWith(p, s, reply)
    BY <2>1, <2>3, CallsStep, HistoryStep
  <2> QED BY <2>2, <2>3
<1>2. ASSUME NEW q \in Callers, q # p, op'[q].do = "write", op'[q].alone
      PROVE  /\ \A c \in Components : store'[op'[q].reg][c] =< op'[q].id
             /\ ~astray' => \A c \in Components : c < op'[q].at => store'[op'[q].reg][c] = op'[q].id
  <2>1. /\ op[q].do = "write" /\ op[q].alone /\ op'[q].reg = op[q].reg
        /\ op'[q].at = op[q].at /\ op'[q].id = op[q].id
    BY <1>2, OthersKeep
  <2>2. \A c \in Components : store'[op[q].reg][c] = store[op[q].reg][c]
    BY <1>2, <2>1, StoreKept
  <2> QED BY <2>1, <2>2, HistoryStep DEF WriterInv
<1>3. ASSUME op'[p].do = "write", op'[p].alone
      PROVE  /\ \A c \in Components : store'[op'[p].reg][c] =< op'[p].id
             /\ ~astray' => \A c \in Components : c < op'[p].at => store'[op'[p].reg][c] = op'[p].id
  <2>1. CASE \E r \in Registers, e \in 0..(MaxExt + 1) : WriteRegister(p, r, e)
    <3>1. PICK r \in Registers, e \in 0..(MaxExt + 1) : WriteRegister(p, r, e)
      BY <2>1
    <3>2. op'[p].reg = r /\ op'[p].at = 1 /\ op'[p].id = calls + 1
      BY <3>1, WriteRegisterOp
    <3>5. store' = store
      BY <3>1 DEF WriteRegister
    <3>3. \A c \in Components : store[r][c] =< calls /\ store[r][c] \in Nat /\ ~(c < 1)
      BY Lengths DEF WriterInv, TypeOK
    <3>4. calls \in Nat
      BY DEF TypeOK
    <3> QED BY <3>2, <3>3, <3>4, <3>5
  <2>2. CASE \A r \in Registers, e \in 0..(MaxExt + 1) : ~WriteRegister(p, r, e)
    <3>1. \A r \in Registers : ~ReadRegister(p, r)
      BY <1>3, ReadRegisterOp
    <3>2. op[p].do = "write" /\ op[p].alone /\ op'[p].reg = op[p].reg /\ op'[p].id = op[p].id
      BY <1>3, <2>2, <3>1, Continues
    <3>3. PICK s, reply : WritesWith(p, s, reply)
      BY <1>3, <2>2, <3>1, <3>2, RejectedOp, FailOp DEF Step, ReadsWith, WriteUnsupported
    <3>4. op'[p].at = op[p].at + 1
      BY <1>3, <3>3, WritesOp
    <3>5. /\ op[p].at \in Nat /\ op[p].id \in Nat /\ op[p].reg \in Registers
          /\ \A c \in Components : store[op[p].reg][c] \in Nat /\ c \in Nat
      BY OpType, Lengths DEF TypeOK
    <3>6. \A c \in Components : store[op[p].reg][c] =< op[p].id
      BY <3>2 DEF WriterInv
    <3>7. \A c \in Components :
             store'[op[p].reg][c] = op[p].id \/ store'[op[p].reg][c] = store[op[p].reg][c]
      BY <3>3, <3>5, StoreStep
    <3>8. ASSUME ~astray', NEW c \in Components, c < op'[p].at
          PROVE  store'[op[p].reg][c] = op[p].id
      <4>1. CASE c = op[p].at
        BY <1>3, <3>3, <3>8, <4>1, Stored
      <4>2. CASE c # op[p].at
        <5>1. c < op[p].at
          BY <3>4, <3>5, <3>8, <4>2
        <5> QED BY <3>2, <3>7, <3>8, <5>1, HistoryStep DEF WriterInv
      <4> QED BY <4>1, <4>2
    <3> QED BY <3>2, <3>5, <3>6, <3>7, <3>8
  <2> QED BY <2>1, <2>2
<1> QED BY <1>1, <1>2, <1>3 DEF WriterInv

LEMMA LayeredStep ==
  ASSUME TypeOK, AloneInv, WriterInv, Layered, NEW p \in Callers, Step(p)
  PROVE  Layered'
<1> SUFFICES ASSUME ~astray', NEW r \in Positions, r \notin torn',
                    NEW c \in Components, NEW d \in Components, c < d
             PROVE  store'[r][c] >= store'[r][d]
  BY DEF Layered
<1>1. ~astray /\ r \notin torn /\ r \in Registers
  BY HistoryStep DEF Registers
<1>0. c \in Nat /\ d \in Nat
  BY Lengths
<1>2. store[r][c] >= store[r][d] /\ store[r][c] \in Nat /\ store[r][d] \in Nat /\ c # d
  BY <1>0, <1>1 DEF Layered, TypeOK
<1>3. CASE \E s, reply : WritesWith(p, s, reply) /\ op[p].reg = r
  <2>1. PICK s, reply : WritesWith(p, s, reply) /\ op[p].reg = r
    BY <1>3
  <2>2. op[p].do = "write" /\ op[p].alone
    BY <1>1, <2>1 DEF WritesWith, AloneInv
  <2>3. store[r][d] =< op[p].id
    BY <2>1, <2>2 DEF WriterInv
  <2>4. c < op[p].at => store[r][c] = op[p].id
    BY <1>1, <2>1, <2>2 DEF WriterInv
  <2>5. op[p].id \in Nat /\ op[p].at \in Nat
    BY OpType
  <2>6. \/ store'[r][c] = store[r][c] /\ store'[r][d] = store[r][d]
        \/ c = op[p].at /\ store'[r][c] = op[p].id /\ store'[r][d] = store[r][d]
        \/ d = op[p].at /\ store'[r][d] = op[p].id /\ store'[r][c] = store[r][c]
    BY <1>1, <1>2, <2>1, StoreStep
  <2> QED BY <1>0, <1>2, <2>3, <2>4, <2>5, <2>6
<1>4. CASE \A s, reply : WritesWith(p, s, reply) => op[p].reg # r
  <2>1. store'[r][c] = store[r][c] /\ store'[r][d] = store[r][d]
    BY <1>1, <1>4, StoreStep, HistoryStep
  <2> QED BY <1>2, <2>1
<1> QED BY <1>3, <1>4

LEMMA WrittenStep ==
  ASSUME TypeOK, AloneInv, WriterInv, WrittenIsStored, NEW p \in Callers, Step(p)
  PROVE  WrittenIsStored'
<1> SUFFICES ASSUME ~astray', NEW q \in Callers, op'[q].do = "wrote", op'[q].alone,
                    NEW c \in 1..op'[q].len
             PROVE  store'[op'[q].reg][c] = op'[q].id
  BY DEF WrittenIsStored
<1>0. ~astray
  BY HistoryStep
<1>1. CASE q # p
  <2>1. /\ op[q].do = "wrote" /\ op[q].alone /\ op'[q].reg = op[q].reg
        /\ op'[q].len = op[q].len /\ op'[q].id = op[q].id
    BY <1>1, OthersKeep
  <2>2. c \in Components
    BY <2>1, OpType, Lengths
  <2>3. store'[op[q].reg][c] = store[op[q].reg][c]
    BY <1>1, <2>1, <2>2, StoreKept
  <2> QED BY <1>0, <2>1, <2>3 DEF WrittenIsStored
<1>2. CASE q = p
  <2>1. /\ \A r \in Registers : ~ReadRegister(p, r)
        /\ \A r \in Registers, e \in 0..(MaxExt + 1) : ~WriteRegister(p, r, e)
    BY <1>2, ReadRegisterOp, WriteRegisterOp
  <2>2. /\ op[p].do = "write" /\ op[p].alone /\ op'[p].reg = op[p].reg
        /\ op'[p].len = op[p].len /\ op'[p].id = op[p].id
    BY <1>2, <2>1, Continues
  <2>3. PICK s, reply : WritesWith(p, s, reply)
    BY <1>2, <2>1, <2>2, RejectedOp, FailOp DEF Step, ReadsWith, WriteUnsupported
  <2>4. op[p].at = op[p].len
    BY <1>2, <2>3, WritesOp
  <2>5. c \in Components /\ c =< op[p].at /\ op[p].at \in Nat /\ c \in Nat /\ op[p].reg \in Registers
    BY <1>2, <2>2, <2>4, OpType, Lengths
  <2>6. CASE c = op[p].at
    BY <1>2, <2>2, <2>3, <2>6, Stored
  <2>7. CASE c # op[p].at
    <3>1. store[op[p].reg][c] = op[p].id
      BY <1>0, <2>2, <2>5, <2>7 DEF WriterInv
    <3>2. store'[op[p].reg][c] = op[p].id \/ store'[op[p].reg][c] = store[op[p].reg][c]
      BY <2>3, <2>5, StoreStep
    <3> QED BY <1>2, <2>2, <3>1, <3>2
  <2> QED BY <2>6, <2>7
<1> QED BY <1>1, <1>2

-----------------------------------------------------------------------------
(* What reads return.                                                        *)

\* What ReaderInv says of one call.
ReaderOf(p) ==
  LET got == op[p].got  r == op[p].reg  IN
  /\ \A i \in DOMAIN got :
       /\ got[i].reg = r
       /\ Exists(r, got[i].comp)
       /\ got[i].comp < op[p].at \/ op[p].do = "readOK"
       /\ op[p].alone => got[i].val = store[r][got[i].comp]
       /\ i =< Required(r) => got[i].comp = i
  /\ \A i, j \in DOMAIN got : i =< j => got[j].comp - got[i].comp >= j - i

LEMMA GotType ==
  ASSUME TypeOK, NEW p \in Callers, NEW i \in DOMAIN op[p].got
  PROVE  /\ op[p].got[i] \in Decodings /\ op[p].got[i].comp \in Components
         /\ op[p].got[i].comp \in Nat /\ i \in Nat
<1>1. op[p].got \in Seq(Decodings)
  BY OpType
<1>2. op[p].got[i] \in Decodings /\ i \in Nat
  BY <1>1
<1> QED BY <1>2, Lengths DEF Decodings

\* A read whose replies are its own has one more value, that of the component it was at.
LEMMA ReaderAppend ==
  ASSUME TypeOK, Progress, NEW p \in Callers, ReaderOf(p), NEW s, NEW reply,
         ReadsWith(p, s, reply), Parses(p, reply), ~astray'
  PROVE  ReaderOf(p)'
<1> DEFINE got == op[p].got
           r == op[p].reg
           n == Len(got)
           at == op[p].at
           d == Decoded(reply)
           g == op'[p].got
<1>1. /\ op[p].do = "read" /\ s \in Answers(op[p]) /\ Exchange(s, reply) /\ store' = store
  BY DEF ReadsWith
<1>2. reply = Answer(op[p]) /\ Exists(r, at)
  BY <1>1, ParsedIsTaken, OwnReply
<1>3. d.reg = r /\ d.comp = at /\ d.val = store[r][at] /\ d \in Decodings
  BY <1>1, <1>2, ReadsOp DEF Decoded, Answer
<1>4. /\ g = Append(got, d) /\ op'[p].reg = r /\ op'[p].alone = op[p].alone
      /\ op'[p].at = at + 1 \/ op'[p].do = "readOK"
  BY ReadsOp
<1>5. /\ got \in Seq(Decodings) /\ n \in Nat /\ at \in Nat /\ Required(r) \in Nat
      /\ n < at /\ (at =< Required(r) => n = at - 1) /\ (at > Required(r) => n >= Required(r))
  <2>1. got \in Seq(Decodings) /\ at \in Nat
    BY OpType
  <2>2. Required(r) \in Nat
    BY Lengths
  <2>3. n \in Nat
    BY <2>1, LenProperties
  <2> QED BY <1>1, <2>1, <2>2, <2>3 DEF Progress, Reads
<1>6. DOMAIN got = 1..n /\ DOMAIN g = 1..(n + 1) /\ g[n + 1] = d /\ \A i \in 1..n : g[i] = got[i]
  BY <1>3, <1>4, <1>5, AppendProperties
<1>7. \A i \in 1..n : got[i].comp \in Nat /\ got[i].comp < at
  <2>1. \A i \in 1..n : got[i].comp \in Nat
    BY <1>6, GotType
  <2>2. \A i \in 1..n : got[i].comp < at
    BY <1>1, <1>6 DEF ReaderOf
  <2> QED BY <2>1, <2>2
<1>8. ASSUME NEW i \in 1..(n + 1)
      PROVE  /\ g[i].reg = r
             /\ Exists(r, g[i].comp)
             /\ g[i].comp < op'[p].at \/ op'[p].do = "readOK"
             /\ op'[p].alone => g[i].val = store'[r][g[i].comp]
             /\ i =< Required(r) => g[i].comp = i
  <2>1. CASE i = n + 1
    <3>1. i =< Required(r) => at = i
      BY <1>5, <2>1
    <3>2. at < op'[p].at \/ op'[p].do = "readOK"
      BY <1>4, <1>5
    <3> HIDE DEF d
    <3> QED BY <1>1, <1>2, <1>3, <1>6, <2>1, <3>1, <3>2
  <2>2. CASE i # n + 1
    <3>1. i \in 1..n /\ g[i] = got[i]
      BY <1>5, <1>6, <2>2
    <3>2. got[i].comp < op'[p].at \/ op'[p].do = "readOK"
      BY <1>4, <1>5, <1>7, <3>1
    <3>3. /\ got[i].reg = r /\ Exists(r, got[i].comp)
          /\ op[p].alone => got[i].val = store[r][got[i].comp]
          /\ i =< Required(r) => got[i].comp = i
      BY <1>6, <3>1 DEF ReaderOf
    <3> QED BY <1>1, <1>4, <3>1, <3>2, <3>3
  <2> QED BY <2>1, <2>2
<1>9. ASSUME NEW i \in 1..(n + 1), NEW j \in 1..(n + 1), i =< j
      PROVE  g[j].comp - g[i].comp >= j - i
  <2>1. ASSUME NEW k \in 1..n, NEW l \in 1..n, k =< l PROVE got[l].comp - got[k].comp >= l - k
    BY <1>6, <2>1 DEF ReaderOf
  <2>2. CASE i \in 1..n /\ j \in 1..n
    BY <1>6, <1>9, <2>1, <2>2
  <2>3. CASE i \in 1..n /\ j = n + 1
    <3>1. got[n].comp - got[i].comp >= n - i /\ n \in 1..n
      BY SMTT(30), <1>5, <2>1, <2>3
    <3>2. got[n].comp \in Nat /\ got[i].comp \in Nat /\ got[n].comp < at
      BY <1>7, <2>3, <3>1
    <3>3. g[j].comp = at /\ g[i].comp = got[i].comp
      BY <1>3, <1>6, <2>3
    <3> HIDE DEF g, got, at, n
    <3> QED BY SMTT(30), <1>5, <2>3, <3>1, <3>2, <3>3
  <2>4. CASE i = n + 1 /\ j = n + 1
    BY <1>3, <1>5, <1>6, <2>4
  <2> QED BY SMTT(30), <1>5, <1>9, <2>2, <2>3, <2>4
<1> HIDE DEF n, d
<1> QED BY <1>4, <1>6, <1>8, <1>9 DEF ReaderOf, Exists

LEMMA ReaderStep ==
  ASSUME TypeOK, Progress, AloneInv, ReaderInv, NEW p \in Callers, Step(p)
  PROVE  ReaderInv'
<1> SUFFICES ASSUME ~astray', NEW q \in Callers, Reads(q)'
             PROVE  ReaderOf(q)'
  BY DEF ReaderInv, ReaderOf
<1>0. ~astray /\ \A x \in Callers : Reads(x) => ReaderOf(x)
  BY HistoryStep DEF ReaderInv, ReaderOf
<1>1. CASE q # p
  <2>1. /\ op'[q].do = op[q].do /\ op'[q].reg = op[q].reg /\ op'[q].at = op[q].at
        /\ op'[q].got = op[q].got /\ (op'[q].alone => op[q].alone)
    BY <1>1, OthersKeep
  <2>2. Reads(q) /\ ReaderOf(q)
    BY <1>0, <2>1 DEF Reads
  <2>3. ASSUME NEW i \in DOMAIN op[q].got, op[q].alone
        PROVE  store'[op[q].reg][op[q].got[i].comp] = store[op[q].reg][op[q].got[i].comp]
    BY <1>1, <2>2, <2>3, StoreKept, GotType
  <2> QED BY <2>1, <2>2, <2>3 DEF ReaderOf, Exists
<1>2. CASE q = p
  <2>1. CASE \E r \in Registers : ReadRegister(p, r)
    <3>1. op'[p].got = <<>>
      BY <2>1, ReadRegisterOp
    <3> QED BY <1>2, <3>1 DEF ReaderOf
  <2>2. CASE \A r \in Registers : ~ReadRegister(p, r)
    <3>1. op[p].do = "read"
      BY <1>2, <2>2, Continues, WriteRegisterOp DEF Reads
    <3>2. PICK s, reply : ReadsWith(p, s, reply)
      BY <1>2, <2>2, <3>1, RejectedOp, WriteRegisterOp DEF Step, WritesWith, WriteUnsupported, Reads
    <3>3. CASE Parses(p, reply)
      BY <1>0, <1>2, <3>1, <3>2, <3>3, ReaderAppend DEF Reads
    <3>4. CASE ~Parses(p, reply)
      <4>1. /\ op'[p].got = op[p].got /\ op'[p].reg = op[p].reg /\ op'[p].alone = op[p].alone
            /\ op'[p].at = op[p].at + 1 \/ op'[p].do = "readOK"
        BY <1>2, <3>2, <3>4, ReadsOp DEF Reads
      <4>2. store' = store /\ ReaderOf(p)
        BY <1>0, <3>1, <3>2 DEF ReadsWith, Reads
      <4>3. ASSUME NEW i \in DOMAIN op[p].got
            PROVE  op[p].got[i].comp < op'[p].at \/ op'[p].do = "readOK"
        <5>1. op[p].got[i].comp < op[p].at
          BY <3>1, <4>2 DEF ReaderOf
        <5>2. op[p].got[i].comp \in Nat /\ op[p].at \in Nat
          BY GotType, OpType
        <5> QED BY <4>1, <5>1, <5>2
      <4> QED BY <1>2, <4>1, <4>2, <4>3 DEF ReaderOf, Exists
    <3> QED BY <3>3, <3>4
  <2> QED BY <2>1, <2>2
<1> QED BY <1>1, <1>2

LEMMA Snapshot ==
  ASSUME TypeOK, Progress, ReaderInv
  PROVE  ReadIsSnapshot
<1> SUFFICES ASSUME ~astray, NEW p \in Callers, op[p].do = "readOK", op[p].alone
             PROVE  LET r == op[p].reg  got == op[p].got  IN
                    /\ Len(got) >= Required(r)
                    /\ \A i \in DOMAIN got : got[i].reg = r /\ got[i].val = store[r][got[i].comp]
                    /\ \A i \in 1..Required(r) : got[i].comp = i
                    /\ \A i, j \in DOMAIN got : i < j => got[i].comp < got[j].comp
                    /\ r \in Positions /\ Len(got) = Config + Axes =>
                         \A i \in DOMAIN got : got[i].comp = i
  BY DEF ReadIsSnapshot
<1> DEFINE r == op[p].reg
           got == op[p].got
           n == Len(got)
<1>1. Reads(p) /\ ReaderOf(p)
  BY DEF Reads, ReaderInv, ReaderOf
<1>2. n >= Required(r)
  BY <1>1 DEF Progress
<1>3. /\ got \in Seq(Decodings) /\ n \in Nat /\ DOMAIN got = 1..n
      /\ Required(r) \in Nat /\ 1 =< Required(r)
      /\ \A i \in 1..n : got[i].comp \in Nat
  <2>1. got \in Seq(Decodings) /\ n \in Nat /\ DOMAIN got = 1..n
    BY OpType, LenProperties
  <2>2. \A i \in 1..n : got[i].comp \in Nat
    BY <2>1, GotType
  <2> QED BY <2>1, <2>2, Lengths
<1>4. \A i \in 1..n : /\ got[i].reg = r /\ got[i].val = store[r][got[i].comp]
                      /\ Exists(r, got[i].comp) /\ (i =< Required(r) => got[i].comp = i)
  BY <1>1, <1>3 DEF ReaderOf
<1>5. \A i, j \in 1..n : i =< j => got[j].comp - got[i].comp >= j - i
  BY <1>1, <1>3 DEF ReaderOf
<1> HIDE DEF got, n, r
<1>6. \A i \in 1..Required(r) : got[i].comp = i
  BY <1>2, <1>3, <1>4
<1>7. \A i, j \in 1..n : i < j => got[i].comp < got[j].comp
  BY SMTT(30), <1>3, <1>5
<1>8. ASSUME r \in Positions, n = Config + Axes, NEW i \in 1..n
      PROVE  got[i].comp = i
  <2>1. 1 \in 1..n /\ n \in 1..n /\ 1 =< i /\ i =< n
    BY <1>2, <1>3
  <2>2. got[1].comp = 1 /\ got[n].comp =< n
    BY <1>3, <1>4, <1>8, <2>1 DEF Exists
  <2>3. got[i].comp - got[1].comp >= i - 1 /\ got[n].comp - got[i].comp >= n - i
    BY <1>5, <2>1
  <2>4. got[i].comp \in Nat /\ got[n].comp \in Nat
    BY <1>3, <2>1
  <2> QED BY <1>3, <2>2, <2>3, <2>4
<1> QED BY <1>2, <1>3, <1>4, <1>6, <1>7, <1>8 DEF got, n, r

-----------------------------------------------------------------------------
(* Replies out of step.                                                      *)

Places == Decodings \cup Replies

\* f is the end of g, as far as registers and components go.
Within(f, g) == \E k \in Nat :
  /\ Len(g) = k + Len(f)
  /\ \A i \in 1..Len(f) : f[i].reg = g[k + i].reg /\ f[i].comp = g[k + i].comp

LEMMA WithinChained ==
  ASSUME NEW f \in Seq(Places), NEW g \in Seq(Places), Within(f, g), Chained(g)
  PROVE  Chained(f)
<1>1. Len(f) \in Nat /\ Len(g) \in Nat /\ DOMAIN f = 1..Len(f) /\ DOMAIN g = 1..Len(g)
  BY LenProperties
<1>2. PICK k \in Nat :
        /\ Len(g) = k + Len(f)
        /\ \A i \in 1..Len(f) : f[i].reg = g[k + i].reg /\ f[i].comp = g[k + i].comp
  BY DEF Within
<1> SUFFICES ASSUME NEW i \in 1..Len(f), NEW j \in 1..Len(f), f[j].comp = Config,
                    f[j].reg \in Positions, i < j, j - i < Config
             PROVE  f[i].reg = f[j].reg /\ f[i].comp = Config - (j - i)
  BY <1>1 DEF Chained
<1>3. k + i \in DOMAIN g /\ k + j \in DOMAIN g /\ k + i < k + j /\ (k + j) - (k + i) = j - i
  BY <1>1, <1>2
<1>4. g[k + i].reg = g[k + j].reg /\ g[k + i].comp = Config - ((k + j) - (k + i))
  BY <1>2, <1>3 DEF Chained
<1> QED BY <1>2, <1>3, <1>4

LEMMA WithinEnds ==
  ASSUME NEW f \in Seq(Places), NEW g \in Seq(Places), NEW o, Within(f, g), Ends(g, o)
  PROVE  Ends(f, o)
<1>1. Len(f) \in Nat /\ Len(g) \in Nat /\ DOMAIN f = 1..Len(f) /\ DOMAIN g = 1..Len(g)
  BY LenProperties
<1>2. PICK k \in Nat :
        /\ Len(g) = k + Len(f)
        /\ \A i \in 1..Len(f) : f[i].reg = g[k + i].reg /\ f[i].comp = g[k + i].comp
  BY DEF Within
<1> SUFFICES ASSUME NEW i \in 1..Len(f), Len(f) - i < o.at - 1
             PROVE  f[i].reg = o.reg /\ f[i].comp = o.at - 1 - (Len(f) - i)
  BY <1>1 DEF Ends
<1>3. k + i \in DOMAIN g /\ Len(g) - (k + i) = Len(f) - i
  BY <1>1, <1>2
<1>4. g[k + i].reg = o.reg /\ g[k + i].comp = o.at - 1 - (Len(g) - (k + i))
  BY <1>3 DEF Ends
<1> QED BY <1>2, <1>3, <1>4

\* The next access of o sends its reply after those of the accesses before it.
LEMMA SendChained ==
  ASSUME NEW f \in Seq(Places), NEW x \in Places, NEW o, o.at \in Nat,
         x.reg = o.reg, x.comp = o.at, Chained(f),
         o.reg \in Positions /\ o.at = Config => Ends(f, o)
  PROVE  Chained(Append(f, x))
<1> DEFINE g == Append(f, x)
           n == Len(f)
<1>1. n \in Nat /\ DOMAIN f = 1..n /\ Config \in Nat
  BY LenProperties, Lengths
<1>2. DOMAIN g = 1..(n + 1) /\ g[n + 1] = x /\ \A i \in 1..n : g[i] = f[i]
  BY <1>1, AppendProperties
<1> HIDE DEF g, n
<1>3. ASSUME NEW i \in 1..(n + 1), NEW j \in 1..(n + 1), g[j].comp = Config,
             g[j].reg \in Positions, i < j, j - i < Config
      PROVE  g[i].reg = g[j].reg /\ g[i].comp = Config - (j - i)
  <2>1. i \in 1..n
    BY <1>1, <1>3
  <2>2. CASE j = n + 1
    <3>1. o.at = Config /\ o.reg \in Positions /\ x = g[j]
      BY <1>2, <1>3, <2>2
    <3>2. Ends(f, o)
      BY <3>1
    <3>3. n - i < o.at - 1
      BY <1>1, <1>3, <2>2, <3>1
    <3>4. f[i].reg = o.reg /\ f[i].comp = o.at - 1 - (n - i)
      BY <1>1, <2>1, <3>2, <3>3 DEF Ends, n
    <3>5. o.at - 1 - (n - i) = Config - (j - i)
      BY <1>1, <2>2, <3>1
    <3> QED BY <1>2, <2>1, <3>1, <3>4, <3>5
  <2>3. CASE j # n + 1
    <3>1. j \in 1..n
      BY <1>1, <2>3
    <3>2. g[j] = f[j] /\ g[i] = f[i]
      BY <1>2, <2>1, <3>1
    <3> QED BY <1>1, <1>3, <2>1, <3>1, <3>2 DEF Chained
  <2> QED BY <2>2, <2>3
<1>4. Chained(g)
  BY <1>2, <1>3 DEF Chained
<1> QED BY <1>4 DEF g

LEMMA SendEnds ==
  ASSUME NEW f \in Seq(Places), NEW x \in Places, NEW o, NEW m, o.at \in Nat,
         x.reg = o.reg, x.comp = o.at, Ends(f, o), m.reg = o.reg, m.at = o.at + 1
  PROVE  Ends(Append(f, x), m)
<1> DEFINE g == Append(f, x)
           n == Len(f)
<1>1. n \in Nat /\ DOMAIN f = 1..n
  BY LenProperties
<1>2. DOMAIN g = 1..(n + 1) /\ Len(g) = n + 1 /\ g[n + 1] = x /\ \A i \in 1..n : g[i] = f[i]
  BY <1>1, AppendProperties
<1>3. \A i \in 1..n : n - i < o.at - 1 => f[i].reg = o.reg /\ f[i].comp = o.at - 1 - (n - i)
  BY <1>1 DEF Ends
<1> HIDE DEF g, n
<1>4. ASSUME NEW i \in 1..(n + 1), (n + 1) - i < m.at - 1
      PROVE  g[i].reg = m.reg /\ g[i].comp = m.at - 1 - ((n + 1) - i)
  <2>1. CASE i = n + 1
    BY <1>1, <1>2, <2>1
  <2>2. CASE i # n + 1
    <3>1. i \in 1..n /\ g[i] = f[i] /\ n - i < o.at - 1
      BY <1>1, <1>2, <1>4, <2>2
    <3>2. f[i].reg = o.reg /\ f[i].comp = o.at - 1 - (n - i)
      BY <1>3, <3>1
    <3>3. o.at - 1 - (n - i) = m.at - 1 - ((n + 1) - i)
      BY <1>1
    <3> QED BY <3>1, <3>2, <3>3
  <2> QED BY <2>1, <2>2
<1>5. Ends(g, m)
  BY <1>2, <1>4 DEF Ends
<1> QED BY <1>5 DEF g

LEMMA JoinShape ==
  ASSUME NEW g \in Seq(Decodings), NEW l \in Seq(Replies)
  PROVE  /\ g \o l \in Seq(Places) /\ Len(g) \in Nat /\ Len(l) \in Nat
         /\ Len(g \o l) = Len(g) + Len(l)
         /\ \A i \in 1..Len(g) : (g \o l)[i] = g[i]
         /\ \A i \in 1..Len(l) : (g \o l)[Len(g) + i] = l[i]
<1>1. g \in Seq(Places) /\ l \in Seq(Places) /\ Len(g) \in Nat /\ Len(l) \in Nat
  BY LenProperties DEF Places
<1>2. g \o l \in Seq(Places) /\ Len(g \o l) = Len(g) + Len(l)
  BY <1>1, ConcatProperties
<1>3. \A i \in 1..(Len(g) + Len(l)) : (g \o l)[i] = IF i =< Len(g) THEN g[i] ELSE l[i - Len(g)]
  BY <1>1, ConcatProperties
<1>4. ASSUME NEW i \in 1..Len(l) PROVE (g \o l)[Len(g) + i] = l[i]
  <2>1. Len(g) + i \in 1..(Len(g) + Len(l)) /\ ~(Len(g) + i =< Len(g)) /\ (Len(g) + i) - Len(g) = i
    BY <1>1
  <2> QED BY <1>3, <2>1
<1>5. \A i \in 1..Len(g) : (g \o l)[i] = g[i]
  BY <1>1, <1>3
<1> QED BY <1>1, <1>2, <1>4, <1>5

\* What p has collected: the first part of its stream.
Collected(p) == IF Collects(p) THEN op[p].got ELSE <<>>

LEMMA StreamType ==
  ASSUME TypeOK, NEW p \in Callers
  PROVE  /\ Collected(p) \in Seq(Decodings) /\ late \in Seq(Replies)
         /\ Stream(p) = Collected(p) \o late /\ Stream(p) \in Seq(Places)
<1>1. <<>> \in Seq(Decodings)
  OBVIOUS
<1>2. Collected(p) \in Seq(Decodings) /\ late \in Seq(Replies)
  BY <1>1, OpType DEF Collected, TypeOK
<1> QED BY <1>2, JoinShape DEF Stream, Collected

\* What is left of the replies after an access is the end of them all.
LEMMA RestWithin ==
  ASSUME NEW g \in Seq(Decodings), NEW l \in Seq(Replies), NEW x \in Replies,
         NEW r \in Seq(Replies), r = l \o <<x>> \/ r = Tail(l \o <<x>>)
  PROVE  Within(r, Append(g \o l, x))
<1> DEFINE a == Len(g)
           b == Len(l)
           f == Append(g \o l, x)
           all == l \o <<x>>
<1>1. /\ a \in Nat /\ b \in Nat /\ Len(g \o l) = a + b /\ g \o l \in Seq(Places)
      /\ \A i \in 1..b : (g \o l)[a + i] = l[i]
  BY JoinShape
<1>2. /\ Len(f) = a + b + 1 /\ f[a + b + 1] = x
      /\ \A i \in 1..(a + b) : f[i] = (g \o l)[i]
  BY <1>1, AppendProperties DEF Places
<1>3. <<x>> \in Seq(Replies) /\ Len(<<x>>) = 1 /\ <<x>>[1] = x
  OBVIOUS
<1>4. all \in Seq(Replies) /\ Len(all) = b + 1 /\ all # <<>>
  BY <1>1, <1>3
<1>5. \A i \in 1..(b + 1) : all[i] = IF i =< b THEN l[i] ELSE <<x>>[i - b]
  BY <1>1, <1>3, ConcatProperties
<1> HIDE DEF a, b, f, all
<1>6. \A i \in 1..(b + 1) : all[i] = f[a + i]
  <2> SUFFICES ASSUME NEW i \in 1..(b + 1) PROVE all[i] = f[a + i]
    OBVIOUS
  <2>1. CASE i = b + 1
    <3>1. a \in Nat /\ b \in Nat
      BY <1>1
    <3>2. ~(i =< b) /\ i - b = 1 /\ a + i = a + b + 1
      BY <2>1, <3>1
    <3> QED BY <1>2, <1>3, <1>5, <3>2
  <2>2. CASE i # b + 1
    <3>1. i \in 1..b /\ a + i \in 1..(a + b) /\ i =< b
      BY <1>1, <2>2
    <3> QED BY <1>1, <1>2, <1>5, <3>1
  <2> QED BY <2>1, <2>2
<1>7. CASE r = all
  <2>1. Len(f) = a + Len(r) /\ \A i \in 1..Len(r) : r[i] = f[a + i]
    <3>1. a \in Nat /\ b \in Nat
      BY <1>1
    <3>2. Len(r) = b + 1
      BY <1>4, <1>7
    <3>3. Len(f) = a + Len(r)
      BY <1>2, <3>1, <3>2
    <3> QED BY <1>6, <1>7, <3>2, <3>3
  <2> QED BY <1>1, <2>1 DEF Within, f
<1>8. CASE r = Tail(all)
  <2>1. Len(r) = b /\ \A i \in 1..b : r[i] = all[i + 1]
    BY <1>1, <1>4, <1>8, HeadTailProperties
  <2>2. ASSUME NEW i \in 1..b PROVE r[i] = f[(a + 1) + i]
    <3>1. i + 1 \in 1..(b + 1) /\ a + (i + 1) = (a + 1) + i
      BY <1>1
    <3> QED BY <1>6, <2>1, <3>1
  <2>3. a + 1 \in Nat /\ Len(f) = (a + 1) + Len(r)
    BY <1>1, <1>2, <2>1
  <2> QED BY <2>1, <2>2, <2>3 DEF Within, f
<1> QED BY <1>7, <1>8 DEF all

\* Taking the first of them moves it from one part of the stream to the other.
LEMMA TakeWithin ==
  ASSUME NEW g \in Seq(Decodings), NEW l \in Seq(Replies), NEW x \in Replies, NEW d \in Decodings,
         d.reg = Head(l \o <<x>>).reg, d.comp = Head(l \o <<x>>).comp
  PROVE  LET f == Append(g \o l, x)  h == Append(g, d) \o Tail(l \o <<x>>)  IN
         /\ h \in Seq(Places) /\ Within(h, f)
         /\ Len(g) + 1 =< Len(f)
         /\ \A i \in 1..(Len(g) + 1) :
              f[i].reg = Append(g, d)[i].reg /\ f[i].comp = Append(g, d)[i].comp
<1> DEFINE a == Len(g)
           b == Len(l)
           f == Append(g \o l, x)
           all == l \o <<x>>
           t == Tail(all)
           e == Append(g, d)
           h == e \o t
<1>1. /\ a \in Nat /\ b \in Nat /\ Len(g \o l) = a + b /\ g \o l \in Seq(Places)
      /\ \A i \in 1..b : (g \o l)[a + i] = l[i]
      /\ \A i \in 1..a : (g \o l)[i] = g[i]
  BY JoinShape
<1>2. /\ Len(f) = a + b + 1 /\ f[a + b + 1] = x
      /\ \A i \in 1..(a + b) : f[i] = (g \o l)[i]
  BY <1>1, AppendProperties DEF Places
<1>3. <<x>> \in Seq(Replies) /\ Len(<<x>>) = 1 /\ <<x>>[1] = x
  OBVIOUS
<1>4. all \in Seq(Replies) /\ Len(all) = b + 1 /\ all # <<>>
  BY <1>1, <1>3
<1>5. \A i \in 1..(b + 1) : all[i] = IF i =< b THEN l[i] ELSE <<x>>[i - b]
  BY <1>1, <1>3, ConcatProperties
<1>6. t \in Seq(Replies) /\ Len(t) = b /\ Head(all) = all[1] /\ \A i \in 1..b : t[i] = all[i + 1]
  BY <1>1, <1>4, HeadTailProperties
<1>7. e \in Seq(Decodings) /\ Len(e) = a + 1 /\ e[a + 1] = d /\ \A i \in 1..a : e[i] = g[i]
  BY <1>1, AppendProperties
<1> HIDE DEF t, e
<1>8. /\ h \in Seq(Places) /\ Len(h) = (a + 1) + b
      /\ \A i \in 1..(a + 1) : h[i] = e[i]
      /\ \A i \in 1..b : h[(a + 1) + i] = t[i]
  <2>1. e \in Seq(Decodings) /\ t \in Seq(Replies) /\ Len(e) = a + 1 /\ Len(t) = b
    BY <1>6, <1>7
  <2>2. /\ h \in Seq(Places) /\ Len(h) = Len(e) + Len(t)
        /\ \A i \in 1..Len(e) : h[i] = e[i]
        /\ \A i \in 1..Len(t) : h[Len(e) + i] = t[i]
    BY <2>1, JoinShape
  <2> HIDE DEF h
  <2> QED BY <2>1, <2>2
<1> HIDE DEF a, b, f, t, e, h, all
<1>9. \A i \in 1..(b + 1) : all[i] = f[a + i]
  <2> SUFFICES ASSUME NEW i \in 1..(b + 1) PROVE all[i] = f[a + i]
    OBVIOUS
  <2>1. CASE i = b + 1
    <3>1. a \in Nat /\ b \in Nat
      BY <1>1
    <3>2. ~(i =< b) /\ i - b = 1 /\ a + i = a + b + 1
      BY <2>1, <3>1
    <3> QED BY <1>2, <1>3, <1>5, <3>2
  <2>2. CASE i # b + 1
    <3>1. i \in 1..b /\ a + i \in 1..(a + b) /\ i =< b
      BY <1>1, <2>2
    <3> QED BY <1>1, <1>2, <1>5, <3>1
  <2> QED BY <2>1, <2>2
<1>10. f[a + 1].reg = d.reg /\ f[a + 1].comp = d.comp
  <2>1. 1 \in 1..(b + 1)
    BY <1>1
  <2>2. all[1] = f[a + 1]
    BY <1>9, <2>1
  <2> QED BY <1>6, <2>2 DEF all
<1>11. ASSUME NEW i \in 1..Len(h) PROVE f[i].reg = h[i].reg /\ f[i].comp = h[i].comp
  <2>1. CASE i =< a
    <3>1. i \in 1..a /\ i \in 1..(a + 1) /\ i \in 1..(a + b)
      BY <1>1, <2>1
    <3> QED BY <1>1, <1>2, <1>7, <1>8, <3>1
  <2>2. CASE i = a + 1
    <3>1. i \in 1..(a + 1)
      BY <1>1, <2>2
    <3> QED BY <1>7, <1>8, <1>10, <2>2, <3>1
  <2>3. CASE i > a + 1
    <3> DEFINE k == i - (a + 1)
    <3>1. k \in 1..b /\ i = (a + 1) + k /\ k + 1 \in 1..(b + 1) /\ i = a + (k + 1)
      BY <1>1, <1>8, <2>3
    <3>2. h[i] = t[k] /\ t[k] = all[k + 1] /\ all[k + 1] = f[i]
      BY <1>6, <1>8, <1>9, <3>1
    <3> QED BY <3>2
  <2> QED BY <1>1, <2>1, <2>2, <2>3
<1>12. Within(h, f)
  <2>1. 0 \in Nat /\ Len(f) = 0 + Len(h) /\ \A i \in 1..Len(h) : 0 + i = i
    BY <1>1, <1>2, <1>8
  <2> QED BY ZenonT(60), <1>11, <2>1 DEF Within
<1>13. a + 1 =< Len(f)
  BY <1>1, <1>2
<1>14. ASSUME NEW i \in 1..(a + 1) PROVE f[i].reg = e[i].reg /\ f[i].comp = e[i].comp
  <2>1. i \in 1..Len(h) /\ h[i] = e[i]
    BY <1>1, <1>8
  <2> QED BY <1>11, <2>1
<1> QED BY <1>8, <1>12, <1>13, <1>14 DEF a, f, h, e, t, all

\* A reply that carries a value has the type of the component it is of.
WellKinded(x) == x.kind \in DataTypes => x.kind = DataType(x.reg, x.comp)

LEMMA AnswerKinded ==
  ASSUME TypeOK, NEW p \in Callers
  PROVE  /\ WellKinded(Answer(op[p])) /\ WellKinded(Refusal(op[p]))
         /\ Answer(op[p]).reg = op[p].reg /\ Answer(op[p]).comp = op[p].at
         /\ Refusal(op[p]).reg = op[p].reg /\ Refusal(op[p]).comp = op[p].at
<1>1. CASE op[p].do = "read"
  BY <1>1 DEF Answer, Refusal, WellKinded, DataTypes
<1>2. CASE op[p].do # "read"
  BY <1>2 DEF Answer, Refusal, WellKinded, DataTypes
<1> QED BY <1>1, <1>2

LEMMA ExchangeKinded ==
  ASSUME TypeOK, Kinded, NEW p \in Callers, NEW s \in Answers(op[p]), NEW reply, Exchange(s, reply)
  PROVE  Kinded' /\ WellKinded(reply)
<1> DEFINE all == late \o s
<1>1. late \in Seq(Replies) /\ s \in Seq(Replies)
  BY AnswerType DEF TypeOK
<1>2. ASSUME NEW i \in DOMAIN s PROVE WellKinded(s[i])
  BY <1>2, AnswerType, AnswerKinded
<1>3. /\ all \in Seq(Replies) /\ Len(late) \in Nat /\ Len(s) \in Nat
      /\ Len(all) = Len(late) + Len(s) /\ DOMAIN all = 1..Len(all)
      /\ DOMAIN late = 1..Len(late) /\ DOMAIN s = 1..Len(s)
      /\ \A i \in 1..(Len(late) + Len(s)) : all[i] = IF i =< Len(late) THEN late[i] ELSE s[i - Len(late)]
  BY <1>1, ConcatProperties, LenProperties
<1> HIDE DEF all
<1>4. ASSUME NEW i \in 1..Len(all) PROVE WellKinded(all[i])
  <2>1. CASE i =< Len(late)
    <3>1. i \in DOMAIN late /\ all[i] = late[i]
      BY <1>3, <2>1
    <3> QED BY <3>1 DEF Kinded, WellKinded
  <2>2. CASE ~(i =< Len(late))
    <3>1. i - Len(late) \in DOMAIN s /\ all[i] = s[i - Len(late)]
      BY <1>3, <2>2
    <3> QED BY <1>2, <3>1
  <2> QED BY <2>1, <2>2
<1>5. CASE all # <<>> /\ reply = Head(all) /\ late' = Tail(all)
  <2>1. /\ reply = all[1] /\ Len(all) \in Nat /\ Len(all) >= 1
        /\ DOMAIN late' = 1..(Len(all) - 1) /\ \A i \in 1..(Len(all) - 1) : late'[i] = all[i + 1]
    BY <1>3, <1>5, HeadTailProperties
  <2>2. \A i \in DOMAIN late' : late'[i] = all[i + 1] /\ i + 1 \in 1..Len(all)
    BY <2>1
  <2>3. WellKinded(reply)
    BY <1>4, <2>1
  <2>4. \A i \in DOMAIN late' : WellKinded(late'[i])
    BY <1>4, <2>2
  <2> QED BY <2>3, <2>4 DEF Kinded, WellKinded
<1>6. CASE reply = NoReply /\ late' = all
  <2>1. WellKinded(NoReply)
    BY DEF WellKinded, NoReply, DataTypes
  <2>2. \A i \in DOMAIN late' : WellKinded(late'[i])
    BY <1>3, <1>4, <1>6
  <2> QED BY <1>6, <2>1, <2>2 DEF Kinded, WellKinded
<1> QED BY <1>5, <1>6, ExchangeShape DEF all

LEMMA KindedStep ==
  ASSUME TypeOK, Kinded, NEW p \in Callers, Step(p)
  PROVE  Kinded'
<1>1. CASE \/ \E r \in Registers : ReadRegister(p, r)
           \/ \E r \in Registers, e \in 0..(MaxExt + 1) : WriteRegister(p, r, e)
           \/ WrongType(p) \/ WriteUnsupported(p)
  <2>1. late' = late
    BY <1>1 DEF ReadRegister, WriteRegister, WrongType, WriteUnsupported
  <2> QED BY <2>1 DEF Kinded
<1>2. CASE \E s, reply : ReadsWith(p, s, reply)
  BY <1>2, ExchangeKinded DEF ReadsWith
<1>3. CASE \E s, reply : WritesWith(p, s, reply)
  BY <1>3, ExchangeKinded DEF WritesWith
<1> QED BY <1>1, <1>2, <1>3 DEF Step

\* The controller answers the access of p with x, and p finds reply.
Sends(p, s, reply, x) ==
  /\ s = <<x>> /\ x.reg = op[p].reg /\ x.comp = op[p].at
  /\ \/ reply = NoReply /\ late' = late \o <<x>>
     \/ reply = Head(late \o <<x>>) /\ late' = Tail(late \o <<x>>)

\* What the access of a goroutine whose requests are all answered adds to the stream.
LEMMA Sent ==
  ASSUME TypeOK, NEW p \in Callers, NEW s \in Answers(op[p]), NEW reply, Exchange(s, reply), ~lost'
  PROVE  \E x \in Replies : Sends(p, s, reply, x)
<1>1. s # <<>>
  BY DEF Exchange
<1>2. PICK x \in Replies : s = <<x>> /\ x.reg = op[p].reg /\ x.comp = op[p].at
  <2>1. CASE s = <<Answer(op[p])>>
    BY <2>1, AnswerType, AnswerKinded
  <2>2. CASE s = <<Refusal(op[p])>>
    BY <2>2, AnswerType, AnswerKinded
  <2> QED BY <1>1, <2>1, <2>2, AnswerType
<1>3. \/ reply = NoReply /\ late' = late \o s
      \/ reply = Head(late \o s) /\ late' = Tail(late \o s)
  BY ExchangeShape
<1> QED BY <1>2, <1>3 DEF Sends

\* What StreamInv says of one goroutine.
StreamOf(p) ==
  /\ Chained(Stream(p))
  /\ Active(p) /\ op[p].reg \in Positions /\ op[p].at =< Config => Ends(Stream(p), op[p])
  /\ Reads(p) /\ op[p].reg \in Positions /\ ~Collects(p) => Aligned(op[p].got)

LEMMA LateWithin ==
  ASSUME TypeOK, NEW p \in Callers
  PROVE  Within(late, Stream(p)) /\ <<>> \o late = late
<1>1. Collected(p) \in Seq(Decodings) /\ late \in Seq(Replies) /\ Stream(p) = Collected(p) \o late
  BY StreamType
<1> DEFINE k == Len(Collected(p))
<1>2. /\ k \in Nat /\ Len(Stream(p)) = k + Len(late)
      /\ \A i \in 1..Len(late) : Stream(p)[k + i] = late[i]
  BY <1>1, JoinShape
<1>3. Within(late, Stream(p))
  BY <1>2 DEF Within
<1> QED BY <1>1, <1>3

\* A call that begins, or returns before an access, leaves the replies that were late.
LEMMA StreamQuiet ==
  ASSUME TypeOK, NEW p \in Callers, StreamOf(p), late' = late, op'[p].got = <<>>,
         Active(p)' => op'[p].at = 1, op'[p].do # "readOK"
  PROVE  StreamOf(p)'
<1>1. Stream(p)' = late
  BY LateWithin DEF Stream
<1>2. late \in Seq(Places) /\ Stream(p) \in Seq(Places) /\ Len(late) \in Nat /\ DOMAIN late = 1..Len(late)
  BY StreamType DEF Places
<1>3. Chained(late)
  BY <1>2, LateWithin, WithinChained DEF StreamOf
<1>4. Active(p)' => Ends(late, op'[p])
  BY <1>2 DEF Ends
<1>5. Reads(p)' /\ op'[p].reg \in Positions => Collects(p)'
  BY Lengths DEF Reads, Collects, Active
<1>6. Chained(Stream(p)')
  BY <1>1, <1>3
<1>7. Active(p)' => Ends(Stream(p)', op'[p])
  BY <1>1, <1>4
<1> QED BY <1>5, <1>6, <1>7 DEF StreamOf, Chained, Ends

\* What the access of p adds to its stream.
LEMMA StreamSent ==
  ASSUME TypeOK, NEW p \in Callers, StreamOf(p), Active(p), NEW x \in Replies,
         x.reg = op[p].reg, x.comp = op[p].at
  PROVE  /\ Append(Stream(p), x) \in Seq(Places) /\ Chained(Append(Stream(p), x))
         /\ \A m : /\ op[p].reg \in Positions /\ op[p].at < Config
                   /\ m.reg = op[p].reg /\ m.at = op[p].at + 1
                   => Ends(Append(Stream(p), x), m)
<1>1. Stream(p) \in Seq(Places) /\ x \in Places /\ op[p].at \in Nat
  BY StreamType, OpType DEF Places
<1>2. Append(Stream(p), x) \in Seq(Places)
  BY <1>1, AppendProperties
<1>3. Chained(Append(Stream(p), x))
  <2>1. op[p].reg \in Positions /\ op[p].at = Config => Ends(Stream(p), op[p])
    BY <1>1, Lengths DEF StreamOf
  <2> QED BY <1>1, <2>1, SendChained DEF StreamOf
<1>4. ASSUME NEW m, op[p].reg \in Positions, op[p].at < Config, m.reg = op[p].reg, m.at = op[p].at + 1
      PROVE  Ends(Append(Stream(p), x), m)
  <2>1. Ends(Stream(p), op[p])
    <3>1. op[p].at =< Config
      <4>1. Config \in Nat /\ op[p].at \in Nat /\ op[p].at < Config
        BY <1>1, <1>4, Lengths
      <4> QED BY <4>1
    <3> QED BY <1>4, <3>1 DEF StreamOf
  <2> QED BY <1>1, <1>4, <2>1, SendEnds
<1> QED BY <1>2, <1>3, <1>4

\* After an access the stream is the replies left, unless p goes on collecting.
LEMMA StreamRest ==
  ASSUME TypeOK, NEW p \in Callers, StreamOf(p), Active(p), NEW x \in Replies,
         x.reg = op[p].reg, x.comp = op[p].at, late' \in Seq(Replies),
         late' = late \o <<x>> \/ late' = Tail(late \o <<x>>), ~Collects(p)'
  PROVE  /\ Chained(Stream(p)')
         /\ \A m : /\ op[p].reg \in Positions /\ op[p].at < Config
                   /\ m.reg = op[p].reg /\ m.at = op[p].at + 1
                   => Ends(Stream(p)', m)
<1>1. Stream(p)' = late' /\ late' \in Seq(Places)
  BY DEF Stream, Places
<1>2. Within(late', Append(Stream(p), x))
  BY StreamType, RestWithin
<1> QED BY <1>1, <1>2, StreamSent, WithinChained, WithinEnds

\* A position whose coordinates and Config were collected has the components in order.
LEMMA CollectedAligned ==
  ASSUME NEW g \in Seq(Decodings), Len(g) = Config - 1, NEW l \in Seq(Replies), NEW x \in Replies,
         NEW d \in Decodings, d.reg = Head(l \o <<x>>).reg, d.comp = Head(l \o <<x>>).comp,
         Chained(Append(g \o l, x)), d.reg \in Positions => d.comp = Config
  PROVE  Aligned(Append(g, d))
<1> DEFINE f == Append(g \o l, x)
           e == Append(g, d)
<1>1. /\ Len(g) + 1 =< Len(f)
      /\ \A i \in 1..(Len(g) + 1) : f[i].reg = e[i].reg /\ f[i].comp = e[i].comp
  BY TakeWithin
<1>2. Config \in Nat /\ Config >= 2 /\ Len(g) + 1 = Config
  BY Lengths
<1>3. e[Config] = d
  BY <1>2, AppendProperties
<1>4. f \in Seq(Places) /\ Len(f) \in Nat /\ DOMAIN f = 1..Len(f)
  <2>1. g \o l \in Seq(Places) /\ x \in Places
    BY JoinShape DEF Places
  <2>2. f \in Seq(Places)
    BY <2>1, AppendProperties
  <2> QED BY <2>2, LenProperties
<1> HIDE DEF f, e
<1> SUFFICES ASSUME d.reg \in Positions, NEW i \in 1..Config
             PROVE  e[i].comp = i /\ e[i].reg = e[1].reg
  BY <1>3 DEF Aligned, e
<1>5. f[Config].reg = d.reg /\ f[Config].comp = Config
  <2>1. Config \in 1..(Len(g) + 1)
    BY <1>2
  <2> QED BY <1>1, <1>3, <2>1
<1>6. ASSUME NEW k \in 1..Config PROVE e[k].comp = k /\ e[k].reg = d.reg
  <2>1. CASE k = Config
    BY <1>3, <2>1
  <2>2. CASE k # Config
    <3>1. k \in DOMAIN f /\ Config \in DOMAIN f /\ k < Config /\ Config - k < Config
      BY <1>1, <1>2, <1>4, <2>2
    <3>2. f[k].reg = f[Config].reg /\ f[k].comp = Config - (Config - k)
      BY <1>5, <3>1 DEF Chained, f
    <3>3. Config - (Config - k) = k /\ k \in 1..(Len(g) + 1)
      BY <1>2
    <3> QED BY <1>1, <1>5, <3>2, <3>3
  <2> QED BY <2>1, <2>2
<1>7. 1 \in 1..Config
  BY <1>2
<1> QED BY <1>6, <1>7

LEMMA StreamReads ==
  ASSUME TypeOK, TypeOK', Progress, Kinded, NEW p \in Callers, StreamOf(p), ~lost',
         NEW s, NEW reply, ReadsWith(p, s, reply)
  PROVE  StreamOf(p)'
<1> DEFINE r == op[p].reg
           got == op[p].got
           at == op[p].at
           d == Decoded(reply)
<1>1. op[p].do = "read" /\ Active(p) /\ Reads(p) /\ s \in Answers(op[p]) /\ Exchange(s, reply)
  BY DEF ReadsWith, Active, Reads
<1>0. PICK x \in Replies : Sends(p, s, reply, x)
  BY <1>1, Sent
<1>2. /\ x.reg = r /\ x.comp = at
      /\ \/ reply = NoReply /\ late' = late \o <<x>>
         \/ reply = Head(late \o <<x>>) /\ late' = Tail(late \o <<x>>)
  BY <1>0 DEF Sends
<1>3. /\ late' \in Seq(Replies) /\ got \in Seq(Decodings) /\ at \in Nat /\ Config \in Nat
      /\ op[p].len \in Nat /\ Len(got) \in Nat
  <2>1. got \in Seq(Decodings) /\ at \in Nat /\ op[p].len \in Nat
    BY OpType
  <2> QED BY <2>1, Lengths, LenProperties DEF TypeOK
<1>4. r \in Positions => Required(r) = Config /\ op[p].len >= Config
  <2>1. op[p].len = ReadLength(r)
    BY <1>1 DEF Progress
  <2>2. Required(r) =< ReadLength(r) /\ (r \in Positions => Required(r) = Config)
    BY Lengths
  <2> QED BY <2>1, <2>2
<1>5. /\ at =< Required(r) => Len(got) = at - 1
      /\ at > Required(r) => Len(got) >= Required(r)
  BY <1>1 DEF Progress
<1>6. /\ op'[p].reg = r
      /\ \/ op'[p].do = "readFailed"
         \/ at = op[p].len /\ op'[p].at = at /\ op'[p].do = "readOK"
         \/ at < op[p].len /\ op'[p].at = at + 1 /\ op'[p].do = "read"
  BY ReadsOp
<1>7. Active(p)' /\ op'[p].reg \in Positions /\ op'[p].at =< Config => Collects(p)'
  BY <1>6 DEF Active, Collects
<1>8. Collects(p)' => Collects(p) /\ at < Config /\ op'[p].at = at + 1 /\ op'[p].do = "read"
  <2> SUFFICES ASSUME Collects(p)' PROVE at < Config /\ op'[p].at = at + 1 /\ op'[p].do = "read" /\ r \in Positions
    BY <1>1, <1>3 DEF Collects
  <2>1. op'[p].do = "read" /\ op'[p].at =< Config /\ r \in Positions
    BY <1>6 DEF Collects
  <2>2. op'[p].at = at + 1
    BY <1>6, <2>1
  <2> QED BY <1>3, <2>1, <2>2
<1>9. ~Collects(p)' => Chained(Stream(p)')
  BY <1>1, <1>2, <1>3, StreamRest
<1>10. CASE Parses(p, reply)
  <2>1. /\ reply = Head(late \o <<x>>) /\ late' = Tail(late \o <<x>>)
        /\ reply.kind = DataType(r, at) /\ reply.kind \in DataTypes
    BY <1>2, <1>10, ParsedIsTaken, Taken
  <2>2. /\ d \in Decodings /\ op'[p].got = Append(got, d) /\ op'[p].do # "readFailed"
    BY <1>10, ReadsOp
  <2>3. d.reg = reply.reg /\ d.comp = reply.comp
    BY DEF Decoded
  <2> HIDE DEF d
  <2>4. CASE Collects(p)'
    <3>1. Collects(p) /\ at < Config /\ op'[p].at = at + 1 /\ Stream(p) = got \o late
      BY <1>8, <2>4 DEF Stream
    <3>2. Stream(p)' = Append(got, d) \o Tail(late \o <<x>>)
      BY <2>1, <2>2, <2>4 DEF Stream
    <3>3. Stream(p)' \in Seq(Places) /\ Within(Stream(p)', Append(Stream(p), x))
      <4>1. late \in Seq(Replies)
        BY StreamType
      <4>2. d.reg = Head(late \o <<x>>).reg /\ d.comp = Head(late \o <<x>>).comp
        BY <2>1, <2>3
      <4>3. LET h == Append(got, d) \o Tail(late \o <<x>>)  IN
            h \in Seq(Places) /\ Within(h, Append(got \o late, x))
        BY <1>3, <2>2, <4>1, <4>2, TakeWithin
      <4> QED BY <3>1, <3>2, <4>3
    <3>4. /\ Append(Stream(p), x) \in Seq(Places) /\ Chained(Append(Stream(p), x))
          /\ r \in Positions => Ends(Append(Stream(p), x), op'[p])
      BY <1>1, <1>2, <1>6, <3>1, StreamSent
    <3>5. Chained(Stream(p)')
      BY <3>3, <3>4, WithinChained
    <3>6. r \in Positions => Ends(Stream(p)', op'[p])
      BY <3>3, <3>4, WithinEnds
    <3> QED BY <1>6, <2>4, <3>5, <3>6 DEF StreamOf, Chained, Ends
  <2>5. CASE ~Collects(p)' /\ Collects(p)
    <3>1. at = Config /\ r \in Positions
      <4>1. at =< Config /\ r \in Positions
        BY <2>5 DEF Collects
      <4>2. CASE at = op[p].len
        BY <1>3, <1>4, <4>1, <4>2
      <4>3. CASE at # op[p].len
        <5>1. op'[p].at = at + 1 /\ op'[p].do = "read"
          BY <1>6, <2>2, <4>3
        <5>2. ~(at + 1 =< Config)
          BY <1>6, <2>5, <4>1, <5>1 DEF Collects
        <5> QED BY <1>3, <4>1, <5>2
      <4> QED BY <4>2, <4>3
    <3>2. Len(got) = Config - 1 /\ Stream(p) = got \o late
      <4>1. at =< Required(r)
        BY <1>3, <1>4, <3>1
      <4> QED BY <1>5, <2>5, <3>1, <4>1 DEF Stream
    <3>3. d.reg \in Positions => d.comp = Config
      <4>1. reply.kind = "STRING" /\ d.reg \in Registers
        BY <2>1, <2>2, <3>1, DataTypeIn DEF Registers, Decodings
      <4>2. DataType(reply.reg, reply.comp) = "STRING"
        BY <1>1, <2>1, <4>1, ExchangeKinded DEF WellKinded
      <4> QED BY <2>3, <4>1, <4>2, DataTypeIn
    <3>4. Chained(Append(got \o late, x))
      BY <1>1, <1>2, <3>2, StreamSent
    <3>5. Aligned(op'[p].got)
      BY <1>3, <2>1, <2>2, <2>3, <3>2, <3>3, <3>4, CollectedAligned, StreamType
    <3> QED BY <1>7, <1>9, <2>5, <3>5 DEF StreamOf, Aligned
  <2>6. CASE ~Collects(p)
    <3>1. ~Collects(p)'
      BY <1>8, <2>6
    <3>2. ASSUME r \in Positions PROVE Aligned(op'[p].got)
      <4>1. at > Config
        BY <1>1, <1>3, <2>6, <3>2 DEF Collects
      <4>2. Len(got) >= Config /\ Aligned(got)
        BY <1>1, <1>4, <1>5, <2>6, <3>2, <4>1 DEF StreamOf
      <4>3. \A i \in 1..Config : op'[p].got[i] = got[i]
        BY <1>3, <2>2, <4>2, AppendProperties
      <4>4. 1 \in 1..Config /\ Config \in 1..Config
        BY Lengths
      <4> QED BY <4>2, <4>3, <4>4 DEF Aligned
    <3> QED BY <1>6, <1>7, <1>9, <3>1, <3>2 DEF StreamOf, Aligned
  <2> QED BY <2>4, <2>5, <2>6
<1>11. CASE ~Parses(p, reply) /\ at > Required(r)
  <2>1. ~Collects(p)
    BY <1>3, <1>4, <1>11 DEF Collects
  <2>2. op'[p].got = got
    <3>1. ~(at =< Required(r))
      <4>1. Required(r) \in Nat
        BY Lengths
      <4> QED BY <1>3, <1>11, <4>1
    <3> QED BY <1>11, <3>1, ReadsOp
  <2>3. ~Collects(p)'
    BY <1>8, <2>1
  <2>4. r \in Positions => Aligned(got)
    BY <1>1, <2>1 DEF StreamOf
  <2> QED BY <1>6, <1>7, <1>9, <2>2, <2>3, <2>4 DEF StreamOf, Aligned
<1>12. CASE ~Parses(p, reply) /\ at =< Required(r)
  <2>1. op'[p].do = "readFailed"
    <3>1. ~(at > Required(r))
      <4>1. Required(r) \in Nat
        BY Lengths
      <4> QED BY <1>3, <1>12, <4>1
    <3> QED BY <1>12, <3>1, ReadsOp
  <2>2. ~Collects(p)' /\ ~Reads(p)' /\ ~Active(p)'
    BY <2>1 DEF Collects, Reads, Active
  <2> QED BY <1>9, <2>2 DEF StreamOf
<1> QED BY <1>10, <1>11, <1>12 DEF ReadsWith

LEMMA StreamWrites ==
  ASSUME TypeOK, TypeOK', NEW p \in Callers, StreamOf(p), ~lost',
         NEW s, NEW reply, WritesWith(p, s, reply)
  PROVE  StreamOf(p)'
<1>1. op[p].do = "write" /\ Active(p) /\ s \in Answers(op[p]) /\ Exchange(s, reply)
  BY DEF WritesWith, Active
<1>2. PICK x \in Replies :
        /\ x.reg = op[p].reg /\ x.comp = op[p].at
        /\ late' = late \o <<x>> \/ late' = Tail(late \o <<x>>)
  BY <1>1, Sent DEF Sends
<1>3. late' \in Seq(Replies) /\ op[p].at \in Nat /\ Config \in Nat
  BY OpType, Lengths DEF TypeOK
<1>4. /\ op'[p].reg = op[p].reg
      /\ \/ op'[p].do = "wrote" \/ op'[p].do = "writeFailed"
         \/ op'[p].do = "write" /\ op'[p].at = op[p].at + 1
  BY <1>1, WritesOp
<1>5. ~Collects(p)' /\ ~Reads(p)'
  BY <1>4 DEF Collects, Reads
<1>6. Chained(Stream(p)')
  BY <1>1, <1>2, <1>3, <1>5, StreamRest
<1>7. ASSUME Active(p)', op'[p].reg \in Positions, op'[p].at =< Config
      PROVE  Ends(Stream(p)', op'[p])
  <2>1. op'[p].at = op[p].at + 1
    BY <1>4, <1>7 DEF Active
  <2>2. op[p].at < Config
    BY <1>3, <1>7, <2>1
  <2> QED BY <1>1, <1>2, <1>3, <1>4, <1>5, <1>7, <2>1, <2>2, StreamRest
<1> QED BY <1>5, <1>6, <1>7 DEF StreamOf, Chained, Ends

LEMMA StreamStep ==
  ASSUME TypeOK, TypeOK', Progress, Kinded, StreamInv, NEW p \in Callers, Step(p)
  PROVE  StreamInv'
<1> SUFFICES ASSUME NEW q \in Callers, Lone(q)' PROVE StreamOf(q)'
  BY DEF StreamInv, StreamOf
<1>1. op'[p].do # "idle"
  <2>1. CASE \E s, reply : ReadsWith(p, s, reply)
    BY <2>1, ReadsOp
  <2>2. CASE \E s, reply : WritesWith(p, s, reply)
    BY <2>2, WritesOp
  <2> QED BY <2>1, <2>2, ReadRegisterOp, WriteRegisterOp, RejectedOp, FailOp DEF Step, WriteUnsupported
<1>2. q = p
  BY <1>1 DEF Lone, Others
<1>3. ~lost /\ ~lost' /\ \A x \in Others(p) : op[x].do = "idle"
  BY <1>2, HistoryStep, OthersKeep DEF Lone, Others
<1>4. StreamOf(p)
  BY <1>3 DEF StreamInv, StreamOf, Lone
<1>5. CASE \E r \in Registers : ReadRegister(p, r)
  <2>1. late' = late
    BY <1>5 DEF ReadRegister
  <2> QED BY <1>2, <1>4, <1>5, <2>1, ReadRegisterOp, StreamQuiet
<1>6. CASE \E r \in Registers, e \in 0..(MaxExt + 1) : WriteRegister(p, r, e)
  <2>1. late' = late
    BY <1>6 DEF WriteRegister
  <2> QED BY <1>2, <1>4, <1>6, <2>1, WriteRegisterOp, StreamQuiet
<1>7. CASE WrongType(p)
  <2>1. late' = late
    BY <1>7 DEF WrongType
  <2>2. op'[p].do = "rejected" /\ op'[p].got = <<>> /\ ~Active(p)'
    BY <1>7, RejectedOp DEF Active
  <2> QED BY <1>2, <1>4, <2>1, <2>2, StreamQuiet
<1>8. CASE WriteUnsupported(p)
  <2>1. late' = late
    BY <1>8 DEF WriteUnsupported
  <2>2. op'[p].do = "writeFailed" /\ op'[p].got = <<>> /\ ~Active(p)'
    BY <1>8, FailOp DEF WriteUnsupported, Active
  <2> QED BY <1>2, <1>4, <2>1, <2>2, StreamQuiet
<1>9. CASE \E s, reply : ReadsWith(p, s, reply)
  BY <1>2, <1>3, <1>4, <1>9, StreamReads
<1>10. CASE \E s, reply : WritesWith(p, s, reply)
  BY <1>2, <1>3, <1>4, <1>10, StreamWrites
<1> QED BY <1>5, <1>6, <1>7, <1>8, <1>9, <1>10 DEF Step

-----------------------------------------------------------------------------
(* The theorems.                                                             *)

LEMMA InitInv == Init => IInv
<1> SUFFICES ASSUME Init PROVE IInv
  OBVIOUS
<1>1. \A p \in Callers : op[p] = Idle
  BY DEF Init
<1>2. \A p \in Callers : op[p].do = "idle" /\ op[p].got = <<>> /\ op[p].at = 1 /\ op[p].len = 1
  <2>1. Idle.do = "idle" /\ Idle.got = <<>> /\ Idle.at = 1 /\ Idle.len = 1
    BY DEF Idle
  <2> QED BY <1>1, <2>1
<1>3. TypeOK
  <2>1. store \in [Registers -> [Components -> 0..MaxCalls]] /\ calls \in 0..MaxCalls
    BY DEF Init
  <2>2. late \in Seq(Replies) /\ Len(late) =< MaxLate
    BY DEF Init
  <2>3. op \in [Callers -> Ops]
    BY IdleType DEF Init
  <2>4. Len(<<>>) = 0
    OBVIOUS
  <2>5. \A p \in Callers : op[p].at =< op[p].len /\ Len(op[p].got) =< op[p].len
    <3>1. 0 =< 1 /\ 1 =< 1
      OBVIOUS
    <3> QED BY <1>2, <2>4, <3>1, Zenon
  <2>6. writable \in Clients /\ torn \subseteq Registers /\ astray \in BOOLEAN /\ lost \in BOOLEAN
    BY DEF Init
  <2> QED BY <2>1, <2>2, <2>3, <2>5, <2>6 DEF TypeOK
<1>4. Progress /\ AloneInv /\ WrittenIsStored /\ ReaderInv
  BY <1>2 DEF Progress, AloneInv, WrittenIsStored, ReaderInv, Reads
<1>5. WriterInv /\ Layered
  <2>1. \A r \in Registers, c \in Components : store[r][c] = 0
    BY DEF Init
  <2>2. Positions \subseteq Registers /\ calls = 0
    BY DEF Init, Registers
  <2> QED BY <1>2, <2>1, <2>2 DEF WriterInv, Layered
<1>6. Kinded
  BY DEF Init, Kinded
<1>7. StreamInv
  <2>1. \A p \in Callers : Stream(p) = <<>>
    <3>1. \A p \in Callers : ~Collects(p)
      BY <1>2 DEF Collects
    <3>2. late = <<>> /\ <<>> \o <<>> = <<>>
      BY DEF Init
    <3> QED BY <3>1, <3>2 DEF Stream
  <2>2. Chained(<<>>)
    BY DEF Chained
  <2> QED BY <1>2, <2>1, <2>2 DEF StreamInv, Active, Reads
<1> QED BY <1>3, <1>4, <1>5, <1>6, <1>7 DEF IInv

LEMMA QuietInv == IInv /\ UNCHANGED vars => IInv'
<1> SUFFICES ASSUME IInv, UNCHANGED vars PROVE IInv'
  OBVIOUS
<1>1. TypeOK' /\ Progress' /\ AloneInv' /\ WriterInv' /\ Layered' /\ WrittenIsStored'
  BY DEF IInv, vars, TypeOK, Progress, AloneInv, WriterInv, Layered, WrittenIsStored,
         Reads, Others, Writes
<1>2. ReaderInv' /\ Kinded'
  BY DEF IInv, vars, ReaderInv, Kinded, Reads, Exists
<1>3. StreamInv'
  <2>1. op' = op /\ late' = late /\ lost' = lost
    BY DEF vars
  <2>2. \A p \in Callers : Stream(p)' = Stream(p) /\ Lone(p)' = Lone(p) /\ Collects(p)' = Collects(p)
    BY <2>1 DEF Stream, Lone, Collects
  <2>3. \A p \in Callers : Chained(Stream(p)') = Chained(Stream(p))
    BY <2>2
  <2>4. \A p \in Callers : Active(p)' = Active(p) /\ Reads(p)' = Reads(p)
    BY <2>1 DEF Active, Reads
  <2>5. \A p \in Callers : Ends(Stream(p), op[p])' = Ends(Stream(p), op[p])
    BY <2>1, <2>2 DEF Ends
  <2>6. \A p \in Callers : Chained(Stream(p))' = Chained(Stream(p)) /\ Aligned(op[p].got)' = Aligned(op[p].got)
    BY <2>1, <2>2 DEF Chained, Aligned
  <2> QED BY <2>1, <2>2, <2>4, <2>5, <2>6 DEF IInv, StreamInv
<1> QED BY <1>1, <1>2, <1>3 DEF IInv

\* The strengthened invariant is inductive.
THEOREM Invariant == Spec => []IInv
<1>1. ASSUME IInv, [Next]_vars PROVE IInv'
  <2>1. ASSUME NEW p \in Callers, Step(p) PROVE IInv'
    <3>1. TypeOK'
      BY <1>1, <2>1, TypeStep DEF IInv
    <3>2. Progress' /\ AloneInv'
      BY <1>1, <2>1, ProgressStep, AloneStep DEF IInv
    <3>3. WriterInv' /\ Layered' /\ WrittenIsStored'
      BY <1>1, <2>1, WriterStep, LayeredStep, WrittenStep DEF IInv
    <3>4. ReaderInv'
      BY <1>1, <2>1, ReaderStep DEF IInv
    <3>5. Kinded' /\ StreamInv'
      BY <1>1, <2>1, <3>1, KindedStep, StreamStep DEF IInv
    <3> QED BY <3>1, <3>2, <3>3, <3>4, <3>5 DEF IInv
  <2> QED BY <1>1, <2>1, NextCases, QuietInv
<1> QED BY <1>1, InitInv, PTL DEF Spec

\* The variables keep their types, and no call goes past the last component it is for
\* (registers.go:204-262 and 265-329).
THEOREM TypeCorrect == Spec => []TypeOK
<1>1. IInv => TypeOK
  BY DEF IInv
<1> QED BY <1>1, Invariant, PTL

\* However writes of a position fail, or what of their replies is late, it holds components
\* that only get older from X on (registers.go:265-329).
THEOREM LayeredAlways == Spec => []Layered
<1>1. IInv => Layered
  BY DEF IInv
<1> QED BY <1>1, Invariant, PTL

\* A write that returned no error has stored every component (registers.go:265-329).
THEOREM WrittenAlways == Spec => []WrittenIsStored
<1>1. IInv => WrittenIsStored
  BY DEF IInv
<1> QED BY <1>1, Invariant, PTL

\* An undisturbed read returns the register, each value in its field (registers.go:204-262).
THEOREM SnapshotAlways == Spec => []ReadIsSnapshot
<1>1. IInv => ReadIsSnapshot
  BY Snapshot DEF IInv
<1> QED BY <1>1, Invariant, PTL

\* A lone goroutine whose replies are out of step never reads a position with its coordinates
\* shifted (registers.go:204-262).
THEOREM ConfigAlignsAlways == Spec => []ConfigAligns
<1>1. ASSUME IInv PROVE ConfigAligns
  <2> SUFFICES ASSUME NEW p \in Callers, op[p].do = "readOK", op[p].reg \in Positions,
                      op[p].got[Config].reg \in Positions, ~lost,
                      \A q \in Others(p) : op[q].do = "idle"
               PROVE  \A i \in 1..Config : op[p].got[i].comp = i /\ op[p].got[i].reg = op[p].got[1].reg
    BY DEF ConfigAligns
  <2>1. Reads(p) /\ ~Collects(p) /\ Lone(p)
    BY DEF Reads, Collects, Lone
  <2>2. Aligned(op[p].got)
    BY <1>1, <2>1 DEF IInv, StreamInv
  <2> QED BY <2>2 DEF Aligned
<1> QED BY <1>1, Invariant, PTL
=============================================================================
