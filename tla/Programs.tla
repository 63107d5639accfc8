------------------------------ MODULE Programs ------------------------------
(***************************************************************************)
(* Programs that access tags through the library: the command line tool    *)
(* (cmd/cpppo-go), the PLC example (examples/plc), and any other, which    *)
(* calls as it likes.  One of them runs, against the PLC of TagAccess.     *)
(*                                                                         *)
(* A program makes the accesses it has planned one after another.  An      *)
(* error ends it through log.Fatalf, which skips its deferred Close.  The  *)
(* mode "logs" of the tool, and its reads of PR registers, are left to     *)
(* LogConsumers and FanucRegisters.                                        *)
(***************************************************************************)
EXTENDS TagAccess

CONSTANTS
  Kinds,         \* which programs there are: "any", "example", "tool"
  CommandLines,  \* the flags the tool is started with
  Spells,        \* the integer that a text of -value spells, for those that do
  SpellsReal,    \* the float32 nearest to the number it spells, for those in their range
  RegisterTag,   \* the tag of the register of a type
  ExampleTags    \* the example's tags: counter, running and setPoint

\* Text that is no number: "true", and others.  The empty text is a flag not given.
Texts == DOMAIN Spells \cup DOMAIN SpellsReal \cup {"true", "TRUE", ""}

RegisterTypes == {"R", "DI", "DO", "AI", "AO", "GI", "GO", "UR", "SR", "VR"}

ASSUME ProgramsAssumption ==
  /\ Kinds \subseteq {"any", "example", "tool"}
  /\ \E u \in Users : Users = {u}
  /\ \A t \in DOMAIN Spells :
       /\ Spells[t] \in Int
       /\ Spells[t] \in DOMAIN Float32bits => t \in DOMAIN SpellsReal /\ SpellsReal[t] = Spells[t]
  /\ \A t \in DOMAIN SpellsReal : SpellsReal[t] \in DOMAIN Float32bits
  /\ RegisterTag \in [RegisterTypes -> Names]
  /\ ExampleTags \in Seq(Names) /\ Len(ExampleTags) = 3
  /\ "example" \in Kinds => 75 \in DOMAIN Float32bits
  /\ \A f \in CommandLines :
       /\ f.fanuc \in BOOLEAN /\ f.mode \in {"info", "read", "write", "??"}
       /\ f.tag \in Names /\ f.type \in DataTypes /\ f.value \in Texts
       /\ f.register \in BOOLEAN /\ f.regtype \in RegisterTypes \cup {"PR", "??"}
       /\ f.regtype = "PR" => f.mode # "read"

VARIABLES
  kind,   \* the program
  flags,  \* its flags
  pc,     \* where it is
  todo    \* the accesses it has yet to make

programVars == <<kind, flags, pc, todo>>

Me == CHOOSE u \in Users : TRUE

ProgramInit ==
  /\ Init
  /\ kind \in Kinds /\ flags \in CommandLines
  /\ kind # "tool" => flags = CHOOSE f \in CommandLines : TRUE
  /\ pc = "start" /\ todo = <<>>

Step(do, name, type, value) == [do |-> do, name |-> name, type |-> type, value |-> value]

-----------------------------------------------------------------------------
(* What the tool makes of its flags                                          *)

\* getRegisterDataType
RegisterDataType(regtype) ==
  CASE regtype \in {"R", "AI", "AO"}          -> "REAL"
    [] regtype \in {"DI", "DO", "GI", "GO"}   -> "BOOL"
    [] regtype \in {"UR", "SR", "VR"}         -> "STRING"

\* strconv.ParseFloat(_, 32), or ParseInt and ParseUint before their ranges are looked at
Parse(type) == IF type = "REAL" THEN SpellsReal ELSE Spells

GoName(type) == IF type = "DWORD" THEN "uint32" ELSE GoType[type]

\* Mutant of convertValue: int8 and int16 of the number, as from strconv.Atoi.
convertValueCut(text, type) ==
  CASE type = "BOOL"   -> {Value("bool", <<IF text \in {"true", "1"} THEN 1 ELSE 0>>)}
    [] type = "STRING" -> {Value("string", <<text>>)}
    [] type = "other"  -> {}
    [] OTHER           -> {Value(GoName(type), <<CASE type = "SINT" -> Signed(Spells[t] % Byte, Byte)
                                                   [] type = "INT"  -> Signed(Spells[t] % Word, Word)
                                                   [] OTHER         -> Parse(type)[t]>>) :
                             t \in {text} \cap DOMAIN Parse(type)}

\* The value of a text, if any: a number that is out of the range of its type is an error, a
\* REAL is rounded, and a BOOL is false unless it is "true" or "1".
convertValue(text, type) ==
  CASE type = "BOOL"   -> {Value("bool", <<IF text \in {"true", "1"} THEN 1 ELSE 0>>)}
    [] type = "STRING" -> {Value("string", <<text>>)}
    [] type = "other"  -> {}
    [] OTHER           -> {Value(GoName(type), <<n>>) :
                             n \in {Parse(type)[t] : t \in {text} \cap DOMAIN Parse(type)} \cap GoRange(GoName(type))}

\* The type that -value is converted to for a register.
ValueType(f) ==
  CASE f.regtype = "R" -> "REAL" [] f.regtype \in {"DI", "DO"} -> "BOOL" [] OTHER -> f.type

\* In standard mode a request without a path goes out, whatever the tag, and the reply is
\* not looked at; nor is it for ListIdentity.
StandardPlans(f) ==
  {<<Step(d, <<>>, "other", NoValue)>> : d \in
     CASE f.mode = "info" -> {"identity"}
       [] f.mode = "read" /\ f.tag # <<>> /\ f.type # "other" -> {"ReadTag"}
       [] f.mode = "write" /\ f.tag # <<>> /\ f.type # "other"
          /\ f.value # "" /\ convertValue(f.value, f.type) # {} -> {"WriteTag"}
       [] OTHER -> {}}

FanucPlans(f) ==
  CASE f.mode = "info" -> {<<>>}
    [] f.mode = "read" /\ f.register /\ f.regtype # "??" ->
         {<<Step("read", RegisterTag[f.regtype], RegisterDataType(f.regtype), NoValue)>>}
    [] f.mode = "read" /\ ~f.register /\ f.tag # <<>> /\ f.type # "other" ->
         {<<Step("read", f.tag, f.type, NoValue)>>}
    [] f.mode = "write" /\ f.register /\ f.value # "" /\ f.regtype \notin {"PR", "??"} ->
         {<<Step("write", RegisterTag[f.regtype], RegisterDataType(f.regtype), v)>> :
            v \in convertValue(f.value, ValueType(f))}
    [] f.mode = "write" /\ ~(f.register /\ f.value # "") /\ f.tag # <<>> /\ f.value # "" /\ f.type # "other" ->
         {<<Step("write", f.tag, f.type, v)>> : v \in convertValue(f.value, f.type)}
    [] OTHER -> {}

\* examples/plc
ExamplePlan ==
  LET setPoint == ExampleTags[3]
  IN  <<Step("read", ExampleTags[1], "DINT", NoValue), Step("read", ExampleTags[2], "BOOL", NoValue),
        Step("write", setPoint, "REAL", Value("float32", <<75>>)), Step("read", setPoint, "REAL", NoValue)>>

\* What the program goes on to do; nothing when it ends with log.Fatalf.
Plans ==
  CASE kind = "example" -> {ExamplePlan} [] kind = "tool" /\ flags.fanuc -> FanucPlans(flags) [] OTHER -> StandardPlans(flags)

-----------------------------------------------------------------------------
(* Running a program                                                         *)

Fatalf == pc' = "fatal" /\ todo' = <<>>

Connect ==
  /\ pc = "start" /\ kind # "any"
  /\ \/ NewClient(Me) /\ pc' = "dialled"
     \/ pc' = "fatal" /\ UNCHANGED vars
  /\ UNCHANGED <<kind, flags, todo>>

\* In standard mode nobody closes the connection when the registration fails.
Standard == kind = "tool" /\ ~flags.fanuc

Register ==
  /\ pc = "dialled"
  /\ \/ /\ NewPLCClient(Me)
        /\ IF client'[Me] = "registered" /\ Plans # {}
           THEN pc' = "running" /\ todo' \in Plans ELSE Fatalf
        /\ ~(Standard /\ client'[Me] = "closed")
     \/ Standard /\ "refuse" \in Faults /\ Fatalf /\ UNCHANGED vars
  /\ UNCHANGED <<kind, flags>>

\* SendRRData with two bytes, or ListIdentity: an error only when no reply comes.
Exchange(do) ==
  /\ Ready(Me)
  /\ LET seen == IF do = "identity" THEN NoAccess ELSE Seen(<<Code[do], 0>>)
     IN  \E res \in {Ok(NoValue), NoReply} :
           /\ res = NoReply => "lost" \in Faults
           /\ ~Servable(seen) /\ Returns(NoAccess, seen, 0, NoValue, res)
  /\ UNCHANGED <<tags, last>>

\* The example has its own copy of PLCClient, with the same ReadTag and WriteTag.
DoAccess(s) ==
  CASE s.do = "read"  -> ReadTag(Me, s.name, s.type)
    [] s.do = "write" -> WriteTag(Me, s.name, s.type, s.value) \/ WriteTagRejects(Me, s.type, s.value)
    [] OTHER          -> Exchange(s.do)

MakeAccess ==
  /\ pc = "running" /\ todo # <<>>
  /\ DoAccess(Head(todo))
  /\ UNCHANGED programVars

\* The access has returned: an error is fatal.
GoOn ==
  /\ pc = "running" /\ Resume
  /\ IF op.res.err = "none" THEN pc' = pc /\ todo' = Tail(todo) ELSE Fatalf
  /\ UNCHANGED <<kind, flags>>

\* The program returns from main, and runs its deferred Close.
Finish ==
  /\ pc = "running" /\ todo = <<>> /\ op = NoOp
  /\ Close(Me) /\ pc' = "done"
  /\ UNCHANGED <<kind, flags, todo>>

AnyProgram == kind = "any" /\ Next /\ UNCHANGED programVars

ProgramNext == AnyProgram \/ Connect \/ Register \/ MakeAccess \/ GoOn \/ Finish

ProgramSpec == ProgramInit /\ [][ProgramNext]_<<vars, programVars>>

-----------------------------------------------------------------------------
(* Properties                                                                *)

\* The tag and value that a command line of the tool asks to be written, as a reader of it
\* understands them: a text that spells a number is that number, whatever the type, but for a
\* REAL, which is the float32 nearest to it.
Target(f) == IF f.register THEN RegisterTag[f.regtype] ELSE f.tag
Meant(f, type) == IF type = "BOOL" THEN IF f.value \in {"true", "1"} THEN 1 ELSE 0 ELSE Parse(type)[f.value]

\* With -fanuc the tool changes no tag but the one it is told to, and that only to the value
\* its command line spells, never to one cut down to the type or the one of another tag; it
\* says "Write successful" and ends well only after the PLC has it (main.go:156-206).
WritesWhatItSays ==
  kind = "tool" /\ flags.fanuc =>
    LET Written(n) == LET meant == Meant(flags, tags[n].type)
                      IN  meant \in GoRange(GoName(tags[n].type)) /\ tags[n].data = WriteData(tags[n].type, meant)
    IN  /\ \A n \in DOMAIN tags :
             tags[n].data # Tags[n].data => flags.mode = "write" /\ n = Target(flags) /\ Written(n)
        /\ pc = "done" /\ flags.mode = "write" => Target(flags) \in DOMAIN tags /\ Written(Target(flags))
=============================================================================
