------------------------------ MODULE CIPCodec ------------------------------
(***************************************************************************)
(* The bytes of CIP requests and responses: pkg/cpppo/cip.go, the          *)
(* conversions of WriteTag (plc.go) and those of util.go.                  *)
(*                                                                         *)
(* A byte takes Byte values, 256 in the code, so that uint16 and uint32    *)
(* are Byte^2 and Byte^4 wide and can be made small.  A message is a       *)
(* sequence of bytes.  A Go value is a record of its type and what it      *)
(* holds, as a sequence: a number has length one, a string any.            *)
(***************************************************************************)
EXTENDS Integers, Sequences

CONSTANTS
  Byte,        \* values of a byte
  Code,        \* the service, segment and data type codes, by name
  Float32bits  \* math.Float32bits on the float32 values used, all of them integers

Word == Byte * Byte
DWord == Word * Word
ReplyBit == Byte \div 2    \* 0x80

Services == {"ReadTag", "WriteTag"}
DataTypes == {"BOOL", "SINT", "INT", "DINT", "REAL", "DWORD", "STRING", "other"}

ASSUME CodecAssumption ==
  /\ Byte \in Nat /\ Byte >= 8 /\ Byte % 2 = 0
  /\ Code \in [Services \cup {"Symbolic"} \cup DataTypes -> 0..(Byte - 1)]
  /\ \A s, t \in DataTypes : Code[s] = Code[t] => s = t
  /\ Code["ReadTag"] # Code["WriteTag"] /\ \A s \in Services : Code[s] < ReplyBit
  /\ DOMAIN Float32bits \subseteq Int
  /\ \A x, y \in DOMAIN Float32bits :
       Float32bits[x] \in 0..(DWord - 1) /\ (Float32bits[x] = Float32bits[y] => x = y)

-----------------------------------------------------------------------------
(* encoding/binary, and Go's integer conversions                             *)

PutUint16(n) == <<n % Byte, (n \div Byte) % Byte>>
PutUint32(n) == PutUint16(n % Word) \o PutUint16(n \div Word)

Uint16(s) == s[1] + Byte * s[2]
Uint32(s) == Uint16(s) + Word * Uint16(SubSeq(s, 3, 4))

\* uint8(n), uint16(n), uint32(n) of a signed n, and back
Unsigned(n, range) == n % range
Signed(n, range) == IF n < range \div 2 THEN n ELSE n - range

Frombits(bits) == CHOOSE x \in DOMAIN Float32bits : Float32bits[x] = bits

-----------------------------------------------------------------------------
(* Requests                                                                  *)

\* Mutant of BuildCIPPath: a name of odd length is not padded.
BuildCIPPathUnpadded(name) ==
  IF name = <<>> THEN <<>> ELSE <<Code["Symbolic"], Len(name) % Byte>> \o name

\* Mutant of BuildCIPPath: a name that does not fit its length byte is cut to what does.
BuildCIPPathCut(name) ==
  LET fits == SubSeq(name, 1, IF Len(name) < Byte THEN Len(name) ELSE Byte - 1)
  IN  IF name = <<>> THEN <<>>
      ELSE <<Code["Symbolic"], Len(fits)>> \o fits \o IF Len(fits) % 2 # 0 THEN <<0>> ELSE <<>>

BuildCIPPath(name) ==
  IF name = <<>> THEN <<>>
  ELSE <<Code["Symbolic"], Len(name) % Byte>> \o name \o IF Len(name) % 2 # 0 THEN <<0>> ELSE <<>>

Words(path) == ((Len(path) + 1) \div 2) % Byte

BuildCIPReadRequest(name, elements) ==
  LET path == BuildCIPPath(name)
  IN  <<Code["ReadTag"], Words(path)>> \o path \o PutUint16(elements)

\* The number of elements is always 1.
BuildCIPWriteRequest(name, type, data) ==
  LET path == BuildCIPPath(name)
  IN  <<Code["WriteTag"], Words(path)>> \o path \o <<Code[type], 1>> \o data

\* The message SendRRData writes: the length field of its header, and what follows
\* the interface handle and the timeout, whose 6 bytes the length counts.
SendRRData(request) == [Length |-> (6 + Len(request)) % Word, data |-> request]

-----------------------------------------------------------------------------
(* Responses                                                                 *)

Value(go, v) == [go |-> go, v |-> v]
NoValue == Value("nil", <<>>)

Ok(value) == [err |-> "none", value |-> value]
Fail(err) == [err |-> err, value |-> NoValue]
\* A slice expression out of range ends the goroutine.
Panic == Fail("panic")

\* Any status but 0 is an error.
CIPStatusToError(status) == status # 0

ParseCIPResponse(response) ==
  IF Len(response) < 2 THEN Fail("response too short")
  ELSE IF response[1] < ReplyBit THEN Fail("not a response")
  ELSE IF CIPStatusToError(response[2]) THEN Fail("CIP error")
  ELSE Ok(Value("bytes", SubSeq(response, 3, Len(response))))

\* Bytes of data that ParseCIPReadResponse wants, the type and a byte it skips included.
Needed(type) ==
  CASE type \in {"BOOL", "SINT"} -> 3 [] type \in {"INT", "STRING"} -> 4
    [] type \in {"DINT", "REAL", "DWORD"} -> 6 [] OTHER -> 2

\* A conversion of bits to the number they spell, which is not math.Float32frombits.  The
\* number is a float32 and loses its bits past the 24th, which is left out here.
float32FromUint32(bits) == Value("float32", <<bits>>)

\* Mutant of String: what is there is returned, however much was announced.
StringCut(data) == Ok(Value("string", SubSeq(data, 5, Len(data))))

\* 4+length is a uint16: near its limit it wraps, before it is compared and used.
String(data) ==
  LET end == (4 + Uint16(SubSeq(data, 3, 4))) % Word
  IN  IF Len(data) < end THEN Fail("string data truncated")
      ELSE IF end < 4 THEN Panic
      ELSE Ok(Value("string", SubSeq(data, 5, end)))

\* The switch of ParseCIPReadResponse, when there are enough bytes.
ReadValue(type, data) ==
  LET d == SubSeq(data, 3, Len(data))
  IN  CASE type = "BOOL"   -> Ok(Value("bool", <<IF d[1] # 0 THEN 1 ELSE 0>>))
        [] type = "SINT"   -> Ok(Value("int8", <<Signed(d[1], Byte)>>))
        [] type = "INT"    -> Ok(Value("int16", <<Signed(Uint16(d), Word)>>))
        [] type = "DINT"   -> Ok(Value("int32", <<Signed(Uint32(d), DWord)>>))
        [] type = "REAL"   -> Ok(float32FromUint32(Uint32(d)))
        [] type = "DWORD"  -> Ok(Value("uint32", <<Uint32(d)>>))
        [] type = "STRING" -> String(data)
        [] OTHER           -> Ok(Value("bytes", d))

ParseCIPReadResponse(response, type) ==
  LET parsed == ParseCIPResponse(response)
      data   == parsed.value.v
  IN  IF parsed.err # "none" THEN parsed
      ELSE IF Len(data) < 2 THEN Fail("response data too short")
      ELSE IF data[1] # Code[type] THEN Fail("data type mismatch")
      ELSE IF Len(data) < Needed(type) THEN Fail("not enough data")
      ELSE ReadValue(type, data)

-----------------------------------------------------------------------------
(* Values                                                                    *)

\* The Go type that WriteTag asserts, for the types it converts.
GoType == [BOOL |-> "bool", SINT |-> "int8", INT |-> "int16", DINT |-> "int32", REAL |-> "float32"]

\* The numbers of a Go type
GoRange(go) ==
  CASE go = "bool"    -> {0, 1}
    [] go = "int8"    -> (-(Byte \div 2))..(Byte \div 2 - 1)
    [] go = "int16"   -> (-(Word \div 2))..(Word \div 2 - 1)
    [] go = "int32"   -> (-(DWord \div 2))..(DWord \div 2 - 1)
    [] go = "uint32"  -> 0..(DWord - 1)
    [] go = "float32" -> DOMAIN Float32bits

IsNumber(value) ==
  value.go \in {"bool", "int8", "int16", "int32", "uint32", "float32"} /\ value.v[1] \in GoRange(value.go)
  /\ value = Value(value.go, <<value.v[1]>>)

\* The bytes of a PLC's tag stand for this value: two's complement, the lowest byte first.
StandsFor(tag, value) ==
  LET n == value.v[1]
      Number(go, data) == IsNumber(value) /\ value.go = go /\ tag.data = data
  IN  CASE tag.type = "BOOL"   -> Number("bool", <<n>>)
        [] tag.type = "SINT"   -> Number("int8", <<n % Byte>>)
        [] tag.type = "INT"    -> Number("int16", PutUint16(n % Word))
        [] tag.type = "DINT"   -> Number("int32", PutUint32(n % DWord))
        [] tag.type = "DWORD"  -> Number("uint32", PutUint32(n))
        [] tag.type = "REAL"   -> Number("float32", PutUint32(Float32bits[n]))
        [] tag.type = "STRING" -> value = Value("string", tag.data)
        [] OTHER               -> FALSE

\* Mutant of WriteData: an int8 goes as a word.
WriteDataWide(type, v) ==
  CASE type = "BOOL" -> <<v>>
    [] type \in {"SINT", "INT"} -> PutUint16(Unsigned(v, Word))
    [] type = "DINT" -> PutUint32(Unsigned(v, DWord))
    [] type = "REAL" -> PutUint32(Float32bits[v])

\* What WriteTag makes of a value that has the type; a bool is 0 or 1.
WriteData(type, v) ==
  CASE type = "BOOL" -> <<v>>
    [] type = "SINT" -> <<Unsigned(v, Byte)>>
    [] type = "INT"  -> PutUint16(Unsigned(v, Word))
    [] type = "DINT" -> PutUint32(Unsigned(v, DWord))
    [] type = "REAL" -> PutUint32(Float32bits[v])

\* util.go
EncodeBool(v) == <<v>>
EncodeInt16(v) == PutUint16(Unsigned(v, Word))
EncodeInt32(v) == PutUint32(Unsigned(v, DWord))
EncodeFloat32(v) == PutUint32(Float32bits[v])

\* A decoder looks at the first bytes and wants no fewer than its width.
Decoded(data, width, go, v) ==
  IF Len(data) < width THEN Fail("not enough data to decode") ELSE Ok(Value(go, <<v>>))

DecodeBool(data) == Decoded(data, 1, "bool", IF data[1] # 0 THEN 1 ELSE 0)
\* Mutant of DecodeInt16: the value is not made signed.
DecodeUint16(data) == Decoded(data, 2, "int16", Uint16(data))
DecodeInt16(data) == Decoded(data, 2, "int16", Signed(Uint16(data), Word))
DecodeInt32(data) == Decoded(data, 4, "int32", Signed(Uint32(data), DWord))
DecodeFloat32(data) == Decoded(data, 4, "float32", Frombits(Uint32(data)))
=============================================================================
