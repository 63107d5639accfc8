--------------------------- MODULE Programs_proofs ---------------------------
(***************************************************************************)
(* Proofs about Programs, and with it TagAccess and CIPCodec, for bytes of *)
(* any size, any codes, tags, values and command lines: what is encoded is *)
(* decoded to itself, what is asked for is understood, and what a program  *)
(* is told is what the PLC holds, which makes it a user of a TagStore.     *)
(*                                                                         *)
(* What says that a value is stored or read holds of plain names: the      *)
(* data type codes are above 0x7f, so names in ASCII are plain, and so are *)
(* all of less than 512 bytes (cip.go:154-230).                            *)
(***************************************************************************)
EXTENDS Programs, SequenceTheorems, TLAPS

-----------------------------------------------------------------------------
(* Arithmetic                                                              *)

LEMMA DivMod ==
  ASSUME NEW x \in Int, NEW b \in Nat \ {0}
  PROVE  x % b \in 0..(b - 1) /\ x \div b \in Int /\ x = b * (x \div b) + (x % b)
  OBVIOUS

LEMMA DivIs ==
  ASSUME NEW q \in Int, NEW b \in Nat \ {0}, NEW r \in 0..(b - 1)
  PROVE  (b * q + r) % b = r /\ (b * q + r) \div b = q
  OBVIOUS

LEMMA ModSmall ==
  ASSUME NEW b \in Nat \ {0}, NEW r \in 0..(b - 1)
  PROVE  r % b = r
  OBVIOUS

\* A number below b * b has two digits.
LEMMA TwoDigits ==
  ASSUME NEW b \in Nat \ {0}, NEW n \in 0..(b * b - 1)
  PROVE  /\ n % b \in 0..(b - 1) /\ n \div b \in 0..(b - 1)
         /\ (n % b) + b * (n \div b) = n
  <1>1. n \div b \in 0..(b - 1)
    OBVIOUS
  <1>2. b \in Nat \ {0} /\ n \in Int
    OBVIOUS
  <1>3. n % b \in 0..(b - 1) /\ n = b * (n \div b) + (n % b)
    BY <1>2, DivMod
  <1> QED BY <1>1, <1>3

LEMMA DigitsBound ==
  ASSUME NEW b \in Nat \ {0}, NEW x \in 0..(b - 1), NEW y \in 0..(b - 1)
  PROVE  x + b * y \in 0..(b * b - 1)
  <1>1. b * y =< b * (b - 1) /\ b * y \in Nat
    OBVIOUS
  <1> QED BY <1>1

\* Whether a number is odd survives a remainder by an even one.
LEMMA Parity ==
  ASSUME NEW h \in Nat \ {0}, NEW n \in Nat
  PROVE  (n % (2 * h)) % 2 = n % 2
  <1> DEFINE q == n \div (2 * h)
             r == n % (2 * h)
  <1>1. 2 * h \in Nat \ {0} /\ n \in Int
    OBVIOUS
  <1>2. q \in Int /\ r \in 0..(2 * h - 1) /\ n = (2 * h) * q + r
    BY <1>1, DivMod
  <1>3. n = 2 * (h * q) + r /\ h * q \in Int
    BY <1>2
  <1>4. ASSUME NEW k \in Int, n = 2 * k + r PROVE n % 2 = r % 2
    <2> HIDE DEF q, r
    <2>1. r % 2 \in 0..1 /\ r \div 2 \in Int /\ r = 2 * (r \div 2) + (r % 2)
      BY <1>2
    <2>2. n = 2 * (k + (r \div 2)) + (r % 2)
      BY <1>2, <1>4, <2>1
    <2> QED BY <2>1, <2>2, DivIs
  <1> QED BY <1>3, <1>4

\* Two's complement, there and back.
LEMMA Complement ==
  ASSUME NEW h \in Nat \ {0}, NEW r, r = 2 * h, NEW n \in (-h)..(h - 1)
  PROVE  n % r \in 0..(r - 1) /\ Signed(n % r, r) = n
  <1>1. r \div 2 = h
    OBVIOUS
  <1>2. CASE n >= 0
    <2>1. n % r = n
      BY <1>2
    <2> QED BY <1>1, <1>2, <2>1 DEF Signed
  <1>3. CASE n < 0
    <2>1. n % r = n + r
      BY <1>3
    <2> QED BY <1>1, <1>3, <2>1 DEF Signed
  <1> QED BY <1>2, <1>3

-----------------------------------------------------------------------------
(* Sequences                                                               *)

\* A part of a sequence, from m to n.
LEMMA Part ==
  ASSUME NEW S, NEW s \in Seq(S), NEW m \in Nat \ {0}, NEW n \in Nat, n =< Len(s), m =< n + 1
  PROVE  /\ SubSeq(s, m, n) \in Seq(S) /\ Len(SubSeq(s, m, n)) = (n - m) + 1
         /\ \A i \in 1..((n - m) + 1) : SubSeq(s, m, n)[i] = s[(m + i) - 1]
  <1>1. \A i \in m..n : s[i] \in S
    BY LenProperties, ElementOfSeq
  <1>2. m \in Int /\ n \in Int
    OBVIOUS
  <1>3. SubSeq(s, m, n) \in Seq(S) /\ Len(SubSeq(s, m, n)) = IF m =< n THEN (n - m) + 1 ELSE 0
    BY <1>1, <1>2, SubSeqProperties
  <1>4. \A i \in 1..((n - m) + 1) : SubSeq(s, m, n)[i] = s[(m + i) - 1]
    BY <1>1, <1>2, SubSeqProperties
  <1> QED BY <1>3, <1>4

LEMMA Joined ==
  ASSUME NEW S, NEW s \in Seq(S), NEW t \in Seq(S)
  PROVE  /\ s \o t \in Seq(S) /\ Len(s \o t) = Len(s) + Len(t)
         /\ \A i \in 1..Len(s) : (s \o t)[i] = s[i]
         /\ \A i \in 1..Len(t) : (s \o t)[Len(s) + i] = t[i]
  <1>1. Len(s) \in Nat /\ Len(t) \in Nat
    BY LenProperties
  <1>2. /\ s \o t \in Seq(S) /\ Len(s \o t) = Len(s) + Len(t)
        /\ \A i \in 1..(Len(s) + Len(t)) : (s \o t)[i] = IF i =< Len(s) THEN s[i] ELSE t[i - Len(s)]
    BY ConcatProperties
  <1>3. \A i \in 1..Len(s) : (s \o t)[i] = s[i]
    BY <1>1, <1>2
  <1>4. ASSUME NEW i \in 1..Len(t) PROVE (s \o t)[Len(s) + i] = t[i]
    <2>1. Len(s) + i \in 1..(Len(s) + Len(t)) /\ ~(Len(s) + i =< Len(s)) /\ (Len(s) + i) - Len(s) = i
      BY <1>1
    <2> QED BY <1>2, <2>1
  <1> QED BY <1>2, <1>3, <1>4

\* The parts of what has been joined.
LEMMA Parts ==
  ASSUME NEW S, NEW s \in Seq(S), NEW t \in Seq(S)
  PROVE  SubSeq(s \o t, 1, Len(s)) = s /\ SubSeq(s \o t, Len(s) + 1, Len(s) + Len(t)) = t
  <1>1. Len(s) \in Nat /\ Len(t) \in Nat
    BY LenProperties
  <1>2. /\ s \o t \in Seq(S) /\ Len(s \o t) = Len(s) + Len(t)
        /\ \A i \in 1..Len(s) : (s \o t)[i] = s[i]
        /\ \A i \in 1..Len(t) : (s \o t)[Len(s) + i] = t[i]
    BY Joined
  <1>3. SubSeq(s \o t, 1, Len(s)) = s
    <2> DEFINE p == SubSeq(s \o t, 1, Len(s))
    <2>1. p \in Seq(S) /\ Len(p) = (Len(s) - 1) + 1 /\ \A i \in 1..((Len(s) - 1) + 1) : p[i] = (s \o t)[(1 + i) - 1]
      BY <1>1, <1>2, Part
    <2>2. \A i \in 1..Len(s) : (1 + i) - 1 = i
      BY <1>1
    <2>3. Len(p) = Len(s) /\ \A i \in 1..Len(s) : p[i] = s[i]
      BY <1>1, <1>2, <2>1, <2>2
    <2> QED BY <2>1, <2>3, SeqEqual
  <1>4. SubSeq(s \o t, Len(s) + 1, Len(s) + Len(t)) = t
    <2> DEFINE m == Len(s) + 1
               n == Len(s) + Len(t)
               p == SubSeq(s \o t, m, n)
    <2>1. m \in Nat \ {0} /\ n \in Nat /\ n =< Len(s \o t) /\ m =< n + 1 /\ (n - m) + 1 = Len(t)
      BY <1>1, <1>2
    <2>2. p \in Seq(S) /\ Len(p) = Len(t) /\ \A i \in 1..Len(t) : p[i] = (s \o t)[(m + i) - 1]
      BY <1>2, <2>1, Part
    <2>3. \A i \in 1..Len(t) : (m + i) - 1 = Len(s) + i
      BY <1>1
    <2>4. \A i \in 1..Len(t) : p[i] = t[i]
      BY <1>2, <2>2, <2>3
    <2> QED BY <2>2, <2>4, SeqEqual
  <1> QED BY <1>3, <1>4

-----------------------------------------------------------------------------
(* Bytes                                                                   *)

Half == Byte \div 2

LEMMA Sizes ==
  /\ Byte \in Nat \ {0} /\ Byte >= 8 /\ Half \in Nat /\ Half >= 4 /\ Byte = 2 * Half
  /\ Word \in Nat /\ Word = Byte * Byte /\ Word >= 8 * Byte /\ Word = 2 * (Half * Byte)
  /\ Half * Byte \in Nat \ {0} /\ Word \in Nat \ {0} /\ Word \div 2 = Half * Byte
  /\ DWord \in Nat \ {0} /\ DWord = Word * Word /\ DWord = 2 * ((Half * Byte) * Word)
  /\ (Half * Byte) * Word \in Nat \ {0} /\ DWord \div 2 = (Half * Byte) * Word
  <1>1. Byte \in Nat \ {0} /\ Byte >= 8 /\ Half \in Nat /\ Half >= 4 /\ Byte = 2 * Half
    BY CodecAssumption DEF Half
  <1>2. Word \in Nat /\ Word = Byte * Byte /\ Word >= 8 * Byte
    BY <1>1 DEF Word
  <1>3. Half * Byte \in Nat \ {0} /\ Word = 2 * (Half * Byte)
    <2>1. Half * Byte >= 1
      BY <1>1
    <2>2. (2 * Half) * Byte = 2 * (Half * Byte)
      BY <1>1
    <2> QED BY <1>1, <1>2, <2>1, <2>2
  <1>4. ASSUME NEW k \in Nat \ {0} PROVE (2 * k) \div 2 = k
    BY <1>4
  <1>5. Word \in Nat \ {0} /\ Word \div 2 = Half * Byte
    BY <1>3, <1>4
  <1>6. ASSUME NEW k \in Nat \ {0}, NEW w \in Nat \ {0}, w = 2 * k
        PROVE  k * w \in Nat \ {0} /\ w * w \in Nat \ {0} /\ w * w = 2 * (k * w)
    <2>1. k * w >= 1 /\ w * w >= 1
      BY <1>6
    <2>2. (2 * k) * w = 2 * (k * w)
      BY <1>6
    <2> QED BY <1>6, <2>1, <2>2
  <1>7. (Half * Byte) * Word \in Nat \ {0} /\ DWord \in Nat \ {0} /\ DWord = 2 * ((Half * Byte) * Word)
    BY <1>3, <1>5, <1>6 DEF DWord
  <1>8. DWord \div 2 = (Half * Byte) * Word
    BY <1>4, <1>7
  <1> QED BY <1>1, <1>2, <1>3, <1>5, <1>7, <1>8 DEF DWord

\* What numbers are made of.
LEMMA Put16 ==
  ASSUME NEW n \in Nat
  PROVE  /\ PutUint16(n) \in Seq(Bytes) /\ Len(PutUint16(n)) = 2
         /\ PutUint16(n)[1] = n % Byte /\ PutUint16(n)[2] = (n \div Byte) % Byte
         /\ Uint16(PutUint16(n)) \in 0..(Word - 1)
         /\ n < Word => Uint16(PutUint16(n)) = n
  <1> DEFINE lo == n % Byte
             hi == (n \div Byte) % Byte
  <1>1. n \div Byte \in Int /\ lo \in 0..(Byte - 1)
    BY Sizes, DivMod
  <1>2. hi \in 0..(Byte - 1)
    BY <1>1, Sizes, DivMod
  <1>3. PutUint16(n) = <<lo, hi>>
    BY DEF PutUint16
  <1>4. Uint16(PutUint16(n)) = lo + Byte * hi
    BY <1>3 DEF Uint16
  <1> HIDE DEF lo, hi
  <1>5. lo + Byte * hi \in 0..(Word - 1)
    BY <1>1, <1>2, Sizes, DigitsBound
  <1>6. ASSUME n < Word PROVE lo + Byte * hi = n
    <2>1. n \in 0..(Byte * Byte - 1)
      BY <1>6, Sizes
    <2>2. n \div Byte \in 0..(Byte - 1) /\ (n % Byte) + Byte * (n \div Byte) = n
      BY <2>1, Sizes, TwoDigits
    <2>3. hi = n \div Byte
      BY <2>2, Sizes, ModSmall DEF hi
    <2> QED BY <2>2, <2>3 DEF lo
  <1>7. <<lo, hi>> \in Seq(Bytes) /\ Len(<<lo, hi>>) = 2 /\ <<lo, hi>>[1] = lo /\ <<lo, hi>>[2] = hi
    BY <1>1, <1>2 DEF Bytes
  <1> QED BY <1>3, <1>4, <1>5, <1>6, <1>7 DEF lo, hi

LEMMA Get16 ==
  ASSUME NEW s, s[1] \in Bytes, s[2] \in Bytes
  PROVE  Uint16(s) \in 0..(Word - 1)
  BY Sizes, DigitsBound DEF Uint16, Bytes

LEMMA Put32 ==
  ASSUME NEW n \in 0..(DWord - 1)
  PROVE  /\ PutUint32(n) \in Seq(Bytes) /\ Len(PutUint32(n)) = 4
         /\ Uint32(PutUint32(n)) = n
  <1> DEFINE lo == n % Word
             hi == n \div Word
             s  == PutUint16(lo) \o PutUint16(hi)
  <1>1. lo \in 0..(Word - 1) /\ hi \in 0..(Word - 1) /\ lo + Word * hi = n
    BY Sizes, TwoDigits
  <1> HIDE DEF lo, hi
  <1>2. /\ PutUint16(lo) \in Seq(Bytes) /\ Len(PutUint16(lo)) = 2 /\ Uint16(PutUint16(lo)) = lo
        /\ PutUint16(hi) \in Seq(Bytes) /\ Len(PutUint16(hi)) = 2 /\ Uint16(PutUint16(hi)) = hi
    BY <1>1, Put16, Sizes
  <1>3. /\ s \in Seq(Bytes) /\ Len(s) = 4
        /\ s[1] = PutUint16(lo)[1] /\ s[2] = PutUint16(lo)[2]
        /\ s[3] = PutUint16(hi)[1] /\ s[4] = PutUint16(hi)[2]
    BY <1>2, ConcatProperties
  <1>4. SubSeq(s, 3, 4)[1] = s[3] /\ SubSeq(s, 3, 4)[2] = s[4]
    <2>1. \A i \in 1..((4 - 3) + 1) : SubSeq(s, 3, 4)[i] = s[(3 + i) - 1]
      BY <1>3, Part
    <2>2. 1 \in 1..((4 - 3) + 1) /\ 2 \in 1..((4 - 3) + 1) /\ (3 + 1) - 1 = 3 /\ (3 + 2) - 1 = 4
      OBVIOUS
    <2> HIDE DEF s
    <2> QED BY <2>1, <2>2
  <1>5. Uint16(s) = lo /\ Uint16(SubSeq(s, 3, 4)) = hi
    BY <1>2, <1>3, <1>4 DEF Uint16
  <1>6. Uint32(s) = n
    BY <1>1, <1>5 DEF Uint32
  <1>7. PutUint32(n) = s
    BY DEF PutUint32, lo, hi
  <1> QED BY <1>3, <1>6, <1>7

-----------------------------------------------------------------------------
(* Values                                                                  *)

DataTypeOfGo == {"BOOL", "SINT", "INT", "DINT", "REAL"}

LEMMA GoTypes ==
  /\ DOMAIN GoType = DataTypeOfGo
  /\ GoType["BOOL"] = "bool" /\ GoType["SINT"] = "int8" /\ GoType["INT"] = "int16"
  /\ GoType["DINT"] = "int32" /\ GoType["REAL"] = "float32"
  BY DEF GoType, DataTypeOfGo

LEMMA Widths ==
  /\ Width("BOOL") = 1 /\ Width("SINT") = 1 /\ Width("INT") = 2
  /\ \A type : type \notin {"BOOL", "SINT", "INT"} => Width(type) = 4
  BY Zenon DEF Width

LEMMA NeededIs ==
  /\ Needed("BOOL") = 3 /\ Needed("SINT") = 3 /\ Needed("INT") = 4 /\ Needed("STRING") = 4
  /\ Needed("DINT") = 6 /\ Needed("REAL") = 6 /\ Needed("DWORD") = 6 /\ Needed("other") = 2
  BY Zenon DEF Needed

LEMMA Errors ==
  /\ \A e : Fail(e).err = e
  /\ \A value : Ok(value).err = "none" /\ Ok(value).value = value
  /\ \A go, v : Value(go, v).go = go /\ Value(go, v).v = v
  BY DEF Fail, Ok, Value

\* A number that has the Go type of its data type is sent as bytes that stand for it.
LEMMA Sent ==
  ASSUME NEW type \in DataTypeOfGo, NEW value, IsNumber(value), value.go = GoType[type]
  PROVE  /\ WriteData(type, value.v[1]) \in Seq(Bytes)
         /\ Len(WriteData(type, value.v[1])) = Width(type)
         /\ StandsFor([type |-> type, data |-> WriteData(type, value.v[1])], value)
  <1> DEFINE n == value.v[1]
  <1>1. n \in GoRange(value.go)
    BY DEF IsNumber
  <1> HIDE DEF n
  <1>2. ASSUME NEW b \in Bytes PROVE <<b>> \in Seq(Bytes) /\ Len(<<b>>) = 1
    OBVIOUS
  <1>3. CASE type = "BOOL"
    <2>1. n \in {0, 1} /\ n \in Bytes
      BY <1>1, <1>3, GoTypes, Sizes DEF GoRange, Bytes
    <2> QED BY <1>2, <1>3, <2>1, GoTypes DEF WriteData, Width, StandsFor, n
  <1>4. CASE type = "SINT"
    <2>1. n \in (-Half)..(Half - 1)
      BY <1>1, <1>4, GoTypes DEF GoRange, Half
    <2>2. n % Byte \in Bytes
      BY <2>1, Sizes, Complement DEF Bytes
    <2> QED BY <1>2, <1>4, <2>2, GoTypes DEF WriteData, Width, StandsFor, Unsigned, n
  <1>5. CASE type = "INT"
    <2>1. n \in (-(Half * Byte))..((Half * Byte) - 1)
      BY <1>1, <1>5, GoTypes, Sizes DEF GoRange
    <2>2. n % Word \in 0..(Word - 1)
      BY <2>1, Sizes, Complement
    <2>3. PutUint16(n % Word) \in Seq(Bytes) /\ Len(PutUint16(n % Word)) = 2
      BY <2>2, Sizes, Put16
    <2> QED BY <1>5, <2>3, GoTypes DEF WriteData, Width, StandsFor, Unsigned, n
  <1>6. CASE type = "DINT"
    <2>1. n \in (-((Half * Byte) * Word))..(((Half * Byte) * Word) - 1)
      BY <1>1, <1>6, GoTypes, Sizes DEF GoRange
    <2>2. n % DWord \in 0..(DWord - 1)
      BY <2>1, Sizes, Complement
    <2>3. PutUint32(n % DWord) \in Seq(Bytes) /\ Len(PutUint32(n % DWord)) = 4
      BY <2>2, Put32
    <2> QED BY <1>6, <2>3, GoTypes DEF WriteData, Width, StandsFor, Unsigned, n
  <1>7. CASE type = "REAL"
    <2>1. n \in DOMAIN Float32bits
      BY <1>1, <1>7, GoTypes DEF GoRange
    <2>2. Float32bits[n] \in 0..(DWord - 1)
      BY <2>1, CodecAssumption
    <2>3. PutUint32(Float32bits[n]) \in Seq(Bytes) /\ Len(PutUint32(Float32bits[n])) = 4
      BY <2>2, Put32
    <2> QED BY <1>7, <2>3, GoTypes DEF WriteData, Width, StandsFor, n
  <1> QED BY <1>3, <1>4, <1>5, <1>6, <1>7 DEF DataTypeOfGo

\* What stands for a number is decoded to it; of a REAL only its bits are.
LEMMA ReadBackNumber ==
  ASSUME NEW type \in {"BOOL", "SINT", "INT", "DINT", "DWORD"}, NEW value, NEW d, NEW data,
         StandsFor([type |-> type, data |-> d], value), SubSeq(data, 3, Len(data)) = d
  PROVE  ReadValue(type, data) = Ok(value)
  <1> DEFINE n == value.v[1]
  <1>1. IsNumber(value) /\ n \in GoRange(value.go) /\ value = Value(value.go, <<n>>)
    BY DEF StandsFor, IsNumber
  <1> HIDE DEF n
  <1>2. CASE type = "BOOL"
    <2>1. value.go = "bool" /\ d = <<n>>
      BY <1>2 DEF StandsFor, n
    <2>2. n \in {0, 1}
      BY <1>1, <2>1 DEF GoRange
    <2>3. (IF d[1] # 0 THEN 1 ELSE 0) = n
      BY <2>1, <2>2
    <2> QED BY <1>1, <1>2, <2>1, <2>3 DEF ReadValue
  <1>3. CASE type = "SINT"
    <2>1. value.go = "int8" /\ d = <<n % Byte>>
      BY <1>3 DEF StandsFor, n
    <2>2. n \in (-Half)..(Half - 1)
      BY <1>1, <2>1 DEF GoRange, Half
    <2>3. Signed(d[1], Byte) = n
      BY <2>1, <2>2, Sizes, Complement
    <2> QED BY <1>1, <1>3, <2>1, <2>3 DEF ReadValue
  <1>4. CASE type = "INT"
    <2>1. value.go = "int16" /\ d = PutUint16(n % Word)
      BY <1>4 DEF StandsFor, n
    <2>2. n \in (-(Half * Byte))..((Half * Byte) - 1)
      BY <1>1, <2>1, Sizes DEF GoRange
    <2>3. n % Word \in 0..(Word - 1) /\ Signed(n % Word, Word) = n
      BY <2>2, Sizes, Complement
    <2>4. Uint16(d) = n % Word
      BY <2>1, <2>3, Sizes, Put16
    <2>5. Signed(Uint16(d), Word) = n
      BY <2>3, <2>4
    <2> QED BY <1>1, <1>4, <2>1, <2>5 DEF ReadValue
  <1>5. CASE type = "DINT"
    <2>1. value.go = "int32" /\ d = PutUint32(n % DWord)
      BY <1>5 DEF StandsFor, n
    <2>2. n \in (-((Half * Byte) * Word))..(((Half * Byte) * Word) - 1)
      BY <1>1, <2>1, Sizes DEF GoRange
    <2>3. n % DWord \in 0..(DWord - 1) /\ Signed(n % DWord, DWord) = n
      BY <2>2, Sizes, Complement
    <2>4. Uint32(d) = n % DWord
      BY <2>1, <2>3, Put32
    <2>5. Signed(Uint32(d), DWord) = n
      BY <2>3, <2>4
    <2> QED BY <1>1, <1>5, <2>1, <2>5 DEF ReadValue
  <1>6. CASE type = "DWORD"
    <2>1. value.go = "uint32" /\ d = PutUint32(n)
      BY <1>6 DEF StandsFor, n
    <2>2. n \in 0..(DWord - 1)
      BY <1>1, <2>1 DEF GoRange
    <2>3. Uint32(d) = n
      BY <2>1, <2>2, Put32
    <2> QED BY <1>1, <1>6, <2>1, <2>3 DEF ReadValue
  <1> QED BY <1>2, <1>3, <1>4, <1>5, <1>6

\* The helpers of util.go encode as WriteTag does, and decode what they encode.
LEMMA Helpers ==
  ASSUME NEW type \in DataTypeOfGo \ {"SINT"}, NEW value, IsNumber(value), value.go = GoType[type]
  PROVE  LET data == WriteData(type, value.v[1])
         IN  /\ Encode(type, value.v[1]) = data /\ Decode(type, data) = Ok(value)
             /\ Decode(type, Tail(data)).err # "none"
  <1> DEFINE n == value.v[1]
             data == WriteData(type, n)
  <1>1. n \in GoRange(value.go) /\ value = Value(value.go, <<n>>)
    BY DEF IsNumber
  <1>2. data \in Seq(Bytes) /\ Len(data) = Width(type) /\ StandsFor([type |-> type, data |-> data], value)
    BY Sent
  <1>3. Encode(type, n) = data
    BY GoTypes DEF Encode, EncodeBool, EncodeInt16, EncodeInt32, EncodeFloat32, WriteData, DataTypeOfGo
  <1> HIDE DEF n, data
  <1>4. Width(type) >= 1 /\ Len(Tail(data)) = Width(type) - 1
    <2>1. Width(type) \in Nat /\ Width(type) >= 1
      BY DEF Width
    <2>2. data # <<>>
      BY <1>2, <2>1
    <2> QED BY <1>2, <2>1, <2>2, HeadTailProperties
  <1>5. CASE type = "BOOL"
    <2>1. value.go = "bool" /\ data = <<n>>
      BY <1>5, GoTypes DEF data, WriteData
    <2>2. n \in {0, 1}
      BY <1>1, <2>1 DEF GoRange
    <2>3. DecodeBool(data) = Ok(value)
      BY <1>1, <2>1, <2>2 DEF DecodeBool, Decoded
    <2>4. DecodeBool(Tail(data)).err # "none"
      BY <1>4, <1>5 DEF DecodeBool, Decoded, Width, Fail
    <2> QED BY <1>3, <1>5, <2>3, <2>4 DEF Decode, n, data
  <1>6. CASE type = "INT"
    <2>1. value.go = "int16" /\ data = PutUint16(n % Word)
      BY <1>6, GoTypes DEF data, WriteData, Unsigned
    <2>2. n \in (-(Half * Byte))..((Half * Byte) - 1)
      BY <1>1, <2>1, Sizes DEF GoRange
    <2>3. n % Word \in 0..(Word - 1) /\ Signed(n % Word, Word) = n
      BY <2>2, Sizes, Complement
    <2>4. Uint16(data) = n % Word
      BY <2>1, <2>3, Sizes, Put16
    <2>5. DecodeInt16(data) = Ok(value)
      BY <1>1, <1>2, <1>6, <2>1, <2>3, <2>4 DEF DecodeInt16, Decoded, Width
    <2>6. DecodeInt16(Tail(data)).err # "none"
      <3>1. Len(Tail(data)) < 2
        BY <1>4, <1>6, Widths
      <3>2. DecodeInt16(Tail(data)) = Fail("not enough data to decode")
        BY <3>1 DEF DecodeInt16, Decoded
      <3> QED BY <3>2, Errors
    <2> QED BY <1>3, <1>6, <2>5, <2>6 DEF Decode, n, data
  <1>7. CASE type = "DINT"
    <2>1. value.go = "int32" /\ data = PutUint32(n % DWord)
      BY <1>7, GoTypes DEF data, WriteData, Unsigned
    <2>2. n \in (-((Half * Byte) * Word))..(((Half * Byte) * Word) - 1)
      BY <1>1, <2>1, Sizes DEF GoRange
    <2>3. n % DWord \in 0..(DWord - 1) /\ Signed(n % DWord, DWord) = n
      BY <2>2, Sizes, Complement
    <2>4. Uint32(data) = n % DWord
      BY <2>1, <2>3, Put32
    <2>5. DecodeInt32(data) = Ok(value)
      BY <1>1, <1>2, <1>7, <2>1, <2>3, <2>4 DEF DecodeInt32, Decoded, Width
    <2>6. DecodeInt32(Tail(data)).err # "none"
      <3>1. Len(Tail(data)) < 4
        BY <1>4, <1>7, Widths
      <3>2. DecodeInt32(Tail(data)) = Fail("not enough data to decode")
        BY <3>1 DEF DecodeInt32, Decoded
      <3> QED BY <3>2, Errors
    <2> QED BY <1>3, <1>7, <2>5, <2>6 DEF Decode, n, data
  <1>8. CASE type = "REAL"
    <2>1. value.go = "float32" /\ data = PutUint32(Float32bits[n])
      BY <1>8, GoTypes DEF data, WriteData
    <2>2. n \in DOMAIN Float32bits
      BY <1>1, <2>1 DEF GoRange
    <2>3. Float32bits[n] \in 0..(DWord - 1) /\ \A x \in DOMAIN Float32bits : Float32bits[x] = Float32bits[n] => x = n
      BY <2>2, CodecAssumption
    <2>4. Uint32(data) = Float32bits[n]
      BY <2>1, <2>3, Put32
    <2>5. Frombits(Float32bits[n]) = n
      BY <2>2, <2>3 DEF Frombits
    <2>6. DecodeFloat32(data) = Ok(value)
      BY <1>1, <1>2, <1>8, <2>1, <2>4, <2>5 DEF DecodeFloat32, Decoded, Width
    <2>7. DecodeFloat32(Tail(data)).err # "none"
      <3>1. Len(Tail(data)) < 4
        BY <1>4, <1>8, Widths
      <3>2. DecodeFloat32(Tail(data)) = Fail("not enough data to decode")
        BY <3>1 DEF DecodeFloat32, Decoded
      <3> QED BY <3>2, Errors
    <2> QED BY <1>3, <1>8, <2>6, <2>7 DEF Decode, n, data
  <1> QED BY <1>5, <1>6, <1>7, <1>8 DEF DataTypeOfGo

-----------------------------------------------------------------------------
(* Requests                                                                *)

LEMMA Codes ==
  /\ \A x \in Services \cup {"Symbolic"} \cup DataTypes : Code[x] \in Bytes
  /\ \A s \in Services : Code[s] + ReplyBit \in Bytes /\ Code[s] + ReplyBit >= ReplyBit
  <1>1. \A x \in Services \cup {"Symbolic"} \cup DataTypes : Code[x] \in Bytes
    BY CodecAssumption DEF Bytes
  <1>2. ReplyBit = Half
    BY DEF ReplyBit, Half
  <1>3. ASSUME NEW s \in Services PROVE Code[s] + ReplyBit \in Bytes /\ Code[s] + ReplyBit >= ReplyBit
    <2>1. Code[s] \in 0..(Byte - 1) /\ Code[s] < Half
      BY <1>1, <1>2, CodecAssumption DEF Bytes
    <2> QED BY <1>2, <2>1, Sizes DEF Bytes
  <1> QED BY <1>1, <1>3

\* Padded == the length of a name, made even
Padded(name) == Len(name) + (Len(name) % 2)

LEMMA Even ==
  ASSUME NEW name \in Seq(Bytes)
  PROVE  /\ Len(name) \in Nat /\ Len(name) % 2 \in {0, 1} /\ Padded(name) \in Nat
         /\ \E k \in Nat : Padded(name) = 2 * k
  <1>1. Len(name) \in Nat
    BY LenProperties
  <1>2. \A n \in Nat : n % 2 \in {0, 1} /\ \E k \in Nat : n + (n % 2) = 2 * k
    <2> TAKE n \in Nat
    <2>1. n % 2 \in 0..1 /\ n \div 2 \in Nat /\ n = 2 * (n \div 2) + (n % 2)
      OBVIOUS
    <2>2. CASE n % 2 = 0
      BY <2>1, <2>2
    <2>3. CASE n % 2 = 1
      <3>1. (n \div 2) + 1 \in Nat /\ n + (n % 2) = 2 * ((n \div 2) + 1)
        BY <2>1, <2>3
      <3>2. n % 2 \in {0, 1}
        BY <2>3
      <3> QED BY <3>1, <3>2
    <2> QED BY <2>1, <2>2, <2>3
  <1> QED BY <1>1, <1>2 DEF Padded

LEMMA PathShape ==
  ASSUME NEW name \in Seq(Bytes), name # <<>>
  PROVE  /\ BuildCIPPath(name) \in Seq(Bytes)
         /\ Len(BuildCIPPath(name)) = 2 + Padded(name)
         /\ BuildCIPPath(name)[1] = Code["Symbolic"]
         /\ BuildCIPPath(name)[2] = Len(name) % Byte
         /\ \A i \in 1..Len(name) : BuildCIPPath(name)[2 + i] = name[i]
         /\ SubSeq(BuildCIPPath(name), 3, 2 + Len(name)) = name
  <1> DEFINE head == <<Code["Symbolic"], Len(name) % Byte>>
             pad  == IF Len(name) % 2 # 0 THEN <<0>> ELSE <<>>
  <1>1. BuildCIPPath(name) = head \o name \o pad
    BY DEF BuildCIPPath
  <1>2. Len(name) \in Nat /\ Len(name) % Byte \in Bytes
    <2>1. Len(name) \in Nat /\ Len(name) \in Int
      BY LenProperties
    <2> QED BY <2>1, Sizes, DivMod DEF Bytes
  <1>3. head \in Seq(Bytes) /\ Len(head) = 2 /\ head[1] = Code["Symbolic"] /\ head[2] = Len(name) % Byte
    BY <1>2, Codes
  <1>4. pad \in Seq(Bytes) /\ Len(pad) = Len(name) % 2
    <2>1. 0 \in Bytes
      BY Sizes DEF Bytes
    <2> QED BY <2>1, Even
  <1> HIDE DEF head, pad
  <1>5. /\ head \o name \in Seq(Bytes) /\ Len(head \o name) = 2 + Len(name)
        /\ (head \o name)[1] = head[1] /\ (head \o name)[2] = head[2]
        /\ \A i \in 1..Len(name) : (head \o name)[2 + i] = name[i]
    <2>1. /\ head \o name \in Seq(Bytes) /\ Len(head \o name) = Len(head) + Len(name)
          /\ \A i \in 1..Len(head) : (head \o name)[i] = head[i]
          /\ \A i \in 1..Len(name) : (head \o name)[Len(head) + i] = name[i]
      <3>1. head \in Seq(Bytes)
        BY <1>3
      <3> QED BY ONLY <3>1, name \in Seq(Bytes), Joined
    <2>2. 1 \in 1..Len(head) /\ 2 \in 1..Len(head)
      BY <1>3
    <2> QED BY <1>3, <2>1, <2>2
  <1>6. /\ (head \o name) \o pad \in Seq(Bytes)
        /\ Len((head \o name) \o pad) = (2 + Len(name)) + (Len(name) % 2)
        /\ \A i \in 1..(2 + Len(name)) : ((head \o name) \o pad)[i] = (head \o name)[i]
    BY <1>4, <1>5, Joined
  <1>7. /\ 1 \in 1..(2 + Len(name)) /\ 2 \in 1..(2 + Len(name))
        /\ \A i \in 1..Len(name) : 2 + i \in 1..(2 + Len(name))
        /\ (2 + Len(name)) + (Len(name) % 2) = 2 + Padded(name)
    BY <1>2, Even DEF Padded
  <1>8. \A i \in 1..Len(name) : BuildCIPPath(name)[2 + i] = name[i]
    BY <1>1, <1>5, <1>6, <1>7
  <1>9. /\ BuildCIPPath(name) \in Seq(Bytes) /\ Len(BuildCIPPath(name)) = 2 + Padded(name)
        /\ BuildCIPPath(name)[1] = Code["Symbolic"] /\ BuildCIPPath(name)[2] = Len(name) % Byte
    BY <1>1, <1>3, <1>5, <1>6, <1>7
  <1>10. SubSeq(BuildCIPPath(name), 3, 2 + Len(name)) = name
    <2> DEFINE p == SubSeq(BuildCIPPath(name), 3, 2 + Len(name))
    <2>1. 2 + Len(name) =< Len(BuildCIPPath(name)) /\ 3 =< (2 + Len(name)) + 1 /\ 3 \in Nat \ {0} /\ 2 + Len(name) \in Nat
      BY <1>2, <1>9, Even DEF Padded
    <2>2. /\ p \in Seq(Bytes) /\ Len(p) = ((2 + Len(name)) - 3) + 1
          /\ \A i \in 1..(((2 + Len(name)) - 3) + 1) : p[i] = BuildCIPPath(name)[(3 + i) - 1]
      BY <1>9, <2>1, Part
    <2>3. ((2 + Len(name)) - 3) + 1 = Len(name) /\ \A i \in 1..Len(name) : (3 + i) - 1 = 2 + i
      BY <1>2
    <2>4. Len(p) = Len(name) /\ \A i \in 1..Len(p) : p[i] = name[i]
      BY <1>8, <2>2, <2>3
    <2> QED BY <2>2, <2>4, SeqEqual
  <1> QED BY <1>8, <1>9, <1>10

\* What a service, a path and parameters become.
Request(service, name, params) == <<Code[service], Words(BuildCIPPath(name))>> \o BuildCIPPath(name) \o params

LEMMA RequestShape ==
  ASSUME NEW service \in Services, NEW name, NEW params \in Seq(Bytes), BuildCIPPath(name) \in Seq(Bytes)
  PROVE  LET path == BuildCIPPath(name)
             r    == Request(service, name, params)
         IN  /\ r \in Seq(Bytes) /\ Len(r) = (2 + Len(path)) + Len(params)
             /\ r[1] = Code[service] /\ r[2] = Words(path) /\ Words(path) \in Bytes
             /\ \A i \in 1..Len(path) : r[2 + i] = path[i]
             /\ SubSeq(r, 3, 2 + Len(path)) = path
             /\ SubSeq(r, (2 + Len(path)) + 1, Len(r)) = params
  <1> DEFINE path == BuildCIPPath(name)
             head == <<Code[service], Words(path)>>
             r    == (head \o path) \o params
  <1>1. Len(path) \in Nat /\ Len(params) \in Nat
    BY LenProperties
  <1>2. Words(path) \in Bytes
    <2>1. (Len(path) + 1) \div 2 \in Int
      BY <1>1
    <2> QED BY <2>1, Sizes, DivMod DEF Words, Bytes
  <1>3. head \in Seq(Bytes) /\ Len(head) = 2 /\ head[1] = Code[service] /\ head[2] = Words(path)
    BY <1>2, Codes
  <1> HIDE DEF head, path
  <1>4. path \in Seq(Bytes)
    BY DEF path
  <1>5. /\ head \o path \in Seq(Bytes) /\ Len(head \o path) = 2 + Len(path)
        /\ \A i \in 1..2 : (head \o path)[i] = head[i]
        /\ \A i \in 1..Len(path) : (head \o path)[2 + i] = path[i]
    BY SMTT(30), <1>3, <1>4, Joined
  <1>6. /\ r \in Seq(Bytes) /\ Len(r) = (2 + Len(path)) + Len(params)
        /\ \A i \in 1..(2 + Len(path)) : r[i] = (head \o path)[i]
    BY <1>5, Joined
  <1>7. /\ SubSeq(r, 1, 2 + Len(path)) = head \o path
        /\ SubSeq(r, (2 + Len(path)) + 1, (2 + Len(path)) + Len(params)) = params
    BY <1>5, Parts
  <1>8. 1 \in 1..2 /\ 2 \in 1..2 /\ 1 \in 1..(2 + Len(path)) /\ 2 \in 1..(2 + Len(path))
        /\ \A i \in 1..Len(path) : 2 + i \in 1..(2 + Len(path))
    BY <1>1
  <1>9. r[1] = Code[service] /\ r[2] = Words(path) /\ \A i \in 1..Len(path) : r[2 + i] = path[i]
    BY <1>3, <1>5, <1>6, <1>8
  <1> HIDE DEF r
  <1>10. SubSeq(r, 3, 2 + Len(path)) = path
    <2> DEFINE p == SubSeq(r, 3, 2 + Len(path))
    <2>1. 3 \in Nat \ {0} /\ 2 + Len(path) \in Nat /\ 2 + Len(path) =< Len(r) /\ 3 =< (2 + Len(path)) + 1
      BY <1>1, <1>6
    <2>2. /\ p \in Seq(Bytes) /\ Len(p) = ((2 + Len(path)) - 3) + 1
          /\ \A i \in 1..(((2 + Len(path)) - 3) + 1) : p[i] = r[(3 + i) - 1]
      BY <1>6, <2>1, Part
    <2>3. ((2 + Len(path)) - 3) + 1 = Len(path) /\ \A i \in 1..Len(path) : (3 + i) - 1 = 2 + i
      BY <1>1
    <2>4. Len(p) = Len(path) /\ \A i \in 1..Len(p) : p[i] = path[i]
      BY <1>9, <2>2, <2>3
    <2> QED BY <1>4, <2>2, <2>4, SeqEqual
  <1>11. r = Request(service, name, params)
    BY DEF r, head, path, Request
  <1> QED BY <1>2, <1>6, <1>7, <1>9, <1>10, <1>11 DEF path

LEMMA PathWords ==
  ASSUME NEW name \in Seq(Bytes), name # <<>>, NEW k \in Nat, Padded(name) = 2 * k
  PROVE  Words(BuildCIPPath(name)) = (k + 1) % Byte
  <1>1. Len(BuildCIPPath(name)) = 2 + 2 * k
    BY PathShape
  <1>2. ((2 + 2 * k) + 1) \div 2 = k + 1
    OBVIOUS
  <1> QED BY <1>1, <1>2 DEF Words

\* A name that fits is found again in its path, and the parameters after it.
LEMMA SeenWell ==
  ASSUME NEW service \in Services, NEW name \in Seq(Bytes), Len(name) \in 1..(Byte - 1),
         NEW params \in Seq(Bytes), Len(params) =< 6
  PROVE  LET found == Requests(Code[service], name, params)
         IN  Seen(Request(service, name, params)) = IF found = {} THEN NoAccess ELSE CHOOSE a \in found : TRUE
  <1> DEFINE path == BuildCIPPath(name)
             r    == Request(service, name, params)
             L    == Len(name)
  <1>1. name # <<>> /\ L \in Nat /\ L % 2 \in {0, 1} /\ Len(params) \in Nat
    BY Even, LenProperties
  <1>2. PICK k \in Nat : Padded(name) = 2 * k
    BY Even
  <1>3. Padded(name) = L + (L % 2)
    BY DEF Padded
  <1> HIDE DEF L
  <1>4. L =< Byte - 1 /\ L >= 1
    BY DEF L
  <1>5. L % Byte = L
    <2>1. Byte \in Nat \ {0} /\ L \in 0..(Byte - 1)
      BY <1>1, <1>4, Sizes
    <2> QED BY <2>1, ModSmall
  <1>6. (k + 1) % Byte = k + 1 /\ 2 * k =< Byte
    <2>1. 2 * k =< 2 * Half /\ k + 1 \in 0..(Byte - 1)
      BY <1>1, <1>2, <1>3, <1>4, Sizes
    <2> QED BY <2>1, Sizes, ModSmall
  <1>7. /\ path \in Seq(Bytes) /\ Len(path) = 2 + 2 * k /\ path[1] = Code["Symbolic"] /\ path[2] = L
        /\ SubSeq(path, 3, 2 + L) = name /\ Words(path) = k + 1
    BY <1>1, <1>2, <1>5, <1>6, PathShape, PathWords DEF L
  <1>8. /\ Len(r) = (2 + Len(path)) + Len(params) /\ r[1] = Code[service] /\ r[2] = Words(path)
        /\ SubSeq(r, 3, 2 + Len(path)) = path /\ SubSeq(r, (2 + Len(path)) + 1, Len(r)) = params
    <2>1. BuildCIPPath(name) \in Seq(Bytes)
      BY <1>7
    <2> QED BY <2>1, RequestShape
  <1> HIDE DEF path, r
  <1>9. 2 + 2 * r[2] = 2 + Len(path)
    BY <1>7, <1>8
  <1>10. 2 + Len(path) =< Len(r)
    BY <1>1, <1>7, <1>8
  <1>11. (6 + Len(r)) % Word = 6 + Len(r)
    <2>1. Len(r) \in Nat /\ Len(r) =< (4 + Byte) + 6
      <3>1. Len(path) =< 2 + Byte /\ Len(path) \in Nat
        BY <1>6, <1>7, Sizes
      <3> QED BY <1>1, <1>8, <3>1, Sizes
    <2>2. 6 + Len(r) \in 0..(Word - 1)
      BY <2>1, Sizes
    <2> QED BY <2>2, Sizes, ModSmall
  <1>12. IsPath(path) /\ PathName(path) = name
    BY <1>1, <1>2, <1>3, <1>7 DEF IsPath, PathName
  <1>13. SendRRData(r).Length = (6 + Len(r)) % Word
    BY DEF SendRRData
  <1>14. SubSeq(r, 3, 2 + 2 * r[2]) = path /\ SubSeq(r, (2 + 2 * r[2]) + 1, Len(r)) = params
    BY <1>8, <1>9
  <1>15. SendRRData(r).Length = 6 + Len(r) /\ 2 + 2 * r[2] =< Len(r) /\ IsPath(SubSeq(r, 3, 2 + 2 * r[2]))
    BY <1>9, <1>10, <1>11, <1>12, <1>13, <1>14
  <1>16. Seen(r) = LET found == Requests(r[1], PathName(SubSeq(r, 3, 2 + 2 * r[2])),
                                         SubSeq(r, (2 + 2 * r[2]) + 1, Len(r)))
                   IN  IF found = {} THEN NoAccess ELSE CHOOSE a \in found : TRUE
    BY <1>15 DEF Seen
  <1>17. Requests(r[1], PathName(SubSeq(r, 3, 2 + 2 * r[2])), SubSeq(r, (2 + 2 * r[2]) + 1, Len(r)))
           = Requests(Code[service], name, params)
    BY <1>8, <1>12, <1>14
  <1> QED BY <1>16, <1>17 DEF r

\* The parameters of a read, and of a write, say what they are.
LEMMA ReadRequests ==
  /\ PutUint16(1) \in Seq(Bytes) /\ Len(PutUint16(1)) = 2
  /\ \A name : Requests(Code["ReadTag"], name, PutUint16(1)) = {Access("read", name, "other", <<>>)}
  <1>1. PutUint16(1) \in Seq(Bytes) /\ Len(PutUint16(1)) = 2 /\ Uint16(PutUint16(1)) = 1
    BY Sizes, Put16
  <1>2. Code["ReadTag"] # Code["WriteTag"]
    BY CodecAssumption
  <1> QED BY <1>1, <1>2 DEF Requests

LEMMA WriteRequests ==
  ASSUME NEW name, NEW type \in DataTypes \ {"other"}, NEW data \in Seq(Bytes), Len(data) = Width(type)
  PROVE  /\ <<Code[type], 1>> \o data \in Seq(Bytes) /\ Len(<<Code[type], 1>> \o data) = 2 + Width(type)
         /\ Requests(Code["WriteTag"], name, <<Code[type], 1>> \o data) = {Access("write", name, type, data)}
  <1> DEFINE p == <<Code[type], 1>> \o data
  <1>1. 1 \in Bytes /\ Code[type] \in Bytes
    BY Sizes, Codes DEF Bytes
  <1>2. <<Code[type], 1>> \in Seq(Bytes) /\ Len(<<Code[type], 1>>) = 2
    BY <1>1
  <1>3. Width(type) \in {1, 2, 4}
    BY Zenon DEF Width
  <1>4. /\ p \in Seq(Bytes) /\ Len(p) = 2 + Len(data) /\ p[1] = Code[type] /\ p[2] = 1
        /\ SubSeq(p, 3, Len(p)) = data
    <2>1. /\ p \in Seq(Bytes) /\ Len(p) = 2 + Len(data)
          /\ \A i \in 1..2 : p[i] = <<Code[type], 1>>[i]
      BY <1>2, Joined
    <2>2. SubSeq(p, 2 + 1, 2 + Len(data)) = data
      BY <1>2, Parts
    <2>3. 1 \in 1..2 /\ 2 \in 1..2 /\ 2 + 1 = 3
      OBVIOUS
    <2> HIDE DEF p
    <2> QED BY <2>1, <2>2, <2>3
  <1> HIDE DEF p
  <1>5. Code["ReadTag"] # Code["WriteTag"]
    BY CodecAssumption
  <1>6. \A t \in DataTypes : Code[type] = Code[t] => t = type
    BY CodecAssumption
  <1>7. /\ Len(p) > 2 /\ Len(p) - 2 = Width(type) * p[2]
    BY <1>3, <1>4
  <1>8. {a \in {Access("read", name, "other", <<>>)} :
           Code["WriteTag"] = Code["ReadTag"] /\ Len(p) = 2 /\ Uint16(p) = 1} = {}
    BY <1>5
  <1>9. ASSUME NEW a
        PROVE  (/\ a \in {Access("write", name, t, SubSeq(p, 3, Len(p))) : t \in DataTypes \ {"other"}}
                /\ Code["WriteTag"] = Code["WriteTag"] /\ Len(p) > 2
                /\ p[1] = Code[a.type] /\ Len(p) - 2 = Width(a.type) * p[2])
               <=> a = Access("write", name, type, data)
    <2>1. \A t : Access("write", name, t, data).type = t
      BY DEF Access
    <2>2. ASSUME NEW t \in DataTypes \ {"other"}, a = Access("write", name, t, SubSeq(p, 3, Len(p))),
                 p[1] = Code[a.type]
          PROVE  a = Access("write", name, type, data)
      <3>1. a.type = t /\ a = Access("write", name, t, data)
        BY <1>4, <2>1, <2>2
      <3> QED BY <1>4, <1>6, <2>2, <3>1
    <2>3. ASSUME a = Access("write", name, type, data)
          PROVE  /\ a \in {Access("write", name, t, SubSeq(p, 3, Len(p))) : t \in DataTypes \ {"other"}}
                 /\ p[1] = Code[a.type] /\ Len(p) - 2 = Width(a.type) * p[2]
      <3>1. a.type = type
        BY <2>1, <2>3
      <3> QED BY <1>4, <1>7, <2>3, <3>1
    <2> QED BY <1>7, <2>2, <2>3
  <1>10. Requests(Code["WriteTag"], name, p) = {Access("write", name, type, data)}
    BY <1>8, <1>9 DEF Requests
  <1> QED BY <1>4, <1>10 DEF p

\* A name that does not fit is not found at all: its length byte and the path size do not
\* agree, or what they leave over is neither a read nor a write.
LEMMA SeenIll ==
  ASSUME NEW service \in Services, NEW name \in Seq(Bytes), Len(name) \notin 1..(Byte - 1), Plain(name),
         NEW params \in Seq(Bytes), Len(params) >= 1
  PROVE  Seen(Request(service, name, params)) = NoAccess
  <1> DEFINE path == BuildCIPPath(name)
             r    == Request(service, name, params)
             w    == r[2]
             sub  == SubSeq(r, 3, 2 + 2 * w)
             rest == SubSeq(r, (2 + 2 * w) + 1, Len(r))
  <1>1. Seen(r) = LET found == IF SendRRData(r).Length = 6 + Len(r) /\ 2 + 2 * w =< Len(r) /\ IsPath(sub)
                               THEN Requests(r[1], PathName(sub), rest) ELSE {}
                  IN  IF found = {} THEN NoAccess ELSE CHOOSE a \in found : TRUE
    BY DEF Seen
  <1> SUFFICES ASSUME 2 + 2 * w =< Len(r), IsPath(sub) PROVE Requests(r[1], PathName(sub), rest) = {}
    <2> HIDE DEF r, w, sub, rest
    <2> QED BY <1>1 DEF r
  <1>2. path \in Seq(Bytes)
    <2>1. CASE name = <<>>
      BY <2>1 DEF BuildCIPPath
    <2>2. CASE name # <<>>
      BY <2>2, PathShape
    <2> QED BY <2>1, <2>2
  <1>3. /\ r \in Seq(Bytes) /\ Len(r) = (2 + Len(path)) + Len(params) /\ w = Words(path) /\ w \in Bytes
        /\ \A i \in 1..Len(path) : r[2 + i] = path[i]
    BY <1>2, RequestShape
  <1>4. Len(path) \in Nat /\ Len(params) \in Nat /\ Len(name) \in Nat /\ Len(r) \in Nat
    BY <1>2, <1>3, LenProperties
  <1> HIDE DEF path, r, w, rest
  <1>5. w \in Nat /\ w =< Byte - 1
    BY <1>3, Sizes DEF Bytes
  <1>6. Len(sub) = 2 * w /\ \A i \in 1..(2 * w) : sub[i] = r[(3 + i) - 1]
    <2>1. 3 \in Nat \ {0} /\ 2 + 2 * w \in Nat /\ 3 =< (2 + 2 * w) + 1 /\ ((2 + 2 * w) - 3) + 1 = 2 * w
      BY <1>5
    <2>2. /\ Len(sub) = ((2 + 2 * w) - 3) + 1
          /\ \A i \in 1..(((2 + 2 * w) - 3) + 1) : sub[i] = r[(3 + i) - 1]
      BY <1>3, <2>1, Part
    <2> QED BY <2>1, <2>2
  <1> HIDE DEF sub
  <1>7. Len(sub) >= 2 /\ Len(sub) = 2 + sub[2] + (sub[2] % 2)
    BY DEF IsPath
  <1>8. name # <<>>
    <2> SUFFICES ASSUME name = <<>> PROVE FALSE
      OBVIOUS
    <2>1. path = <<>>
      BY DEF BuildCIPPath, path
    <2>2. (0 + 1) \div 2 = 0 /\ 0 % Byte = 0
      BY Sizes, ModSmall
    <2>3. w = 0
      BY <1>3, <2>1, <2>2 DEF Words
    <2> QED BY <1>6, <1>7, <2>3
  <1>9. Len(name) >= Byte
    BY <1>4, <1>8, Sizes, LenProperties, EmptySeq
  <1>10. PICK k \in Nat : Padded(name) = 2 * k
    BY Even
  <1>11. /\ Len(path) = 2 + 2 * k /\ path[2] = Len(name) % Byte /\ w = (k + 1) % Byte
         /\ \A i \in 1..Len(name) : path[2 + i] = name[i]
    BY <1>3, <1>8, <1>10, PathShape, PathWords DEF path
  <1> DEFINE l == Len(name) % Byte
  <1>12. l \in 0..(Byte - 1) /\ l % 2 = Len(name) % 2 /\ l % 2 \in {0, 1}
    <2>1. Len(name) \in Int /\ Len(name) % Byte \in 0..(Byte - 1)
      <3>1. Len(name) \in Int /\ Byte \in Nat \ {0}
        BY <1>4, Sizes
      <3> QED BY ONLY <3>1, DivMod
    <2>2. Half \in Nat \ {0} /\ Byte = 2 * Half
      BY Sizes
    <2>3. (Len(name) % (2 * Half)) % 2 = Len(name) % 2
      BY <1>4, <2>2, Parity
    <2> QED BY <2>1, <2>2, <2>3, Even
  <1> HIDE DEF l
  <1>13. sub[2] = l
    <2>1. 2 \in 1..(2 * w) /\ (3 + 2) - 1 = 2 + 2 /\ 2 \in 1..Len(path)
      BY <1>5, <1>6, <1>7, <1>11
    <2> QED BY <1>3, <1>6, <1>11, <2>1 DEF l
  <1>14. 2 * w = 2 + (l + (l % 2)) /\ 2 * k = Len(name) + (l % 2)
    BY <1>6, <1>7, <1>10, <1>12, <1>13 DEF Padded
  <1>15. CASE Len(name) < 2 * Byte
    <2>1. Len(name) = Byte * 1 + l
      <3>1. Len(name) - Byte \in 0..(Byte - 1) /\ Len(name) = Byte * 1 + (Len(name) - Byte)
        BY <1>4, <1>9, <1>15, Sizes
      <3>2. l = Len(name) - Byte
        BY <3>1, Sizes, DivIs DEF l
      <3> QED BY <3>1, <3>2
    <2>2. k + 1 = Half + w
      BY <1>5, <1>12, <1>14, <2>1, Sizes
    <2>3. (Half + w) % Byte # w
      <3>1. CASE Half + w < Byte
        <4>1. Half + w \in 0..(Byte - 1)
          BY <1>5, <3>1, Sizes
        <4>2. (Half + w) % Byte = Half + w
          BY <4>1, Sizes, ModSmall
        <4> QED BY <1>5, <4>2, Sizes
      <3>2. CASE Half + w >= Byte
        <4>1. (Half + w) - Byte \in 0..(Byte - 1) /\ Half + w = Byte * 1 + ((Half + w) - Byte)
          BY <1>5, <3>2, Sizes
        <4>2. (Half + w) % Byte = (Half + w) - Byte
          <5> DEFINE x == (Half + w) - Byte
          <5>1. x \in 0..(Byte - 1) /\ Half + w = Byte * 1 + x
            BY <4>1
          <5> HIDE DEF x
          <5>2. (Byte * 1 + x) % Byte = x
            <6>1. x \in 0..(Byte - 1) /\ Byte \in Nat \ {0} /\ 1 \in Int
              BY <5>1, Sizes
            <6> QED BY ONLY <6>1, DivIs
          <5> QED BY <5>1, <5>2 DEF x
        <4> QED BY <1>5, <4>2, Sizes
      <3> QED BY <1>5, <3>1, <3>2, Sizes
    <2> QED BY <1>11, <2>2, <2>3
  <1>16. CASE Len(name) >= 2 * Byte
    <2>1. \A i \in DOMAIN name : \A type \in DataTypes : name[i] # Code[type]
      BY <1>4, <1>16, Sizes DEF Plain
    <2>2. 2 * w =< 2 + Byte /\ 2 * w + 1 >= 3 /\ (2 * w + 1) - 2 \in 1..Len(name)
      BY <1>4, <1>5, <1>12, <1>14, <1>16, Sizes
    <2>3. /\ Len(rest) = Len(r) - (2 + 2 * w)
          /\ Len(rest) >= 1 => rest[1] = r[(2 + 2 * w) + 1]
      <3> DEFINE m == (2 + 2 * w) + 1
      <3>1. m \in Nat \ {0} /\ Len(r) =< Len(r) /\ m =< Len(r) + 1 /\ (Len(r) - m) + 1 = Len(r) - (2 + 2 * w)
        BY <1>4, <1>5
      <3>2. Len(rest) = (Len(r) - m) + 1 /\ \A i \in 1..((Len(r) - m) + 1) : rest[i] = r[(m + i) - 1]
        BY SMTT(30), <1>3, <1>4, <3>1, Part DEF rest
      <3>3. (m + 1) - 1 = m
        BY <1>5
      <3> HIDE DEF m
      <3>4. Len(rest) >= 1 => rest[1] = r[m]
        BY <1>4, <1>5, <3>1, <3>2, <3>3
      <3> QED BY <3>1, <3>2, <3>4 DEF m
    <2>4. Len(rest) > 2
      <3>1. 2 * k >= 2 * Byte
        BY <1>4, <1>12, <1>14, <1>16, Sizes
      <3>2. Len(r) >= (2 + (2 + 2 * Byte)) + 1
        BY <1>3, <1>4, <1>11, <3>1, Sizes
      <3> QED BY <1>4, <1>5, <2>2, <2>3, <3>2, Sizes
    <2>5. rest[1] = name[(2 * w + 1) - 2]
      <3> DEFINE i == (2 * w + 1) - 2
      <3>1. i \in 1..Len(name) /\ 2 + i \in 1..Len(path) /\ 2 + (2 + i) = (2 + 2 * w) + 1
        <4>1. 2 * k >= 2 * Byte
          BY <1>4, <1>12, <1>14, <1>16, Sizes
        <4>2. 2 * w + 1 =< 2 + 2 * k
          BY <1>5, <2>2, <4>1, Sizes
        <4> QED BY SMTT(30), <1>5, <1>11, <2>2, <4>2
      <3> HIDE DEF i
      <3>2. path[2 + i] = name[i] /\ r[2 + (2 + i)] = path[2 + i]
        BY <1>3, <1>11, <3>1
      <3> QED BY <2>3, <2>4, <3>1, <3>2 DEF i
    <2>6. \A type \in DataTypes : rest[1] # Code[type]
      BY <2>1, <2>2, <2>5, LenProperties
    <2>7. \A n, t, d : Access("write", n, t, d).type = t
      BY DEF Access
    <2>8. Len(rest) # 2
      BY <1>4, <1>5, <2>3, <2>4
    <2> HIDE DEF l
    <2> QED BY <2>6, <2>7, <2>8 DEF Requests
  <1> QED BY <1>4, <1>15, <1>16, Sizes

-----------------------------------------------------------------------------
(* Replies                                                                 *)

\* A tag of the PLC
IsTag(tag) == tag.type \in DataTypes \ {"other"} /\ tag.data \in Seq(Bytes)

\* What follows the status in the reply to a read
Body(tag, n) == <<Code[tag.type], 0>> \o (IF tag.type = "STRING" THEN PutUint16(n) ELSE <<>>) \o tag.data

LEMMA BodyShape ==
  ASSUME NEW tag, IsTag(tag), NEW n \in Nat
  PROVE  LET b == Body(tag, n)
             h == IF tag.type = "STRING" THEN 4 ELSE 2
         IN  /\ b \in Seq(Bytes) /\ Len(b) = h + Len(tag.data) /\ b[1] = Code[tag.type]
             /\ tag.type = "STRING" => b[3] = PutUint16(n)[1] /\ b[4] = PutUint16(n)[2]
             /\ \A i \in 1..Len(tag.data) : b[h + i] = tag.data[i]
             /\ SubSeq(b, h + 1, h + Len(tag.data)) = tag.data
  <1> DEFINE c == <<Code[tag.type], 0>>
             s == IF tag.type = "STRING" THEN PutUint16(n) ELSE <<>>
             h == IF tag.type = "STRING" THEN 4 ELSE 2
  <1>1. c \in Seq(Bytes) /\ Len(c) = 2 /\ c[1] = Code[tag.type]
    <2>1. Code[tag.type] \in Bytes /\ 0 \in Bytes
      BY Codes, Sizes DEF IsTag, Bytes
    <2> QED BY <2>1
  <1>2. s \in Seq(Bytes) /\ Len(s) = h - 2
    <2>1. CASE tag.type = "STRING"
      BY <2>1, Put16
    <2>2. CASE tag.type # "STRING"
      BY <2>2
    <2> QED BY <2>1, <2>2
  <1>3. tag.data \in Seq(Bytes) /\ Body(tag, n) = (c \o s) \o tag.data
    BY DEF IsTag, Body
  <1>4. h \in {2, 4} /\ (tag.type = "STRING" => h = 4 /\ s = PutUint16(n)) /\ (tag.type # "STRING" => h = 2)
    OBVIOUS
  <1> HIDE DEF c, s, h
  <1>5. /\ c \o s \in Seq(Bytes) /\ Len(c \o s) = Len(c) + Len(s)
        /\ \A i \in 1..Len(c) : (c \o s)[i] = c[i]
        /\ \A i \in 1..Len(s) : (c \o s)[Len(c) + i] = s[i]
    <2>1. c \in Seq(Bytes) /\ s \in Seq(Bytes)
      BY <1>1, <1>2
    <2> QED BY ONLY <2>1, Joined
  <1>6. Len(c \o s) = h /\ (c \o s)[1] = c[1]
    BY <1>1, <1>2, <1>4, <1>5
  <1>7. tag.type = "STRING" => (c \o s)[3] = s[1] /\ (c \o s)[4] = s[2]
    <2> SUFFICES ASSUME tag.type = "STRING" PROVE (c \o s)[3] = s[1] /\ (c \o s)[4] = s[2]
      OBVIOUS
    <2>1. 1 \in 1..Len(s) /\ 2 \in 1..Len(s) /\ Len(c) + 1 = 3 /\ Len(c) + 2 = 4
      BY <1>1, <1>2, <1>4
    <2> QED BY <1>5, <2>1
  <1>8. /\ (c \o s) \o tag.data \in Seq(Bytes) /\ Len((c \o s) \o tag.data) = h + Len(tag.data)
        /\ \A i \in 1..h : ((c \o s) \o tag.data)[i] = (c \o s)[i]
        /\ \A i \in 1..Len(tag.data) : ((c \o s) \o tag.data)[h + i] = tag.data[i]
    <2> DEFINE x == c \o s
               d == tag.data
    <2>1. x \in Seq(Bytes) /\ d \in Seq(Bytes)
      BY <1>3, <1>5
    <2>3. Len(x) = h
      BY <1>6
    <2> HIDE DEF x, d
    <2>2. /\ x \o d \in Seq(Bytes) /\ Len(x \o d) = Len(x) + Len(d)
          /\ \A i \in 1..Len(x) : (x \o d)[i] = x[i]
          /\ \A i \in 1..Len(d) : (x \o d)[Len(x) + i] = d[i]
      BY ONLY <2>1, Joined
    <2> QED BY <2>2, <2>3 DEF x, d
  <1>9. SubSeq((c \o s) \o tag.data, h + 1, h + Len(tag.data)) = tag.data
    BY <1>3, <1>5, <1>6, Parts
  <1>10. 1 \in 1..h /\ (tag.type = "STRING" => 3 \in 1..h /\ 4 \in 1..h)
    BY <1>4
  <1>11. Body(tag, n)[1] = Code[tag.type]
    BY <1>1, <1>3, <1>6, <1>8, <1>10
  <1>12. tag.type = "STRING" => Body(tag, n)[3] = PutUint16(n)[1] /\ Body(tag, n)[4] = PutUint16(n)[2]
    BY <1>3, <1>4, <1>7, <1>8, <1>10
  <1> QED BY <1>3, <1>8, <1>9, <1>11, <1>12 DEF h

\* What is left of a reply that was cut is the beginning of its body.
LEMMA CutReply ==
  ASSUME NEW tag, IsTag(tag), NEW n \in Nat, NEW k \in 0..Len(TagReply(tag, n))
  PROVE  LET reply == SubSeq(TagReply(tag, n), 1, k)
         IN  /\ reply \in Seq(Bytes) /\ Len(reply) = k /\ Len(TagReply(tag, n)) = 2 + Len(Body(tag, n))
             /\ \A i \in 1..k : reply[i] = TagReply(tag, n)[i]
             /\ k >= 1 => reply[1] >= ReplyBit
             /\ k >= 2 => reply[2] = 0
             /\ \A i \in 1..(k - 2) : reply[2 + i] = Body(tag, n)[i]
             /\ k >= 2 => SubSeq(reply, 3, k) = SubSeq(Body(tag, n), 1, k - 2)
  <1> DEFINE b == Body(tag, n)
             c == <<Code["ReadTag"] + ReplyBit, 0>>
             whole == c \o b
             reply == SubSeq(whole, 1, k)
  <1>1. TagReply(tag, n) = whole
    BY DEF TagReply, Reply, Body
  <1>2. b \in Seq(Bytes) /\ Len(b) \in Nat
    BY BodyShape, LenProperties
  <1>3. c \in Seq(Bytes) /\ Len(c) = 2 /\ c[1] >= ReplyBit /\ c[2] = 0
    <2>1. Code["ReadTag"] + ReplyBit \in Bytes /\ Code["ReadTag"] + ReplyBit >= ReplyBit /\ 0 \in Bytes
      BY Codes, Sizes DEF Bytes, Services
    <2> QED BY <2>1
  <1> HIDE DEF b, c
  <1>4. /\ whole \in Seq(Bytes) /\ Len(whole) = 2 + Len(b)
        /\ \A i \in 1..2 : whole[i] = c[i]
        /\ \A i \in 1..Len(b) : whole[2 + i] = b[i]
    <2>1. c \in Seq(Bytes) /\ b \in Seq(Bytes)
      BY <1>2, <1>3
    <2>2. /\ c \o b \in Seq(Bytes) /\ Len(c \o b) = Len(c) + Len(b)
          /\ \A i \in 1..Len(c) : (c \o b)[i] = c[i]
          /\ \A i \in 1..Len(b) : (c \o b)[Len(c) + i] = b[i]
      BY ONLY <2>1, Joined
    <2> QED BY <1>3, <2>2
  <1>5. k \in Nat /\ k =< 2 + Len(b)
    BY <1>1, <1>2, <1>4
  <1> HIDE DEF whole
  <1>6. /\ reply \in Seq(Bytes) /\ Len(reply) = (k - 1) + 1
        /\ \A i \in 1..((k - 1) + 1) : reply[i] = whole[(1 + i) - 1]
    BY <1>4, <1>5, Part
  <1>7. (k - 1) + 1 = k /\ \A i \in 1..k : (1 + i) - 1 = i
    BY <1>5
  <1>8. Len(reply) = k /\ \A i \in 1..k : reply[i] = whole[i]
    BY <1>6, <1>7
  <1>9. (k >= 1 => reply[1] >= ReplyBit) /\ (k >= 2 => reply[2] = 0)
    <2>1. 1 \in 1..2 /\ 2 \in 1..2 /\ (k >= 1 => 1 \in 1..k) /\ (k >= 2 => 2 \in 1..k)
      BY <1>5
    <2> QED BY <1>3, <1>4, <1>8, <2>1
  <1>10. \A i \in 1..(k - 2) : reply[2 + i] = b[i]
    <2>1. \A i \in 1..(k - 2) : 2 + i \in 1..k /\ i \in 1..Len(b)
      BY <1>2, <1>5
    <2> QED BY <1>4, <1>8, <2>1
  <1>11. ASSUME k >= 2 PROVE SubSeq(reply, 3, k) = SubSeq(b, 1, k - 2)
    <2> DEFINE p == SubSeq(reply, 3, k)
               q == SubSeq(b, 1, k - 2)
    <2>1. /\ 3 \in Nat \ {0} /\ k \in Nat /\ k =< Len(reply) /\ 3 =< k + 1 /\ (k - 3) + 1 = k - 2
          /\ 1 \in Nat \ {0} /\ k - 2 \in Nat /\ k - 2 =< Len(b) /\ 1 =< (k - 2) + 1 /\ ((k - 2) - 1) + 1 = k - 2
      BY <1>2, <1>5, <1>8, <1>11
    <2>2. p \in Seq(Bytes) /\ Len(p) = k - 2 /\ \A i \in 1..(k - 2) : p[i] = reply[(3 + i) - 1]
      <3> HIDE DEF reply
      <3> QED BY <1>6, <2>1, Part
    <2>3. q \in Seq(Bytes) /\ Len(q) = k - 2 /\ \A i \in 1..(k - 2) : q[i] = b[(1 + i) - 1]
      BY <1>2, <2>1, Part
    <2>4. \A i \in 1..(k - 2) : (3 + i) - 1 = 2 + i /\ (1 + i) - 1 = i
      BY <1>5
    <2>5. \A i \in 1..(k - 2) : p[i] = q[i]
      BY <1>10, <2>2, <2>3, <2>4
    <2> QED BY <2>2, <2>3, <2>5, SeqEqual
  <1> QED BY <1>1, <1>4, <1>6, <1>8, <1>9, <1>10, <1>11 DEF b

\* A reply is the whole or the beginning of what may be said of the tag.
LEMMA RepliesCut ==
  ASSUME NEW tag, IsTag(tag), NEW reply \in Replies(tag)
  PROVE  \E n \in Nat : \E k \in 0..Len(TagReply(tag, n)) : reply = SubSeq(TagReply(tag, n), 1, k)
  <1>1. \A n \in Nat : TagReply(tag, n) \in Seq(Bytes) /\ Len(TagReply(tag, n)) \in Nat
    <2> TAKE n \in Nat
    <2>1. Body(tag, n) \in Seq(Bytes)
      BY BodyShape
    <2>2. <<Code["ReadTag"] + ReplyBit, 0>> \in Seq(Bytes)
      <3>1. Code["ReadTag"] + ReplyBit \in Bytes /\ 0 \in Bytes
        BY Codes, Sizes DEF Bytes, Services
      <3> QED BY <3>1
    <2>3. TagReply(tag, n) = <<Code["ReadTag"] + ReplyBit, 0>> \o Body(tag, n)
      BY DEF TagReply, Reply, Body
    <2>4. TagReply(tag, n) \in Seq(Bytes)
      BY ONLY <2>1, <2>2, <2>3, Joined
    <2> QED BY <2>4, LenProperties
  <1>2. Len(tag.data) \in Nat
    BY LenProperties DEF IsTag
  <1>3. ASSUME NEW n \in Nat PROVE TagReply(tag, n) = SubSeq(TagReply(tag, n), 1, Len(TagReply(tag, n)))
    BY <1>1, SubSeqFull
  <1>4. ASSUME NEW n \in Nat, reply = TagReply(tag, n)
        PROVE  \E m \in Nat : \E k \in 0..Len(TagReply(tag, m)) : reply = SubSeq(TagReply(tag, m), 1, k)
    <2>1. Len(TagReply(tag, n)) \in 0..Len(TagReply(tag, n))
      BY <1>1
    <2>2. reply = SubSeq(TagReply(tag, n), 1, Len(TagReply(tag, n)))
      BY <1>3, <1>4
    <2> QED BY <2>1, <2>2
  <1>5. CASE \E k \in 0..(Len(TagReply(tag, Len(tag.data))) - 1) : reply = SubSeq(TagReply(tag, Len(tag.data)), 1, k)
    <2> DEFINE n == Len(tag.data)
    <2>1. PICK k \in 0..(Len(TagReply(tag, n)) - 1) : reply = SubSeq(TagReply(tag, n), 1, k)
      BY <1>5
    <2>2. n \in Nat
      BY <1>2
    <2> HIDE DEF n
    <2>3. k \in 0..Len(TagReply(tag, n))
      BY <1>1, <2>1, <2>2
    <2> QED BY <2>1, <2>2, <2>3
  <1>6. CASE \E n \in Announced : reply = TagReply(tag, n)
    <2>1. PICK n \in Announced : reply = TagReply(tag, n)
      BY <1>6
    <2>2. n \in Nat
      BY TagAccessAssumption
    <2> QED BY <1>4, <2>1, <2>2
  <1> QED BY <1>2, <1>4, <1>5, <1>6 DEF Replies

\* What a reply announces is a uint16.
LEMMA ToldRange ==
  ASSUME NEW reply \in Seq(Bytes)
  PROVE  /\ Told(reply) \in 0..(Word - 1)
         /\ Len(reply) >= 6 => Told(reply) = reply[5] + Byte * reply[6]
  <1>1. CASE Len(reply) < 6
    BY <1>1, Sizes, LenProperties DEF Told
  <1>2. CASE Len(reply) >= 6
    <2> DEFINE s == SubSeq(reply, 5, 6)
    <2>1. Len(reply) \in Nat
      BY LenProperties
    <2>2. \A i \in 1..((6 - 5) + 1) : s[i] = reply[(5 + i) - 1]
      BY <1>2, <2>1, Part
    <2>3. 1 \in 1..((6 - 5) + 1) /\ 2 \in 1..((6 - 5) + 1) /\ (5 + 1) - 1 = 5 /\ (5 + 2) - 1 = 6
      OBVIOUS
    <2> HIDE DEF s
    <2>4. s[1] = reply[5] /\ s[2] = reply[6]
      BY <2>2, <2>3
    <2>5. reply[5] \in Bytes /\ reply[6] \in Bytes
      BY <1>2, <2>1, ElementOfSeq
    <2>6. Told(reply) = Uint16(s)
      BY <1>2, <2>1 DEF Told, s
    <2>7. Uint16(s) = reply[5] + Byte * reply[6]
      BY <2>4 DEF Uint16
    <2> QED BY <2>4, <2>5, <2>6, <2>7, Get16
  <1> QED BY <1>1, <1>2, LenProperties

\* What is not an error has the type, and bytes enough.
LEMMA Parsed ==
  ASSUME NEW tag, IsTag(tag), NEW n \in Nat, NEW k \in 0..Len(TagReply(tag, n)), NEW type \in DataTypes,
         ParseCIPReadResponse(SubSeq(TagReply(tag, n), 1, k), type).err \in {"none", "panic"}
  PROVE  /\ type = tag.type /\ k >= 4 /\ k =< 2 + Len(Body(tag, n)) /\ k - 2 >= Needed(type)
         /\ ParseCIPReadResponse(SubSeq(TagReply(tag, n), 1, k), type)
              = ReadValue(type, SubSeq(Body(tag, n), 1, k - 2))
  <1> DEFINE reply == SubSeq(TagReply(tag, n), 1, k)
             b     == Body(tag, n)
             data  == SubSeq(b, 1, k - 2)
             parse == ParseCIPReadResponse(reply, type)
  <1>1. /\ reply \in Seq(Bytes) /\ Len(reply) = k /\ Len(TagReply(tag, n)) = 2 + Len(b)
        /\ (k >= 1 => reply[1] >= ReplyBit) /\ (k >= 2 => reply[2] = 0)
        /\ (k >= 2 => SubSeq(reply, 3, k) = data)
    BY SMTT(30), CutReply
  <1>0. /\ Fail("response too short").err = "response too short"
        /\ Fail("response data too short").err = "response data too short"
        /\ Fail("data type mismatch").err = "data type mismatch"
        /\ Fail("not enough data").err = "not enough data"
        /\ Ok(Value("bytes", data)).err = "none" /\ Ok(Value("bytes", data)).value.v = data
    BY DEF Fail, Ok, Value
  <1>2. b \in Seq(Bytes) /\ Len(b) \in Nat /\ b[1] = Code[tag.type]
    <2>1. b \in Seq(Bytes) /\ b[1] = Code[tag.type]
      BY BodyShape
    <2> QED BY <2>1, LenProperties
  <1>3. k \in Nat /\ k =< 2 + Len(b)
    BY <1>1, <1>2
  <1> HIDE DEF reply, b
  <1>4. k >= 2
    <2> SUFFICES ASSUME k < 2 PROVE FALSE
      BY <1>3
    <2>1. ParseCIPResponse(reply) = Fail("response too short")
      BY <1>1, <1>3 DEF ParseCIPResponse
    <2>2. parse = Fail("response too short")
      BY <1>0, <2>1 DEF ParseCIPReadResponse
    <2> QED BY <1>0, <2>2 DEF reply
  <1>5. ParseCIPResponse(reply) = Ok(Value("bytes", data))
    <2>1. ~(Len(reply) < 2) /\ ~(reply[1] < ReplyBit) /\ ~CIPStatusToError(reply[2])
      <3>1. reply[1] \in Int /\ ReplyBit \in Int
        <4>1. 1 \in 1..Len(reply)
          BY <1>1, <1>3, <1>4
        <4>2. reply[1] \in Bytes
          BY <1>1, <4>1, ElementOfSeq
        <4>3. ReplyBit \in Int
          BY Sizes DEF ReplyBit, Half
        <4> QED BY <4>2, <4>3, Sizes DEF Bytes
      <3> QED BY <1>1, <1>3, <1>4, <3>1 DEF CIPStatusToError
    <2> QED BY <1>1, <1>4, <2>1 DEF ParseCIPResponse
  <1>6. ParseCIPResponse(reply).err = "none" /\ ParseCIPResponse(reply).value.v = data
    BY <1>0, <1>5
  <1>7. parse = IF Len(data) < 2 THEN Fail("response data too short")
                ELSE IF data[1] # Code[type] THEN Fail("data type mismatch")
                ELSE IF Len(data) < Needed(type) THEN Fail("not enough data")
                ELSE ReadValue(type, data)
    BY <1>6 DEF ParseCIPReadResponse
  <1>8. parse.err \in {"none", "panic"}
    BY DEF reply
  <1>9. Len(data) = k - 2 /\ \A i \in 1..(k - 2) : data[i] = b[i]
    <2>1. 1 \in Nat \ {0} /\ k - 2 \in Nat /\ k - 2 =< Len(b) /\ 1 =< (k - 2) + 1 /\ ((k - 2) - 1) + 1 = k - 2
      BY <1>2, <1>3, <1>4
    <2>2. Len(data) = k - 2 /\ \A i \in 1..(k - 2) : data[i] = b[(1 + i) - 1]
      BY SMTT(60), <1>2, <2>1, Part
    <2>3. \A i \in 1..(k - 2) : (1 + i) - 1 = i
      BY <2>1
    <2> QED BY <2>2, <2>3
  <1> HIDE DEF parse, data
  <1>10. ~(Len(data) < 2)
    BY <1>0, <1>7, <1>8
  <1>11. data[1] = Code[type]
    BY <1>0, <1>7, <1>8, <1>10
  <1>12. ~(Len(data) < Needed(type)) /\ parse = ReadValue(type, data)
    BY <1>0, <1>7, <1>8, <1>10, <1>11
  <1>13. Needed(type) \in Int
    BY NeededIs DEF DataTypes
  <1>14. k >= 4 /\ k - 2 >= Needed(type)
    BY <1>3, <1>9, <1>10, <1>12, <1>13
  <1>15. type = tag.type
    <2>1. data[1] = b[1]
      <3>1. 1 \in 1..(k - 2)
        BY <1>3, <1>14
      <3> QED BY <1>9, <3>1
    <2>2. Code[type] = Code[tag.type] /\ tag.type \in DataTypes
      BY <1>2, <1>11, <2>1 DEF IsTag
    <2> QED BY <2>2, CodecAssumption
  <1> QED BY <1>3, <1>12, <1>14, <1>15 DEF parse, data, b, reply

Numbers == {"BOOL", "SINT", "INT", "DINT", "DWORD"}

\* What stands for a number is as wide as its type.
LEMMA StandsWidth ==
  ASSUME NEW tag, NEW value, StandsFor(tag, value), tag.type \in Numbers
  PROVE  Len(tag.data) = Width(tag.type) /\ Needed(tag.type) = 2 + Width(tag.type)
  <1> DEFINE n == value.v[1]
  <1>1. n \in GoRange(value.go)
    BY DEF StandsFor, IsNumber, Numbers
  <1> HIDE DEF n
  <1>2. CASE tag.type = "BOOL"
    <2>1. tag.data = <<n>>
      BY <1>2 DEF StandsFor, n
    <2> QED BY <1>2, <2>1, Widths, NeededIs
  <1>3. CASE tag.type = "SINT"
    <2>1. tag.data = <<n % Byte>>
      BY <1>3 DEF StandsFor, n
    <2> QED BY <1>3, <2>1, Widths, NeededIs
  <1>4. CASE tag.type = "INT"
    <2>1. tag.data = PutUint16(n % Word)
      BY <1>4 DEF StandsFor, n
    <2>2. Len(tag.data) = 2
      BY <2>1 DEF PutUint16
    <2> QED BY <1>4, <2>2, Widths, NeededIs
  <1>5. CASE tag.type = "DINT"
    <2>1. tag.data = PutUint32(n % DWord) /\ value.go = "int32"
      BY <1>5 DEF StandsFor, n
    <2>2. n \in (-((Half * Byte) * Word))..(((Half * Byte) * Word) - 1)
      BY <1>1, <2>1, Sizes DEF GoRange
    <2>3. n % DWord \in 0..(DWord - 1)
      BY <2>2, Sizes, Complement
    <2>4. Len(tag.data) = 4
      BY <2>1, <2>3, Put32
    <2> QED BY <1>5, <2>4, Widths, NeededIs
  <1>6. CASE tag.type = "DWORD"
    <2>1. value.go = "uint32" /\ tag.data = PutUint32(n)
      BY <1>6 DEF StandsFor, n
    <2>2. n \in 0..(DWord - 1)
      BY <1>1, <2>1 DEF GoRange
    <2>3. Len(tag.data) = 4
      BY <2>1, <2>2, Put32
    <2> QED BY <1>6, <2>3, Widths, NeededIs
  <1> QED BY <1>2, <1>3, <1>4, <1>5, <1>6 DEF Numbers

LEMMA SameStands ==
  ASSUME NEW t, NEW s, t.type = s.type, t.data = s.data, NEW value
  PROVE  StandsFor(t, value) <=> StandsFor(s, value)
  BY DEF StandsFor

\* A number that is read is the one the tag stands for, whatever was cut or announced.
LEMMA NumberRead ==
  ASSUME NEW tag, IsTag(tag), NEW value, StandsFor(tag, value), NEW reply \in Replies(tag), NEW type \in Numbers,
         ParseCIPReadResponse(reply, type).err \in {"none", "panic"}
  PROVE  ParseCIPReadResponse(reply, type) = Ok(value)
  <1>1. PICK n \in Nat : \E k \in 0..Len(TagReply(tag, n)) : reply = SubSeq(TagReply(tag, n), 1, k)
    BY RepliesCut
  <1>2. PICK k \in 0..Len(TagReply(tag, n)) : reply = SubSeq(TagReply(tag, n), 1, k)
    BY <1>1
  <1> DEFINE b == Body(tag, n)
  <1>3. type \in DataTypes
    BY DEF Numbers, DataTypes
  <1>4. /\ type = tag.type /\ k >= 4 /\ k =< 2 + Len(b) /\ k - 2 >= Needed(type)
        /\ ParseCIPReadResponse(reply, type) = ReadValue(type, SubSeq(b, 1, k - 2))
    BY <1>2, <1>3, Parsed
  <1>5. type # "STRING"
    BY DEF Numbers
  <1>6. b \in Seq(Bytes) /\ Len(b) = 2 + Len(tag.data) /\ SubSeq(b, 2 + 1, 2 + Len(tag.data)) = tag.data
    BY <1>4, <1>5, BodyShape
  <1>7. Len(tag.data) = Width(type) /\ Needed(type) = 2 + Width(type) /\ Len(tag.data) \in Nat
    BY <1>4, StandsWidth, LenProperties DEF IsTag
  <1>8. k - 2 = Len(b) /\ 2 + 1 = 3 /\ k \in Nat
    <2>1. k \in Int
      OBVIOUS
    <2> HIDE DEF b
    <2> QED BY <1>4, <1>6, <1>7, <2>1
  <1> HIDE DEF b
  <1>9. SubSeq(b, 1, k - 2) = b
    BY <1>6, <1>8, SubSeqFull
  <1>10. SubSeq(b, 3, Len(b)) = tag.data
    BY <1>6, <1>8
  <1>11. StandsFor([type |-> type, data |-> tag.data], value)
    BY <1>4, SameStands
  <1>12. ReadValue(type, b) = Ok(value)
    BY <1>10, <1>11, ReadBackNumber DEF Numbers
  <1> QED BY <1>4, <1>9, <1>12

\* A string that is read is as long as announced, or else it wraps.
LEMMA StringRead ==
  ASSUME NEW tag, IsTag(tag), NEW reply \in Replies(tag),
         ParseCIPReadResponse(reply, "STRING").err \in {"none", "panic"}
  PROVE  LET res == ParseCIPReadResponse(reply, "STRING")
         IN  /\ tag.type = "STRING"
             /\ res.err = "none" => /\ Told(reply) =< Len(tag.data)
                                    /\ res.value = Value("string", SubSeq(tag.data, 1, Told(reply)))
             /\ res.err = "panic" => Told(reply) >= Word - 4
  <1>1. PICK n \in Nat : \E k \in 0..Len(TagReply(tag, n)) : reply = SubSeq(TagReply(tag, n), 1, k)
    BY RepliesCut
  <1>2. PICK k \in 0..Len(TagReply(tag, n)) : reply = SubSeq(TagReply(tag, n), 1, k)
    BY <1>1
  <1> DEFINE b    == Body(tag, n)
             data == SubSeq(b, 1, k - 2)
             res  == ParseCIPReadResponse(reply, "STRING")
             told == Told(reply)
  <1>3. "STRING" \in DataTypes
    BY DEF DataTypes
  <1>4. /\ "STRING" = tag.type /\ k =< 2 + Len(b) /\ k - 2 >= 4
        /\ res = ReadValue("STRING", data)
    BY <1>2, <1>3, Parsed, NeededIs
  <1>5. /\ b \in Seq(Bytes) /\ Len(b) = 4 + Len(tag.data)
        /\ \A i \in 1..Len(tag.data) : b[4 + i] = tag.data[i]
    BY <1>4, BodyShape
  <1>6. tag.data \in Seq(Bytes) /\ Len(tag.data) \in Nat
    BY LenProperties DEF IsTag
  <1>7. /\ reply \in Seq(Bytes) /\ Len(reply) = k /\ \A i \in 1..(k - 2) : reply[2 + i] = b[i]
    BY <1>2, CutReply
  <1> HIDE DEF b
  <1>8. k \in Nat /\ k - 2 \in Nat /\ k - 2 =< Len(b) /\ k >= 6
    BY <1>4, <1>5, <1>6
  <1>9. data \in Seq(Bytes) /\ Len(data) = k - 2 /\ \A i \in 1..(k - 2) : data[i] = b[i]
    <2>1. 1 \in Nat \ {0} /\ 1 =< (k - 2) + 1 /\ ((k - 2) - 1) + 1 = k - 2
      BY <1>8
    <2>2. data \in Seq(Bytes) /\ Len(data) = k - 2 /\ \A i \in 1..(k - 2) : data[i] = b[(1 + i) - 1]
      BY <1>5, <1>8, <2>1, Part
    <2>3. \A i \in 1..(k - 2) : (1 + i) - 1 = i
      BY <1>8
    <2> QED BY <2>2, <2>3
  <1> HIDE DEF data
  <1>10. Uint16(SubSeq(data, 3, 4)) = told
    <2>1. told = reply[5] + Byte * reply[6]
      BY <1>7, <1>8, ToldRange
    <2>2. reply[2 + 3] = b[3] /\ reply[2 + 4] = b[4] /\ data[3] = b[3] /\ data[4] = b[4]
      <3>1. 3 \in 1..(k - 2) /\ 4 \in 1..(k - 2)
        BY <1>8
      <3> QED BY <1>7, <1>9, <3>1
    <2>3. 2 + 3 = 5 /\ 2 + 4 = 6
      OBVIOUS
    <2> DEFINE s == SubSeq(data, 3, 4)
    <2>4. \A i \in 1..((4 - 3) + 1) : s[i] = data[(3 + i) - 1]
      <3>1. 4 =< Len(data) /\ 3 \in Nat \ {0} /\ 4 \in Nat /\ 3 =< 4 + 1
        BY <1>8, <1>9
      <3> QED BY <1>9, <3>1, Part
    <2>5. 1 \in 1..((4 - 3) + 1) /\ 2 \in 1..((4 - 3) + 1) /\ (3 + 1) - 1 = 3 /\ (3 + 2) - 1 = 4
      OBVIOUS
    <2> HIDE DEF s, told
    <2>6. s[1] = data[3] /\ s[2] = data[4]
      BY <2>4, <2>5
    <2>7. Uint16(s) = data[3] + Byte * data[4]
      BY <2>6 DEF Uint16
    <2> QED BY <2>1, <2>2, <2>3, <2>7 DEF s
  <1>11. told \in 0..(Word - 1)
    BY <1>7, ToldRange
  <1> HIDE DEF told
  <1> DEFINE end == (4 + told) % Word
  <1>12. res = IF Len(data) < end THEN Fail("string data truncated")
               ELSE IF end < 4 THEN Panic
               ELSE Ok(Value("string", SubSeq(data, 5, end)))
    BY <1>4, <1>10 DEF ReadValue, String
  <1>13. res.err \in {"none", "panic"}
    OBVIOUS
  <1> HIDE DEF res, end
  <1>14. Fail("string data truncated").err = "string data truncated" /\ Panic.err = "panic"
    BY DEF Fail, Panic
  <1>15. \A v : Ok(v).err = "none" /\ Ok(v).value = v
    BY DEF Ok
  <1>16. CASE 4 + told < Word
    <2>1. end = 4 + told
      <3>1. 4 + told \in 0..(Word - 1)
        BY <1>11, <1>16, Sizes
      <3> QED BY <3>1, Sizes, ModSmall DEF end
    <2>2. ~(end < 4) /\ told \in Nat
      BY <1>11, <2>1, Sizes
    <2>3. ~(Len(data) < end)
      BY <1>12, <1>13, <1>14
    <2>4. res = Ok(Value("string", SubSeq(data, 5, end)))
      BY <1>12, <2>2, <2>3
    <2>5. told =< Len(tag.data) /\ 4 + told =< Len(data)
      BY <1>4, <1>5, <1>6, <1>8, <1>9, <2>1, <2>2, <2>3
    <2>6. SubSeq(data, 5, 4 + told) = SubSeq(tag.data, 1, told)
      <3> DEFINE p == SubSeq(data, 5, 4 + told)
                 q == SubSeq(tag.data, 1, told)
      <3>1. /\ 5 \in Nat \ {0} /\ 4 + told \in Nat /\ 5 =< (4 + told) + 1 /\ ((4 + told) - 5) + 1 = told
            /\ 1 \in Nat \ {0} /\ 1 =< told + 1 /\ (told - 1) + 1 = told
        BY <2>2
      <3>2. p \in Seq(Bytes) /\ Len(p) = told /\ \A i \in 1..told : p[i] = data[(5 + i) - 1]
        BY <1>9, <2>5, <3>1, Part
      <3>3. q \in Seq(Bytes) /\ Len(q) = told /\ \A i \in 1..told : q[i] = tag.data[(1 + i) - 1]
        BY <1>6, <2>2, <2>5, <3>1, Part
      <3>4. ASSUME NEW i \in 1..told PROVE p[i] = q[i]
        <4>1. (5 + i) - 1 = 4 + i /\ (1 + i) - 1 = i /\ 4 + i \in 1..(k - 2) /\ i \in 1..Len(tag.data)
          BY <1>6, <1>8, <1>9, <2>2, <2>5
        <4> QED BY <1>5, <1>9, <3>2, <3>3, <4>1
      <3> QED BY <3>2, <3>3, <3>4, SeqEqual
    <2>7. res = Ok(Value("string", SubSeq(tag.data, 1, told)))
      BY <2>1, <2>4, <2>6
    <2>8. res.err = "none" /\ res.value = Value("string", SubSeq(tag.data, 1, told))
      BY <2>7, <1>15
    <2> QED BY <1>4, <2>5, <2>8 DEF res, told
  <1>17. CASE ~(4 + told < Word)
    <2>1. end = (4 + told) - Word /\ (4 + told) - Word < 4
      <3>1. 4 + told = Word * 1 + ((4 + told) - Word) /\ (4 + told) - Word \in 0..(Word - 1) /\ (4 + told) - Word < 4
        BY <1>11, <1>17, Sizes
      <3>2. Word \in Nat \ {0} /\ 1 \in Int
        BY Sizes
      <3> DEFINE r == (4 + told) - Word
      <3>3. (Word * 1 + r) % Word = r
        <4>1. r \in 0..(Word - 1)
          BY <3>1
        <4> HIDE DEF r
        <4> QED BY ONLY <3>2, <4>1, DivIs
      <3> QED BY <3>1, <3>3 DEF end, r
    <2>2. res.err = "panic"
      BY <1>12, <1>13, <1>14, <2>1
    <2>3. told >= Word - 4
      BY <1>11, <1>17, Sizes
    <2> QED BY <1>4, <2>2, <2>3 DEF res, told
  <1> QED BY <1>16, <1>17

\* A refusal is an error, and what acknowledges a write is none.
LEMMA Refused ==
  ASSUME NEW s \in Services, NEW type
  PROVE  /\ ParseCIPReadResponse(Refusal(s), type).err = "CIP error" /\ ParseCIPResponse(Refusal(s)).err = "CIP error"
         /\ Told(Refusal(s)) = 0
         /\ ParseCIPResponse(Reply(s, <<>>)).err = "none"
  <1>1. Code[s] + ReplyBit >= ReplyBit /\ ReplyBit \in Nat /\ Code[s] + ReplyBit \in Nat
    BY Codes, Sizes DEF Bytes, ReplyBit, Half
  <1>2. Fail("CIP error").err = "CIP error"
    BY DEF Fail
  <1>3. ParseCIPResponse(Refusal(s)) = Fail("CIP error")
    <2> DEFINE r == Refusal(s)
    <2>1. Len(r) = 2 /\ r[1] = Code[s] + ReplyBit /\ r[2] = 1
      BY DEF Refusal
    <2> HIDE DEF r
    <2>2. ~(Len(r) < 2) /\ ~(r[1] < ReplyBit) /\ CIPStatusToError(r[2])
      BY <1>1, <2>1 DEF CIPStatusToError
    <2>3. ParseCIPResponse(r) = Fail("CIP error")
      BY <2>2 DEF ParseCIPResponse
    <2> QED BY <2>3 DEF r
  <1>4. ParseCIPReadResponse(Refusal(s), type) = Fail("CIP error")
    BY <1>2, <1>3 DEF ParseCIPReadResponse
  <1>5. Told(Refusal(s)) = 0
    BY DEF Told, Refusal
  <1>6. ParseCIPResponse(Reply(s, <<>>)).err = "none"
    <2> DEFINE r == Reply(s, <<>>)
    <2>1. Len(r) = 2 /\ r[1] = Code[s] + ReplyBit /\ r[2] = 0
      <3>1. r = <<Code[s] + ReplyBit, 0>>
        BY <1>1 DEF Reply
      <3> QED BY <3>1
    <2> HIDE DEF r
    <2>2. ~(Len(r) < 2) /\ ~(r[1] < ReplyBit) /\ ~CIPStatusToError(r[2])
      BY <1>1, <2>1 DEF CIPStatusToError
    <2>3. ParseCIPResponse(r) = Ok(Value("bytes", SubSeq(r, 3, Len(r))))
      BY <2>2 DEF ParseCIPResponse
    <2>4. ParseCIPResponse(r).err = "none"
      BY <2>3 DEF Ok
    <2> QED BY <2>4 DEF r
  <1> QED BY <1>2, <1>3, <1>4, <1>5, <1>6

-----------------------------------------------------------------------------
(* What the PLC takes a request for                                        *)

LEMMA Paths ==
  ASSUME NEW name \in Seq(Bytes)
  PROVE  BuildCIPPath(name) \in Seq(Bytes)
  <1>1. CASE name = <<>>
    BY <1>1 DEF BuildCIPPath
  <1>2. CASE name # <<>>
    BY <1>2, PathShape
  <1> QED BY <1>1, <1>2

LEMMA NoneServable ==
  ~Servable(NoAccess)
  BY DEF Servable, NoAccess, Access

LEMMA SeenRead ==
  ASSUME NEW name \in Seq(Bytes)
  PROVE  LET seen == Seen(BuildCIPReadRequest(name, 1))
         IN  /\ Len(name) \in 1..(Byte - 1) => seen = Access("read", name, "other", <<>>)
             /\ Len(name) \notin 1..(Byte - 1) /\ Plain(name) => seen = NoAccess
  <1>1. BuildCIPReadRequest(name, 1) = Request("ReadTag", name, PutUint16(1)) /\ "ReadTag" \in Services
    BY DEF BuildCIPReadRequest, Request, Services
  <1>2. /\ PutUint16(1) \in Seq(Bytes) /\ Len(PutUint16(1)) = 2
        /\ Requests(Code["ReadTag"], name, PutUint16(1)) = {Access("read", name, "other", <<>>)}
    BY ReadRequests
  <1>3. Len(PutUint16(1)) =< 6 /\ Len(PutUint16(1)) >= 1
    <2>1. \A s : Len(s) = 2 => Len(s) =< 6 /\ Len(s) >= 1
      OBVIOUS
    <2> QED BY <1>2, <2>1, Zenon
  <1>4. ASSUME Len(name) \in 1..(Byte - 1) PROVE Seen(BuildCIPReadRequest(name, 1)) = Access("read", name, "other", <<>>)
    <2> DEFINE found == Requests(Code["ReadTag"], name, PutUint16(1))
    <2>1. Seen(Request("ReadTag", name, PutUint16(1))) = IF found = {} THEN NoAccess ELSE CHOOSE a \in found : TRUE
      BY <1>1, <1>2, <1>3, <1>4, SeenWell
    <2>2. found = {Access("read", name, "other", <<>>)}
      BY <1>2
    <2> HIDE DEF found
    <2> QED BY <1>1, <2>1, <2>2
  <1>5. ASSUME Len(name) \notin 1..(Byte - 1), Plain(name) PROVE Seen(BuildCIPReadRequest(name, 1)) = NoAccess
    BY <1>1, <1>2, <1>3, <1>5, SeenIll
  <1> QED BY <1>4, <1>5

\* A write is a request of the service WriteTag.
LEMMA WriteShape ==
  ASSUME NEW name \in Seq(Bytes), NEW type \in DataTypes \ {"other"}, NEW data \in Seq(Bytes), Len(data) = Width(type)
  PROVE  LET p == <<Code[type], 1>> \o data
         IN  p \in Seq(Bytes) /\ BuildCIPWriteRequest(name, type, data) = Request("WriteTag", name, p)
  <1> DEFINE p == <<Code[type], 1>> \o data
  <1> DEFINE front == <<Code["WriteTag"], Words(BuildCIPPath(name))>> \o BuildCIPPath(name)
             what == <<Code[type], 1>>
  <1>1. front \in Seq(Bytes) /\ what \in Seq(Bytes)
    <2>1. "WriteTag" \in Services /\ BuildCIPPath(name) \in Seq(Bytes)
      BY Paths DEF Services
    <2>2. Words(BuildCIPPath(name)) \in Bytes /\ Code["WriteTag"] \in Bytes /\ Code[type] \in Bytes /\ 1 \in Bytes
      <3>1. data \in Seq(Bytes) /\ "WriteTag" \in Services /\ BuildCIPPath(name) \in Seq(Bytes)
        BY <2>1
      <3>2. Words(BuildCIPPath(name)) \in Bytes
        BY ONLY <3>1, RequestShape
      <3>3. Code["WriteTag"] \in Bytes /\ Code[type] \in Bytes
        BY <2>1, Codes
      <3> QED BY <3>2, <3>3, Sizes DEF Bytes
    <2>3. <<Code["WriteTag"], Words(BuildCIPPath(name))>> \in Seq(Bytes) /\ what \in Seq(Bytes)
      BY <2>2
    <2> HIDE DEF what
    <2> QED BY ONLY <2>1, <2>3, Joined DEF front
  <1>2. BuildCIPWriteRequest(name, type, data) = front \o what \o data
    BY DEF BuildCIPWriteRequest
  <1>3. Request("WriteTag", name, p) = front \o (what \o data)
    BY DEF Request
  <1> HIDE DEF front, what
  <1>4. (front \o what) \o data = front \o (what \o data)
    BY <1>1, ConcatAssociative
  <1>5. p \in Seq(Bytes)
    BY WriteRequests
  <1> QED BY <1>2, <1>3, <1>4, <1>5

LEMMA SeenWrite ==
  ASSUME NEW name \in Seq(Bytes), NEW type \in DataTypes \ {"other"}, NEW data \in Seq(Bytes), Len(data) = Width(type)
  PROVE  LET seen == Seen(BuildCIPWriteRequest(name, type, data))
         IN  /\ Len(name) \in 1..(Byte - 1) => seen = Access("write", name, type, data)
             /\ Len(name) \notin 1..(Byte - 1) /\ Plain(name) => seen = NoAccess
  <1> DEFINE p == <<Code[type], 1>> \o data
  <1>1. BuildCIPWriteRequest(name, type, data) = Request("WriteTag", name, p) /\ "WriteTag" \in Services
    <2>1. "WriteTag" \in Services
      BY DEF Services
    <2> QED BY <2>1, WriteShape
  <1>2. p \in Seq(Bytes) /\ Len(p) = 2 + Width(type) /\ Requests(Code["WriteTag"], name, p) = {Access("write", name, type, data)}
    BY WriteRequests
  <1> HIDE DEF p
  <1>3. Len(p) =< 6 /\ Len(p) >= 1
    <2>1. Width(type) \in {1, 2, 4}
      BY Zenon DEF Width
    <2> QED BY <1>2, <2>1
  <1>4. ASSUME Len(name) \in 1..(Byte - 1)
        PROVE  Seen(BuildCIPWriteRequest(name, type, data)) = Access("write", name, type, data)
    <2> DEFINE found == Requests(Code["WriteTag"], name, p)
    <2>1. Seen(Request("WriteTag", name, p)) = IF found = {} THEN NoAccess ELSE CHOOSE a \in found : TRUE
      BY <1>1, <1>2, <1>3, <1>4, SeenWell
    <2>2. found = {Access("write", name, type, data)}
      BY <1>2
    <2> HIDE DEF found
    <2> QED BY <1>1, <2>1, <2>2
  <1>5. ASSUME Len(name) \notin 1..(Byte - 1), Plain(name)
        PROVE  Seen(BuildCIPWriteRequest(name, type, data)) = NoAccess
    BY <1>1, <1>2, <1>3, <1>5, SeenIll
  <1> QED BY <1>4, <1>5

\* Whatever the name, a write is taken for a write of bytes, or for nothing.
LEMMA SeenTyped ==
  ASSUME NEW r \in Seq(Bytes), Len(r) >= 2, r[1] = Code["WriteTag"]
  PROVE  \/ Seen(r) = NoAccess
         \/ (Seen(r).do = "write" /\ Seen(r).data \in Seq(Bytes))
  <1> DEFINE pathEnd == 2 + 2 * r[2]
             path    == SubSeq(r, 3, pathEnd)
             rest    == SubSeq(r, pathEnd + 1, Len(r))
             found   == Requests(r[1], PathName(path), rest)
  <1>1. Seen(r) = NoAccess \/ (pathEnd =< Len(r) /\ Seen(r) \in found)
    <2>1. Seen(r) = LET f == IF SendRRData(r).Length = 6 + Len(r) /\ pathEnd =< Len(r) /\ IsPath(path)
                             THEN found ELSE {}
                    IN  IF f = {} THEN NoAccess ELSE CHOOSE a \in f : TRUE
      BY DEF Seen
    <2> HIDE DEF pathEnd, path, rest, found
    <2> QED BY <2>1
  <1> SUFFICES ASSUME pathEnd =< Len(r), Seen(r) \in found PROVE Seen(r).do = "write" /\ Seen(r).data \in Seq(Bytes)
    BY <1>1
  <1>2. Len(r) \in Nat /\ r[2] \in Nat
    <2>1. Len(r) \in Nat /\ 2 \in 1..Len(r)
      BY LenProperties
    <2>2. r[2] \in Bytes
      BY <2>1, ElementOfSeq
    <2> QED BY <2>1, <2>2, Sizes DEF Bytes
  <1>3. rest \in Seq(Bytes)
    <2>1. pathEnd + 1 \in Nat \ {0} /\ pathEnd + 1 =< Len(r) + 1 /\ Len(r) =< Len(r)
      BY <1>2
    <2> HIDE DEF pathEnd
    <2> QED BY <1>2, <2>1, Part
  <1> HIDE DEF rest, pathEnd, path
  <1>4. Code["ReadTag"] # Code["WriteTag"]
    BY CodecAssumption
  <1>5. Len(rest) > 2 /\ \E t \in DataTypes : Seen(r) = Access("write", PathName(path), t, SubSeq(rest, 3, Len(rest)))
    BY <1>4 DEF Requests
  <1>6. SubSeq(rest, 3, Len(rest)) \in Seq(Bytes)
    <2>1. 3 \in Nat \ {0} /\ Len(rest) \in Nat /\ Len(rest) =< Len(rest) /\ 3 =< Len(rest) + 1
      BY <1>3, <1>5, LenProperties
    <2> QED BY <1>3, <2>1, Part
  <1>7. \A n, t, d : Access("write", n, t, d).do = "write" /\ Access("write", n, t, d).data = d
    BY DEF Access
  <1>8. PICK t \in DataTypes : Seen(r) = Access("write", PathName(path), t, SubSeq(rest, 3, Len(rest)))
    BY <1>5
  <1>9. Seen(r).do = "write" /\ Seen(r).data = SubSeq(rest, 3, Len(rest))
    <2> DEFINE n == PathName(path)
               d == SubSeq(rest, 3, Len(rest))
    <2>1. Seen(r) = Access("write", n, t, d)
      BY <1>8
    <2> HIDE DEF n, d
    <2>2. Access("write", n, t, d).do = "write" /\ Access("write", n, t, d).data = d
      BY DEF Access
    <2>3. Seen(r).do = "write" /\ Seen(r).data = d
      BY <2>1, <2>2
    <2> QED BY <2>3 DEF d
  <1> QED BY <1>6, <1>9

-----------------------------------------------------------------------------
(* Accesses                                                                *)

LEMMA Fields ==
  ASSUME NEW a, NEW s, NEW t, NEW v, NEW r
  PROVE  /\ Op(a, s, t, v, r).asked = a /\ Op(a, s, t, v, r).seen = s /\ Op(a, s, t, v, r).told = t
         /\ Op(a, s, t, v, r).value = v /\ Op(a, s, t, v, r).res = r
  BY DEF Op

LEMMA AccessFields ==
  ASSUME NEW do, NEW name, NEW type, NEW data
  PROVE  LET a == Access(do, name, type, data)
         IN  /\ a.do = do /\ a.name = name /\ a.type = type /\ a.data = data
             /\ [a EXCEPT !.type = "other"] = Access(do, name, "other", data)
             /\ [a EXCEPT !.type = a.type] = a
  BY DEF Access

LEMMA NoAccessFields ==
  NoAccess.do = "none" /\ NoAccess.name = <<>> /\ NoAccess.type = "other" /\ NoAccess.data = <<>>
  BY DEF NoAccess, Access

LEMMA NoReplyFails == NoReply.err = "no reply"
  BY DEF NoReply, Fail

\* The variables but op, and the tags as they stand for what was written
Connections == client \in [Users -> {"none", "dialled", "registered", "closed"}]
TagsTyped ==
  /\ DOMAIN tags = DOMAIN Tags /\ DOMAIN last = DOMAIN Tags
  /\ \A n \in DOMAIN tags : tags[n].type = Tags[n].type /\ tags[n].data \in Seq(Bytes)
OpTyped ==
  /\ op.asked.data \in Seq(Bytes) /\ op.told \in 0..(Word - 1)
  /\ op.asked.do = "write" /\ op.res.err # "not sent" => Len(op.asked.data) = Width(op.asked.type)

LEMMA TypeParts == TypeOK <=> Connections /\ TagsTyped /\ OpTyped
  BY DEF TypeOK, Connections, TagsTyped, OpTyped

LEMMA AreTags ==
  ASSUME TagsTyped, NEW n \in DOMAIN tags
  PROVE  IsTag(tags[n])
  <1>1. StandsFor(Tags[n], Tags[n].value) /\ tags[n].type = Tags[n].type /\ tags[n].data \in Seq(Bytes)
    BY TagAccessAssumption DEF TagsTyped
  <1>2. Tags[n].type \in {"BOOL", "SINT", "INT", "DINT", "DWORD", "REAL", "STRING"}
    BY <1>1 DEF StandsFor
  <1> QED BY <1>1, <1>2 DEF IsTag, DataTypes

LEMMA ReplyTyped ==
  ASSUME NEW tag, IsTag(tag), NEW reply \in Replies(tag)
  PROVE  reply \in Seq(Bytes)
  <1>1. PICK n \in Nat : \E k \in 0..Len(TagReply(tag, n)) : reply = SubSeq(TagReply(tag, n), 1, k)
    BY RepliesCut
  <1>2. PICK k \in 0..Len(TagReply(tag, n)) : reply = SubSeq(TagReply(tag, n), 1, k)
    BY <1>1
  <1> QED BY <1>2, CutReply

\* How a read ends.
LEMMA ReadEnds ==
  ASSUME TagsTyped, NEW u, NEW name \in Names, NEW type \in DataTypes, ReadTag(u, name, type)
  PROVE  LET asked == Access("read", name, type, <<>>)
             seen  == Seen(BuildCIPReadRequest(name, 1))
         IN  /\ UNCHANGED <<tags, last>>
             /\ \/ /\ Servable(seen) /\ seen.name \in DOMAIN tags
                   /\ \E reply \in Replies(tags[seen.name]) :
                        Returns(asked, seen, Told(reply), NoValue, ParseCIPReadResponse(reply, type))
                \/ \E res : Returns(asked, seen, 0, NoValue, res) /\ res.err \in {"CIP error", "no reply"}
  <1> DEFINE asked == Access("read", name, type, <<>>)
             seen  == Seen(BuildCIPReadRequest(name, 1))
             Gets(reply) == Returns(asked, seen, Told(reply), NoValue, ParseCIPReadResponse(reply, type))
             Fails == \E res : Returns(asked, seen, 0, NoValue, res) /\ res.err \in {"CIP error", "no reply"}
  <1>1. /\ UNCHANGED <<tags, last>>
        /\ \/ Servable(seen) /\ \E reply \in Replies(tags[seen.name]) : Gets(reply)
           \/ Gets(Refusal("ReadTag"))
           \/ Returns(asked, seen, 0, NoValue, NoReply)
    BY DEF ReadTag
  <1>2. ASSUME Gets(Refusal("ReadTag")) PROVE Fails
    <2>1. "ReadTag" \in Services
      BY DEF Services
    <2> DEFINE res == ParseCIPReadResponse(Refusal("ReadTag"), type)
    <2>2. Told(Refusal("ReadTag")) = 0 /\ res.err = "CIP error"
      BY <2>1, Refused
    <2>3. Returns(asked, seen, 0, NoValue, res)
      BY <1>2, <2>2
    <2> HIDE DEF res, asked, seen
    <2> QED BY <2>2, <2>3
  <1>3. ASSUME Returns(asked, seen, 0, NoValue, NoReply) PROVE Fails
    <2> HIDE DEF asked, seen
    <2> QED BY <1>3, NoReplyFails
  <1>4. Servable(seen) => seen.name \in DOMAIN tags
    BY DEF Servable
  <1> HIDE DEF Fails, Gets, asked, seen
  <1>5. /\ UNCHANGED <<tags, last>>
        /\ \/ Servable(seen) /\ seen.name \in DOMAIN tags /\ \E reply \in Replies(tags[seen.name]) : Gets(reply)
           \/ Fails
    BY <1>1, <1>2, <1>3, <1>4
  <1> QED BY <1>5 DEF Fails, Gets, asked, seen

\* How a write ends.
LEMMA WriteEnds ==
  ASSUME NEW u, NEW name, NEW type, NEW value, WriteTag(u, name, type, value)
  PROVE  LET asked == Access("write", name, type, WriteData(type, value.v[1]))
             seen  == Seen(BuildCIPWriteRequest(name, type, asked.data))
         IN  /\ Convertible(type, value)
             /\ \/ /\ Servable(seen) /\ Store(seen, value)
                   /\ \E res : Returns(asked, seen, 0, value, res) /\ res.err \in {"none", "no reply"}
                \/ /\ UNCHANGED <<tags, last>>
                   /\ \E res : Returns(asked, seen, 0, value, res) /\ res.err = "CIP error"
  <1> DEFINE asked == Access("write", name, type, WriteData(type, value.v[1]))
             seen  == Seen(BuildCIPWriteRequest(name, type, asked.data))
             Gets(reply) == Returns(asked, seen, 0, value, ParseCIPResponse(reply))
             Ends(errs) == \E res : Returns(asked, seen, 0, value, res) /\ res.err \in errs
  <1>1. /\ Convertible(type, value)
        /\ \/ /\ Servable(seen) /\ Store(seen, value)
              /\ Gets(Reply("WriteTag", <<>>)) \/ Returns(asked, seen, 0, value, NoReply)
           \/ Gets(Refusal("WriteTag")) /\ UNCHANGED <<tags, last>>
    BY DEF WriteTag
  <1>2. "WriteTag" \in Services
    BY DEF Services
  <1>3. ASSUME Gets(Refusal("WriteTag")) PROVE Ends({"CIP error"})
    <2> DEFINE res == ParseCIPResponse(Refusal("WriteTag"))
    <2>1. Returns(asked, seen, 0, value, res) /\ res.err = "CIP error"
      BY <1>2, <1>3, Refused
    <2> HIDE DEF res, asked, seen
    <2> QED BY <2>1
  <1>4. ASSUME Gets(Reply("WriteTag", <<>>)) PROVE Ends({"none", "no reply"})
    <2> DEFINE res == ParseCIPResponse(Reply("WriteTag", <<>>))
    <2>1. Returns(asked, seen, 0, value, res) /\ res.err = "none"
      BY <1>2, <1>4, Refused
    <2> HIDE DEF res, asked, seen
    <2> QED BY <2>1
  <1>5. ASSUME Returns(asked, seen, 0, value, NoReply) PROVE Ends({"none", "no reply"})
    <2> HIDE DEF asked, seen
    <2> QED BY <1>5, NoReplyFails
  <1> HIDE DEF Gets, Ends, asked, seen
  <1>6. /\ Convertible(type, value)
        /\ \/ Servable(seen) /\ Store(seen, value) /\ Ends({"none", "no reply"})
           \/ UNCHANGED <<tags, last>> /\ Ends({"CIP error"})
    BY <1>1, <1>3, <1>4, <1>5
  <1>7. Ends({"CIP error"}) <=> \E res : Returns(asked, seen, 0, value, res) /\ res.err = "CIP error"
    BY DEF Ends
  <1>8. Ends({"none", "no reply"}) <=> \E res : Returns(asked, seen, 0, value, res) /\ res.err \in {"none", "no reply"}
    BY DEF Ends
  <1> HIDE DEF Ends
  <1> QED BY <1>6, <1>7, <1>8 DEF asked, seen

\* The access that returns is the one that was made.
LEMMA Returned ==
  ASSUME NEW a, NEW s, NEW t, NEW v, NEW r, Returns(a, s, t, v, r)
  PROVE  /\ op'.asked = a /\ op'.seen = s /\ op'.told = t /\ op'.value = v /\ op'.res = r
         /\ Connections => Connections'
  <1>1. op' = Op(a, s, t, v, r)
    BY DEF Returns
  <1>2. Connections => Connections'
    BY DEF Returns, Connections
  <1> QED BY <1>1, <1>2, Fields

LEMMA NameTyped ==
  ASSUME NEW name \in Names
  PROVE  name \in Seq(Bytes) /\ Len(name) \in Nat
  BY TagAccessAssumption, LenProperties DEF Bytes

LEMMA ReadTyped ==
  ASSUME TypeOK, NEW u, NEW name \in Names, NEW type \in DataTypes, ReadTag(u, name, type)
  PROVE  TypeOK' /\ Understood' /\ UtilAgrees'
  <1> DEFINE asked == Access("read", name, type, <<>>)
             seen  == Seen(BuildCIPReadRequest(name, 1))
  <1>1. TagsTyped /\ Connections /\ OpTyped
    BY TypeParts
  <1>2. /\ UNCHANGED <<tags, last>>
        /\ \/ /\ Servable(seen) /\ seen.name \in DOMAIN tags
              /\ \E reply \in Replies(tags[seen.name]) :
                   Returns(asked, seen, Told(reply), NoValue, ParseCIPReadResponse(reply, type))
           \/ \E res : Returns(asked, seen, 0, NoValue, res) /\ res.err \in {"CIP error", "no reply"}
    BY <1>1, ReadEnds
  <1>3. name \in Seq(Bytes) /\ Len(name) \in Nat
    BY NameTyped
  <1>4. /\ Len(name) \in 1..(Byte - 1) => seen = Access("read", name, "other", <<>>)
        /\ Len(name) \notin 1..(Byte - 1) /\ Plain(name) => seen = NoAccess
    BY <1>3, SeenRead
  <1>5. /\ asked.do = "read" /\ asked.name = name /\ asked.data = <<>>
        /\ [asked EXCEPT !.type = "other"] = Access("read", name, "other", <<>>)
    BY AccessFields
  <1> HIDE DEF asked, seen
  <1>6. PICK told, res :
          told \in 0..(Word - 1) /\ Returns(asked, seen, told, NoValue, res) /\ (~Servable(seen) => res.err \in {"CIP error", "no reply"})
    <2>1. CASE \E res : Returns(asked, seen, 0, NoValue, res) /\ res.err \in {"CIP error", "no reply"}
      <3>1. 0 \in 0..(Word - 1)
        BY Sizes
      <3> QED BY <2>1, <3>1
    <2>2. ASSUME Servable(seen), seen.name \in DOMAIN tags, NEW reply \in Replies(tags[seen.name]),
                 Returns(asked, seen, Told(reply), NoValue, ParseCIPReadResponse(reply, type))
          PROVE  \E told, res :
                   told \in 0..(Word - 1) /\ Returns(asked, seen, told, NoValue, res) /\ (~Servable(seen) => res.err \in {"CIP error", "no reply"})
      <3>1. IsTag(tags[seen.name])
        BY <1>1, <2>2, AreTags
      <3>2. reply \in Seq(Bytes)
        BY <2>2, <3>1, ReplyTyped
      <3>3. Told(reply) \in 0..(Word - 1)
        BY <3>2, ToldRange
      <3> QED BY <2>2, <3>3
    <2> QED BY <1>2, <2>1, <2>2
  <1>7. op'.asked = asked /\ op'.seen = seen /\ op'.told = told /\ op'.res = res /\ Connections'
    BY <1>1, <1>6, Returned
  <1>8. TypeOK'
    <2>1. TagsTyped'
      BY <1>1, <1>2 DEF TagsTyped
    <2>2. OpTyped'
      <3>1. <<>> \in Seq(Bytes) /\ op'.asked.data = <<>>
        BY <1>5, <1>7
      <3>2. op'.told \in 0..(Word - 1)
        BY <1>6, <1>7
      <3>3. op'.asked.do # "write"
        BY <1>5, <1>7
      <3> QED BY <3>1, <3>2, <3>3 DEF OpTyped
    <2> QED BY <1>7, <2>1, <2>2, TypeParts, PTL
  <1>9. Understood'
    <2>1. ASSUME Len(name) \in 1..(Byte - 1)
          PROVE  op'.seen = [op'.asked EXCEPT !.type = IF op'.asked.do = "read" THEN "other" ELSE @]
      BY <1>4, <1>5, <1>7, <2>1
    <2>2. ASSUME Len(name) \notin 1..(Byte - 1), Plain(name)
          PROVE  op'.seen = NoAccess /\ op'.res.err # "none"
      <3>1. seen = NoAccess
        BY <1>4, <2>2
      <3>2. res.err \in {"CIP error", "no reply"}
        BY <1>6, <3>1, NoneServable
      <3> QED BY <1>7, <3>1, <3>2
    <2>3. op'.asked.name = name
      BY <1>5, <1>7
    <2> QED BY <2>1, <2>2, <2>3 DEF Understood
  <1>10. UtilAgrees'
    BY <1>5, <1>7 DEF UtilAgrees
  <1> QED BY <1>8, <1>9, <1>10

\* What WriteTag asserts of the value it is given.
LEMMA Converts ==
  ASSUME NEW type \in DataTypes, NEW value, Convertible(type, value), value.go # "string" => IsNumber(value)
  PROVE  type \in DataTypeOfGo /\ type \in DataTypes \ {"other"} /\ value.go = GoType[type] /\ IsNumber(value)
  <1>1. type \in DataTypeOfGo /\ value.go = GoType[type]
    BY GoTypes DEF Convertible
  <1>2. value.go # "string"
    BY <1>1, GoTypes DEF DataTypeOfGo
  <1> QED BY <1>1, <1>2 DEF DataTypeOfGo, DataTypes

LEMMA WriteTyped ==
  ASSUME TypeOK, NEW u, NEW name \in Names, NEW type \in DataTypes, NEW value,
         value.go # "string" => IsNumber(value), WriteTag(u, name, type, value)
  PROVE  TypeOK' /\ Understood' /\ UtilAgrees'
  <1> DEFINE data  == WriteData(type, value.v[1])
             asked == Access("write", name, type, data)
             r     == BuildCIPWriteRequest(name, type, asked.data)
             seen  == Seen(r)
  <1>1. TagsTyped /\ Connections /\ OpTyped
    BY TypeParts
  <1>2. /\ Convertible(type, value)
        /\ \/ /\ Servable(seen) /\ Store(seen, value)
              /\ \E res : Returns(asked, seen, 0, value, res) /\ res.err \in {"none", "no reply"}
           \/ /\ UNCHANGED <<tags, last>>
              /\ \E res : Returns(asked, seen, 0, value, res) /\ res.err = "CIP error"
    BY ZenonT(60), WriteEnds
  <1>3. name \in Seq(Bytes) /\ Len(name) \in Nat
    BY NameTyped
  <1>4. type \in DataTypeOfGo /\ type \in DataTypes \ {"other"} /\ value.go = GoType[type] /\ IsNumber(value)
    BY <1>2, Converts
  <1>5. data \in Seq(Bytes) /\ Len(data) = Width(type)
    BY <1>4, Sent
  <1>6. /\ asked.do = "write" /\ asked.name = name /\ asked.data = data /\ asked.type = type
        /\ [asked EXCEPT !.type = asked.type] = asked
    BY AccessFields
  <1>7. /\ Len(name) \in 1..(Byte - 1) => seen = asked
        /\ Len(name) \notin 1..(Byte - 1) /\ Plain(name) => seen = NoAccess
    <2>1. r = BuildCIPWriteRequest(name, type, data)
      BY <1>6
    <2> HIDE DEF data, r
    <2> QED BY <1>3, <1>4, <1>5, <2>1, SeenWrite
  <1>8. seen = NoAccess \/ (seen.do = "write" /\ seen.data \in Seq(Bytes))
    <2>1. r \in Seq(Bytes) /\ Len(r) >= 2 /\ r[1] = Code["WriteTag"]
      <3> DEFINE p == <<Code[type], 1>> \o data
      <3>1. p \in Seq(Bytes) /\ r = Request("WriteTag", name, p)
        <4>1. r = BuildCIPWriteRequest(name, type, data)
          BY <1>6
        <4> HIDE DEF data, r
        <4> QED BY <1>3, <1>4, <1>5, <4>1, WriteShape
      <3>2. "WriteTag" \in Services /\ BuildCIPPath(name) \in Seq(Bytes)
        BY <1>3, Paths DEF Services
      <3> HIDE DEF p, r
      <3>3. /\ r \in Seq(Bytes) /\ Len(r) = (2 + Len(BuildCIPPath(name))) + Len(p) /\ r[1] = Code["WriteTag"]
        BY <3>1, <3>2, RequestShape
      <3>4. Len(BuildCIPPath(name)) \in Nat /\ Len(p) \in Nat
        BY <3>1, <3>2, LenProperties
      <3> QED BY <3>3, <3>4
    <2> HIDE DEF r
    <2> QED BY <2>1, SeenTyped
  <1>13. ASSUME op'.asked = asked, op'.value = value PROVE UtilAgrees'
    <2> SUFFICES ASSUME type # "SINT"
                 PROVE  /\ Encode(type, value.v[1]) = data /\ Decode(type, data) = Ok(value)
                        /\ Decode(type, Tail(data)).err # "none"
      <3> HIDE DEF data, asked
      <3> QED BY <1>6, <1>13 DEF UtilAgrees
    <2> QED BY <1>4, Helpers
  <1> HIDE DEF asked, seen, r, data
  <1>9. PICK res : Returns(asked, seen, 0, value, res) /\ (~Servable(seen) => res.err = "CIP error")
    BY <1>2
  <1>10. op'.asked = asked /\ op'.seen = seen /\ op'.told = 0 /\ op'.value = value /\ op'.res = res /\ Connections'
    BY <1>1, <1>9, Returned
  <1>11. TypeOK'
    <2>1. TagsTyped'
      <3>1. CASE UNCHANGED <<tags, last>>
        BY <1>1, <3>1 DEF TagsTyped
      <3>2. CASE Servable(seen) /\ Store(seen, value)
        <4>1. seen.do = "write" /\ seen.data \in Seq(Bytes) /\ seen.name \in DOMAIN tags /\ tags[seen.name].type = seen.type
          BY <1>8, <3>2, NoneServable DEF Servable
        <4>2. /\ tags' = [tags EXCEPT ![seen.name] = [type |-> seen.type, data |-> seen.data]]
              /\ last' = [last EXCEPT ![seen.name] = value]
          BY <3>2 DEF Store
        <4> QED BY <1>1, <4>1, <4>2 DEF TagsTyped
      <3> QED BY <1>2, <3>1, <3>2
    <2>2. OpTyped'
      <3>1. op'.asked.data \in Seq(Bytes) /\ Len(op'.asked.data) = Width(op'.asked.type)
        BY <1>5, <1>6, <1>10
      <3>2. op'.told \in 0..(Word - 1)
        BY <1>10, Sizes
      <3> QED BY <3>1, <3>2 DEF OpTyped
    <2> QED BY <1>10, <2>1, <2>2, TypeParts, PTL
  <1>12. Understood'
    <2>1. ASSUME Len(name) \in 1..(Byte - 1)
          PROVE  op'.seen = [op'.asked EXCEPT !.type = IF op'.asked.do = "read" THEN "other" ELSE @]
      BY <1>6, <1>7, <1>10, <2>1
    <2>2. ASSUME Len(name) \notin 1..(Byte - 1), Plain(name)
          PROVE  op'.seen = NoAccess /\ op'.res.err # "none"
      BY <1>7, <1>9, <1>10, <2>2, NoneServable
    <2>3. op'.asked.name = name
      BY <1>6, <1>10
    <2> QED BY <2>1, <2>2, <2>3 DEF Understood
  <1> QED BY <1>10, <1>11, <1>12, <1>13

\* A tag that is read has the value it was last written with, whoever wrote it and although
\* it has been bytes in between, down to the smallest and the largest integer; else there is
\* an error (plc.go:37-116, cip.go:277-323).  Not so for REAL, see RealReadBack.
ReadBack ==
  LET name == op.asked.name  type == op.asked.type
  IN  op.asked.do = "read" /\ op.res.err = "none" /\ type # "REAL"
      /\ (type = "STRING" => op.told = Len(tags[name].data))
      => name \in DOMAIN tags /\ op.res.value = last[name]

\* WriteTag returns nil only when the PLC holds the value (plc.go:103-115); an error after
\* the request was sent leaves open which.
AckIsStored ==
  op.asked.do = "write" /\ op.res.err = "none" =>
    /\ op.asked.name \in DOMAIN tags
    /\ last[op.asked.name] = op.value /\ tags[op.asked.name].data = op.asked.data

\* What one access is judged by, and what it is judged against
Judged == ReadBack /\ AckIsStored /\ StringWhole
Stored == \A n \in DOMAIN tags : StandsFor(tags[n], last[n])
PlainNames == \A n \in Names : Plain(n)

LEMMA RejectKeeps ==
  ASSUME TypeOK, NEW u, NEW type, NEW value, WriteTagRejects(u, type, value)
  PROVE  /\ TypeOK' /\ Understood' /\ UtilAgrees' /\ (Stored => Stored') /\ Judged'
         /\ UNCHANGED <<tags, last>> /\ op'.res.err = "not sent" /\ op'.asked.do = "write"
  <1> DEFINE asked == Access("write", <<>>, type, <<>>)
             res   == Fail("not sent")
  <1>1. Returns(asked, NoAccess, 0, value, res) /\ UNCHANGED <<tags, last>>
    BY DEF WriteTagRejects
  <1>2. asked.do = "write" /\ asked.data = <<>>
    BY AccessFields
  <1>3. res.err = "not sent"
    BY DEF Fail
  <1> HIDE DEF asked, res
  <1>4. op'.asked = asked /\ op'.told = 0 /\ op'.res = res /\ (Connections => Connections')
    BY <1>1, Returned
  <1>5. op'.asked.do = "write" /\ op'.asked.data = <<>> /\ op'.res.err = "not sent"
    BY <1>2, <1>3, <1>4
  <1>6. TypeOK'
    <2>1. Connections' /\ TagsTyped'
      BY <1>1, <1>4, TypeParts DEF TagsTyped
    <2>2. OpTyped'
      <3>1. <<>> \in Seq(Bytes)
        OBVIOUS
      <3>2. op'.asked.data \in Seq(Bytes)
        BY <1>5, <3>1
      <3>3. op'.told \in 0..(Word - 1)
        BY <1>4, Sizes
      <3> QED BY <1>5, <3>2, <3>3 DEF OpTyped
    <2> QED BY <2>1, <2>2, TypeParts, PTL
  <1>7. Understood' /\ ReadBack' /\ AckIsStored' /\ StringWhole' /\ UtilAgrees'
    BY <1>5 DEF Understood, ReadBack, AckIsStored, StringWhole, UtilAgrees
  <1>8. Stored => Stored'
    BY <1>1 DEF Stored
  <1> QED BY <1>1, <1>5, <1>6, <1>7, <1>8 DEF Judged

\* A request without a path is taken for nothing.
LEMMA SeenBare ==
  ASSUME NEW s
  PROVE  Seen(<<Code[s], 0>>) = NoAccess
  <1> DEFINE r == <<Code[s], 0>>
             path == SubSeq(r, 3, 2 + 2 * r[2])
  <1>1. r[2] = 0 /\ 2 + 2 * 0 = 2
    OBVIOUS
  <1>2. path = SubSeq(r, 3, 2)
    BY <1>1
  <1>3. SubSeq(r, 3, 2) = <<>>
    <2>1. r \in Seq({Code[s], 0})
      OBVIOUS
    <2> HIDE DEF r
    <2>2. 3 > 2 /\ 3 \in Nat /\ 2 \in Nat
      OBVIOUS
    <2>3. SubSeq(r, 3, 2) \in Seq({Code[s], 0}) /\ Len(SubSeq(r, 3, 2)) = (2 - 3) + 1
      <3>1. Len(<<Code[s], 0>>) = 2 /\ 3 \in Nat \ {0} /\ 2 \in Nat /\ 2 =< 2 /\ 3 =< 2 + 1
        OBVIOUS
      <3> QED BY <2>1, <3>1, Part DEF r
    <2>4. Len(SubSeq(r, 3, 2)) = 0
      BY <2>3
    <2> QED BY <2>3, <2>4, EmptySeq
  <1>4. ~IsPath(path)
    BY <1>2, <1>3 DEF IsPath
  <1> HIDE DEF path
  <1> QED BY <1>4 DEF Seen, path

LEMMA ExchangeKeeps ==
  ASSUME TypeOK, NEW do, Exchange(do)
  PROVE  /\ TypeOK' /\ Understood' /\ UtilAgrees' /\ (Stored => Stored') /\ Judged'
         /\ UNCHANGED <<tags, last>> /\ op'.asked.do = "none"
  <1>1. PICK seen, res : Returns(NoAccess, seen, 0, NoValue, res) /\ seen = NoAccess
    <2>1. \/ \E res : Returns(NoAccess, NoAccess, 0, NoValue, res)
          \/ \E res : Returns(NoAccess, Seen(<<Code[do], 0>>), 0, NoValue, res)
      BY DEF Exchange
    <2> QED BY <2>1, SeenBare
  <1>2. UNCHANGED <<tags, last>>
    BY DEF Exchange
  <1>3. op'.asked = NoAccess /\ op'.seen = NoAccess /\ op'.told = 0 /\ op'.res = res /\ (Connections => Connections')
    BY <1>1, Returned
  <1>4. op'.asked.do = "none" /\ op'.asked.data = <<>> /\ op'.asked.name = <<>>
    BY <1>3, NoAccessFields
  <1>5. TypeOK'
    <2>1. Connections' /\ TagsTyped'
      BY <1>2, <1>3, TypeParts DEF TagsTyped
    <2>2. OpTyped'
      BY <1>3, <1>4, Sizes DEF OpTyped
    <2> QED BY <2>1, <2>2, TypeParts, PTL
  <1>6. ReadBack' /\ AckIsStored' /\ StringWhole' /\ UtilAgrees'
    BY <1>4 DEF ReadBack, AckIsStored, StringWhole, UtilAgrees
  <1>7. Understood'
    <2>1. Len(<<>>) \notin 1..(Byte - 1)
      BY Sizes
    <2> QED BY <1>3, <1>4, <2>1 DEF Understood
  <1>8. Stored => Stored'
    BY <1>2 DEF Stored
  <1> QED BY <1>2, <1>4, <1>5, <1>6, <1>7, <1>8 DEF Judged

\* With nothing to judge, nothing is wrong.
LEMMA NoOpKeeps ==
  op = NoOp => OpTyped /\ Understood /\ UtilAgrees /\ Judged
  <1> SUFFICES ASSUME op = NoOp PROVE OpTyped /\ Understood /\ UtilAgrees /\ Judged
    OBVIOUS
  <1>1. op.asked = NoAccess /\ op.seen = NoAccess /\ op.told = 0
    BY Fields DEF NoOp
  <1>2. op.asked.do = "none" /\ op.asked.data = <<>> /\ op.asked.name = <<>>
    BY <1>1, NoAccessFields
  <1>3. OpTyped
    BY <1>1, <1>2, Sizes DEF OpTyped
  <1>4. Understood
    <2>1. Len(<<>>) \notin 1..(Byte - 1)
      BY Sizes
    <2> QED BY <1>1, <1>2, <2>1 DEF Understood
  <1>5. ReadBack /\ AckIsStored /\ StringWhole /\ UtilAgrees
    BY <1>2 DEF ReadBack, AckIsStored, StringWhole, UtilAgrees
  <1> QED BY <1>3, <1>4, <1>5 DEF Judged

LEMMA ReadJudged ==
  ASSUME TypeOK, Stored, PlainNames, NEW u, NEW name \in Names, NEW type \in DataTypes, ReadTag(u, name, type)
  PROVE  Stored' /\ Judged' /\ UNCHANGED <<tags, last>> /\ op'.asked.do = "read"
  <1> DEFINE asked == Access("read", name, type, <<>>)
             seen  == Seen(BuildCIPReadRequest(name, 1))
  <1>1. TagsTyped
    BY TypeParts
  <1>2. /\ UNCHANGED <<tags, last>>
        /\ \/ /\ Servable(seen) /\ seen.name \in DOMAIN tags
              /\ \E reply \in Replies(tags[seen.name]) :
                   Returns(asked, seen, Told(reply), NoValue, ParseCIPReadResponse(reply, type))
           \/ \E res : Returns(asked, seen, 0, NoValue, res) /\ res.err \in {"CIP error", "no reply"}
    BY <1>1, ReadEnds
  <1>3. name \in Seq(Bytes) /\ Len(name) \in Nat /\ Plain(name)
    BY NameTyped DEF PlainNames
  <1>4. seen = Access("read", name, "other", <<>>) \/ seen = NoAccess
    BY <1>3, SeenRead
  <1>5. asked.do = "read" /\ asked.name = name /\ asked.type = type /\ Access("read", name, "other", <<>>).name = name
    BY AccessFields
  <1> HIDE DEF asked, seen
  <1>6. Stored'
    BY <1>2 DEF Stored
  <1>7. CASE \E res : Returns(asked, seen, 0, NoValue, res) /\ res.err \in {"CIP error", "no reply"}
    <2>1. PICK res : Returns(asked, seen, 0, NoValue, res) /\ res.err \in {"CIP error", "no reply"}
      BY <1>7
    <2>2. op'.asked = asked /\ op'.res = res
      BY <2>1, Returned
    <2>3. op'.asked.do = "read" /\ op'.res.err \in {"CIP error", "no reply"}
      BY <1>5, <2>1, <2>2
    <2>4. ReadBack' /\ AckIsStored' /\ StringWhole'
      BY <2>3 DEF ReadBack, AckIsStored, StringWhole
    <2> QED BY <1>2, <1>6, <2>3, <2>4 DEF Judged
  <1>8. ASSUME Servable(seen), seen.name \in DOMAIN tags, NEW reply \in Replies(tags[seen.name]),
               Returns(asked, seen, Told(reply), NoValue, ParseCIPReadResponse(reply, type))
        PROVE  Judged' /\ op'.asked.do = "read"
    <2> DEFINE tag == tags[name]
               res == ParseCIPReadResponse(reply, type)
               told == Told(reply)
    <2>1. name \in DOMAIN tags /\ reply \in Replies(tag)
      <3>1. seen.name = name
        BY <1>4, <1>5, <1>8, NoneServable
      <3> QED BY <1>8, <3>1
    <2>2. IsTag(tag) /\ StandsFor(tag, last[name])
      BY <1>1, <2>1, AreTags DEF Stored
    <2>3. op'.asked = asked /\ op'.res = res /\ op'.told = told
      BY <1>8, Returned
    <2>4. op'.asked.do = "read" /\ op'.asked.name = name /\ op'.asked.type = type /\ tags' = tags /\ last' = last
      BY <1>2, <1>5, <2>3
    <2>5. type = "STRING" => /\ res.err = "none" => /\ told =< Len(tag.data)
                                                    /\ res.value = Value("string", SubSeq(tag.data, 1, told))
                             /\ res.err = "panic" => told >= Word - 4
                             /\ res.err = "none" => tag.type = "STRING"
      <3>1. SUFFICES ASSUME type = "STRING", res.err \in {"none", "panic"}
                     PROVE  /\ res.err = "none" => /\ told =< Len(tag.data)
                                                   /\ res.value = Value("string", SubSeq(tag.data, 1, told))
                            /\ res.err = "panic" => told >= Word - 4
                            /\ tag.type = "STRING"
        <4> HIDE DEF res, tag, told
        <4> QED OBVIOUS
      <3> HIDE DEF tag
      <3> QED BY <2>1, <2>2, <3>1, StringRead
    <2>6. type \in Numbers => (res.err = "none" => res.value = last[name])
      <3>1. SUFFICES ASSUME type \in Numbers, res.err = "none" PROVE res.value = last[name]
        <4> HIDE DEF res
        <4> QED OBVIOUS
      <3> DEFINE v == last[name]
      <3>2. StandsFor(tag, v)
        BY <2>2
      <3> HIDE DEF tag, v
      <3>3. res = Ok(v)
        BY <2>1, <2>2, <3>1, <3>2, NumberRead
      <3> HIDE DEF res
      <3>4. res.value = v
        BY <3>3 DEF Ok
      <3> QED BY <3>4 DEF v
    <2>7. type = "other" => res.err # "none"
      <3>1. SUFFICES ASSUME type = "other", res.err = "none" PROVE FALSE
        <4> HIDE DEF res
        <4> QED OBVIOUS
      <3> HIDE DEF tag
      <3>2. PICK n \in Nat : \E k \in 0..Len(TagReply(tag, n)) : reply = SubSeq(TagReply(tag, n), 1, k)
        BY <2>1, <2>2, RepliesCut
      <3>3. PICK k \in 0..Len(TagReply(tag, n)) : reply = SubSeq(TagReply(tag, n), 1, k)
        BY <3>2
      <3>4. type = tag.type
        BY <2>2, <3>1, <3>3, Parsed
      <3> QED BY <2>2, <3>1, <3>4 DEF IsTag
    <2>8. ReadBack'
      <3> SUFFICES ASSUME res.err = "none", type # "REAL", type = "STRING" => told = Len(tag.data)
                   PROVE  res.value = last[name]
        <4> HIDE DEF res, told
        <4> QED BY <2>1, <2>3, <2>4 DEF ReadBack
      <3>1. CASE type = "STRING"
        <4>1. tag.data \in Seq(Bytes)
          BY <2>2 DEF IsTag
        <4>2. SubSeq(tag.data, 1, Len(tag.data)) = tag.data
          BY <4>1, SubSeqFull
        <4>3. last[name] = Value("string", tag.data)
          <5>1. tag.type = "STRING"
            BY <2>5, <3>1
          <5> QED BY <2>2, <5>1 DEF StandsFor
        <4> HIDE DEF res, told, tag
        <4> QED BY <2>5, <3>1, <4>2, <4>3
      <3>2. CASE type \in Numbers
        BY <2>6, <3>2
      <3>3. CASE type = "other"
        BY <2>7, <3>3
      <3> QED BY <3>1, <3>2, <3>3 DEF Numbers, DataTypes
    <2>9. StringWhole'
      <3>1. \A x : Value("string", x).v = x
        BY DEF Value
      <3> HIDE DEF res, told
      <3> QED BY <2>3, <2>4, <2>5, <3>1 DEF StringWhole
    <2>10. AckIsStored'
      BY <2>4 DEF AckIsStored
    <2> QED BY <2>4, <2>8, <2>9, <2>10 DEF Judged
  <1> QED BY <1>2, <1>6, <1>7, <1>8

LEMMA WriteJudged ==
  ASSUME TypeOK, Stored, PlainNames, NEW u, NEW name \in Names, NEW type \in DataTypes, NEW value,
         value.go # "string" => IsNumber(value), WriteTag(u, name, type, value)
  PROVE  /\ Stored' /\ Judged'
         /\ type \in DataTypeOfGo /\ value.go = GoType[type] /\ IsNumber(value)
         /\ op'.asked.do = "write" /\ op'.asked.name = name /\ op'.value = value
         /\ \/ /\ name \in DOMAIN tags /\ tags[name].type = type
               /\ tags' = [tags EXCEPT ![name] = [type |-> type, data |-> WriteData(type, value.v[1])]]
               /\ last' = [last EXCEPT ![name] = value]
            \/ UNCHANGED <<tags, last>> /\ op'.res.err # "none"
  <1> DEFINE data  == WriteData(type, value.v[1])
             asked == Access("write", name, type, data)
             seen  == Seen(BuildCIPWriteRequest(name, type, asked.data))
  <1>1. TagsTyped
    BY TypeParts
  <1>2. /\ Convertible(type, value)
        /\ \/ /\ Servable(seen) /\ Store(seen, value)
              /\ \E res : Returns(asked, seen, 0, value, res) /\ res.err \in {"none", "no reply"}
           \/ /\ UNCHANGED <<tags, last>>
              /\ \E res : Returns(asked, seen, 0, value, res) /\ res.err = "CIP error"
    BY ZenonT(60), WriteEnds
  <1>3. name \in Seq(Bytes) /\ Len(name) \in Nat /\ Plain(name)
    BY NameTyped DEF PlainNames
  <1>4. type \in DataTypeOfGo /\ type \in DataTypes \ {"other"} /\ value.go = GoType[type] /\ IsNumber(value)
    BY <1>2, Converts
  <1>5. data \in Seq(Bytes) /\ Len(data) = Width(type) /\ StandsFor([type |-> type, data |-> data], value)
    BY <1>4, Sent
  <1>6. asked.do = "write" /\ asked.name = name /\ asked.data = data /\ asked.type = type
    BY AccessFields
  <1>7. seen = asked \/ seen = NoAccess
    <2> HIDE DEF data
    <2> QED BY <1>3, <1>4, <1>5, <1>6, SeenWrite
  <1> HIDE DEF asked, seen, data
  <1>9. CASE Servable(seen) /\ Store(seen, value) /\ \E res : Returns(asked, seen, 0, value, res)
    <2>1. PICK res : Returns(asked, seen, 0, value, res)
      BY <1>9
    <2>2. op'.asked = asked /\ op'.value = value /\ op'.res = res
      BY <2>1, Returned
    <2>3. seen = asked
      BY <1>7, <1>9, NoneServable
    <2>4. name \in DOMAIN tags /\ tags[name].type = type
      BY <1>6, <1>9, <2>3 DEF Servable
    <2>5. /\ tags' = [tags EXCEPT ![name] = [type |-> type, data |-> data]]
          /\ last' = [last EXCEPT ![name] = value]
      BY <1>6, <1>9, <2>3 DEF Store
    <2>6. DOMAIN tags' = DOMAIN tags /\ DOMAIN last = DOMAIN tags /\ tags'[name] = [type |-> type, data |-> data] /\ last'[name] = value
      BY <1>1, <2>4, <2>5 DEF TagsTyped
    <2>7. Stored'
      <3> SUFFICES ASSUME NEW n \in DOMAIN tags PROVE StandsFor(tags'[n], last'[n])
        BY <2>6 DEF Stored
      <3>1. CASE n = name
        BY <1>5, <2>6, <3>1
      <3>2. CASE n # name
        <4>1. tags'[n] = tags[n] /\ last'[n] = last[n]
          BY <2>5, <2>6, <3>2
        <4> QED BY <4>1 DEF Stored
      <3> QED BY <3>1, <3>2
    <2>8. AckIsStored'
      <3>1. tags'[name].data = data
        BY <2>6
      <3> QED BY <1>6, <2>2, <2>4, <2>6, <3>1 DEF AckIsStored
    <2>9. ReadBack' /\ StringWhole'
      BY <1>6, <2>2 DEF ReadBack, StringWhole
    <2> QED BY <1>4, <1>6, <2>2, <2>4, <2>5, <2>7, <2>8, <2>9 DEF Judged, data
  <1>10. CASE UNCHANGED <<tags, last>> /\ \E res : Returns(asked, seen, 0, value, res) /\ res.err = "CIP error"
    <2>1. PICK res : Returns(asked, seen, 0, value, res) /\ res.err = "CIP error"
      BY <1>10
    <2>2. op'.asked = asked /\ op'.value = value /\ op'.res = res /\ op'.res.err = "CIP error"
      BY <2>1, Returned
    <2>3. Stored'
      BY <1>10 DEF Stored
    <2>4. AckIsStored' /\ ReadBack' /\ StringWhole'
      BY <1>6, <2>2 DEF AckIsStored, ReadBack, StringWhole
    <2> QED BY <1>4, <1>6, <1>10, <2>2, <2>3, <2>4 DEF Judged
  <1> QED BY <1>2, <1>9, <1>10

-----------------------------------------------------------------------------
(* Plans                                                                   *)

\* The values programs plan to write
PlannedValues ==
  {Value("float32", <<x>>) : x \in {75} \cap DOMAIN Float32bits}
  \cup UNION {convertValue(text, type) : text \in Texts, type \in DataTypes}

Steps ==
  {Step("read", n, t, NoValue) : n \in Names, t \in DataTypes}
  \cup {Step("write", n, t, v) : n \in Names, t \in DataTypes, v \in PlannedValues}
  \cup {Step(d, <<>>, "other", NoValue) : d \in {"identity", "ReadTag", "WriteTag"}}

\* The tool writes only with -fanuc, in mode write, to its target, what it was given.
Says(s) ==
  /\ s.do = "write" <=> flags.mode = "write" /\ flags.fanuc
  /\ s.do = "write" => s.name = Target(flags) /\ \E type \in DataTypes : s.value \in convertValue(flags.value, type)

Planned ==
  /\ kind \in Kinds /\ flags \in CommandLines
  /\ todo \in Seq(Steps)
  /\ kind = "tool" => Len(todo) =< 1 /\ \A i \in 1..Len(todo) : Says(todo[i])
  /\ IF kind = "any" THEN pc = "start" ELSE op = NoOp \/ (pc = "running" /\ todo # <<>>)

LEMMA StepFields ==
  ASSUME NEW do, NEW name, NEW type, NEW value
  PROVE  LET s == Step(do, name, type, value)
         IN  s.do = do /\ s.name = name /\ s.type = type /\ s.value = value
  BY DEF Step

LEMMA ValueFields ==
  ASSUME NEW go, NEW v
  PROVE  Value(go, v).go = go /\ Value(go, v).v = v
  BY DEF Value

LEMMA GoNames ==
  /\ \A type \in DataTypeOfGo : GoName(type) = GoType[type]
  /\ GoName("DWORD") = "uint32"
  BY DEF GoName, DataTypeOfGo

\* What a text is converted to.
LEMMA Converted ==
  ASSUME NEW text, NEW type \in DataTypes, NEW v \in convertValue(text, type)
  PROVE  \/ type = "BOOL" /\ v = Value("bool", <<IF text \in {"true", "1"} THEN 1 ELSE 0>>)
         \/ type = "STRING" /\ v.go = "string"
         \/ /\ type \in {"SINT", "INT", "DINT", "REAL", "DWORD"} /\ text \in DOMAIN Parse(type)
            /\ Parse(type)[text] \in GoRange(GoName(type)) /\ v = Value(GoName(type), <<Parse(type)[text]>>)
  <1>1. CASE type = "BOOL"
    BY <1>1 DEF convertValue
  <1>2. CASE type = "STRING"
    <2>1. v = Value("string", <<text>>)
      BY <1>2 DEF convertValue
    <2> QED BY <1>2, <2>1, ValueFields
  <1>3. CASE type = "other"
    BY <1>3 DEF convertValue
  <1>4. CASE type \in {"SINT", "INT", "DINT", "REAL", "DWORD"}
    <2>1. v \in {Value(GoName(type), <<n>>) :
                   n \in {Parse(type)[t] : t \in {text} \cap DOMAIN Parse(type)} \cap GoRange(GoName(type))}
      BY <1>4 DEF convertValue
    <2>2. /\ text \in DOMAIN Parse(type) /\ v = Value(GoName(type), <<Parse(type)[text]>>)
          /\ Parse(type)[text] \in GoRange(GoName(type))
      BY <2>1
    <2> QED BY <1>4, <2>2
  <1> QED BY <1>1, <1>2, <1>3, <1>4 DEF DataTypes

LEMMA NumberIs ==
  ASSUME NEW go \in {"bool", "int8", "int16", "int32", "uint32", "float32"}, NEW n \in GoRange(go)
  PROVE  IsNumber(Value(go, <<n>>))
  <1>1. Value(go, <<n>>).go = go /\ Value(go, <<n>>).v = <<n>>
    BY ValueFields
  <1>2. Value(go, <<n>>).v[1] = n
    BY <1>1
  <1> QED BY <1>1, <1>2 DEF IsNumber

\* What is planned to be written has its Go type.
LEMMA PlannedNumber ==
  ASSUME NEW v \in PlannedValues, v.go # "string"
  PROVE  IsNumber(v)
  <1>1. CASE v \in {Value("float32", <<x>>) : x \in {75} \cap DOMAIN Float32bits}
    <2>1. 75 \in GoRange("float32") /\ v = Value("float32", <<75>>)
      BY ZenonT(60), <1>1 DEF GoRange
    <2> QED BY <2>1, NumberIs
  <1>2. ASSUME NEW text \in Texts, NEW type \in DataTypes, v \in convertValue(text, type)
        PROVE  IsNumber(v)
    <2>1. \/ type = "BOOL" /\ v = Value("bool", <<IF text \in {"true", "1"} THEN 1 ELSE 0>>)
          \/ /\ type \in {"SINT", "INT", "DINT", "REAL", "DWORD"}
             /\ Parse(type)[text] \in GoRange(GoName(type)) /\ v = Value(GoName(type), <<Parse(type)[text]>>)
      BY <1>2, Converted
    <2>2. CASE v = Value("bool", <<IF text \in {"true", "1"} THEN 1 ELSE 0>>)
      <3> DEFINE b == IF text \in {"true", "1"} THEN 1 ELSE 0
      <3>1. b \in GoRange("bool")
        BY DEF GoRange
      <3> HIDE DEF b
      <3>2. IsNumber(Value("bool", <<b>>))
        BY <3>1, NumberIs
      <3> QED BY <2>2, <3>2 DEF b
    <2>3. ASSUME type \in {"SINT", "INT", "DINT", "REAL", "DWORD"}
          PROVE  GoName(type) \in {"bool", "int8", "int16", "int32", "uint32", "float32"}
      BY <2>3, GoNames, GoTypes DEF DataTypeOfGo
    <2> QED BY <2>1, <2>2, <2>3, NumberIs
  <1> QED BY <1>1, <1>2 DEF PlannedValues

\* A number the tool writes as a type is the one its command line spells.
LEMMA MeantIs ==
  ASSUME NEW f, NEW other \in DataTypes, NEW v \in convertValue(f.value, other),
         NEW type \in DataTypeOfGo, v.go = GoType[type]
  PROVE  v.v[1] = Meant(f, type) /\ v.v[1] \in GoRange(GoName(type))
  <1>1. GoName(type) = GoType[type]
    BY GoNames
  <1>2. CASE other = "BOOL" /\ v = Value("bool", <<IF f.value \in {"true", "1"} THEN 1 ELSE 0>>)
    <2> DEFINE b == IF f.value \in {"true", "1"} THEN 1 ELSE 0
    <2>1. v.go = "bool" /\ v.v[1] = b
      BY <1>2, ValueFields
    <2>2. type = "BOOL"
      BY <2>1, GoTypes DEF DataTypeOfGo
    <2>3. b \in GoRange("bool") /\ GoName(type) = "bool"
      BY <1>1, <2>1 DEF GoRange
    <2>4. Meant(f, type) = b
      BY <2>2 DEF Meant
    <2> QED BY <2>1, <2>3, <2>4
  <1>3. CASE other = "STRING" /\ v.go = "string"
    BY <1>3, GoTypes DEF DataTypeOfGo
  <1>4. CASE /\ other \in {"SINT", "INT", "DINT", "REAL", "DWORD"}
             /\ Parse(other)[f.value] \in GoRange(GoName(other)) /\ v = Value(GoName(other), <<Parse(other)[f.value]>>)
    <2>1. v.go = GoName(other) /\ v.v[1] = Parse(other)[f.value]
      BY <1>4, ValueFields
    <2>2. type = other /\ type # "BOOL"
      BY <1>4, <2>1, GoNames, GoTypes DEF DataTypeOfGo
    <2> QED BY <1>4, <2>1, <2>2 DEF Meant
  <1> QED BY <1>2, <1>3, <1>4, Converted

LEMMA OneStep ==
  ASSUME NEW s \in Steps, Says(s)
  PROVE  <<s>> \in Seq(Steps) /\ Len(<<s>>) =< 1 /\ <<s>> # <<>> /\ \A i \in 1..Len(<<s>>) : Says(<<s>>[i])
  <1> DEFINE p == <<s>>
  <1>1. p \in Seq(Steps) /\ Len(p) = 1 /\ p[1] = s
    OBVIOUS
  <1> HIDE DEF p
  <1>2. Len(p) =< 1 /\ p # <<>> /\ \A i \in 1..Len(p) : Says(p[i])
    BY <1>1
  <1> QED BY <1>1, <1>2 DEF p

\* What the tool plans with -fanuc.
LEMMA FanucFit ==
  ASSUME flags \in CommandLines, flags.fanuc, NEW p \in FanucPlans(flags)
  PROVE  /\ p \in Seq(Steps) /\ Len(p) =< 1 /\ \A i \in 1..Len(p) : Says(p[i])
         /\ flags.mode = "write" => p # <<>>
  <1> DEFINE f == flags
  <1>1. /\ f.mode \in {"info", "read", "write", "??"} /\ f.tag \in Names /\ f.type \in DataTypes
        /\ f.value \in Texts /\ f.regtype \in RegisterTypes \cup {"PR", "??"} /\ (f.regtype = "PR" => f.mode # "read")
        /\ RegisterTag \in [RegisterTypes -> Names]
    BY ProgramsAssumption
  <1>2. \A r \in RegisterTypes : RegisterDataType(r) \in DataTypes
    BY DEF RegisterTypes, RegisterDataType, DataTypes
  <1>3. ValueType(f) \in DataTypes
    BY <1>1 DEF ValueType, DataTypes
  <1>4. \A t \in DataTypes : \A v \in convertValue(f.value, t) : v \in PlannedValues
    BY <1>1 DEF PlannedValues
  <1>5. ASSUME NEW n \in Names, NEW t \in DataTypes, f.mode = "read", p = <<Step("read", n, t, NoValue)>>
        PROVE  p \in Seq(Steps) /\ Len(p) =< 1 /\ \A i \in 1..Len(p) : Says(p[i])
    <2> DEFINE s == Step("read", n, t, NoValue)
    <2>1. s \in Steps
      BY DEF Steps
    <2>2. s.do = "read"
      BY StepFields
    <2>3. Says(s)
      BY <1>5, <2>2 DEF Says
    <2> HIDE DEF s
    <2>4. <<s>> \in Seq(Steps) /\ Len(<<s>>) =< 1 /\ \A i \in 1..Len(<<s>>) : Says(<<s>>[i])
      BY <2>1, <2>3, OneStep
    <2> QED BY <1>5, <2>4 DEF s
  <1>6. ASSUME NEW n \in Names, NEW t \in DataTypes, NEW w \in DataTypes, NEW v \in convertValue(f.value, w),
               n = Target(f), f.mode = "write", p = <<Step("write", n, t, v)>>
        PROVE  p \in Seq(Steps) /\ Len(p) =< 1 /\ p # <<>> /\ \A i \in 1..Len(p) : Says(p[i])
    <2> DEFINE s == Step("write", n, t, v)
    <2>1. s \in Steps
      <3>1. v \in PlannedValues
        BY <1>4
      <3> QED BY <3>1 DEF Steps
    <2>2. s.do = "write" /\ s.name = n /\ s.value = v
      BY StepFields
    <2>3. Says(s)
      BY <1>6, <2>2 DEF Says
    <2> HIDE DEF s
    <2>4. <<s>> \in Seq(Steps) /\ Len(<<s>>) =< 1 /\ <<s>> # <<>> /\ \A i \in 1..Len(<<s>>) : Says(<<s>>[i])
      BY <2>1, <2>3, OneStep
    <2> QED BY <1>6, <2>4 DEF s
  <1>7. \/ f.mode = "info" /\ p = <<>>
        \/ /\ f.mode = "read" /\ f.register /\ f.regtype # "??"
           /\ p = <<Step("read", RegisterTag[f.regtype], RegisterDataType(f.regtype), NoValue)>>
        \/ f.mode = "read" /\ p = <<Step("read", f.tag, f.type, NoValue)>>
        \/ /\ f.mode = "write" /\ f.register /\ f.regtype \notin {"PR", "??"}
           /\ \E v \in convertValue(f.value, ValueType(f)) :
                p = <<Step("write", RegisterTag[f.regtype], RegisterDataType(f.regtype), v)>>
        \/ /\ f.mode = "write" /\ ~f.register
           /\ \E v \in convertValue(f.value, f.type) : p = <<Step("write", f.tag, f.type, v)>>
    BY Zenon DEF FanucPlans
  <1>8. CASE f.mode = "info" /\ p = <<>>
    BY <1>8
  <1>9. CASE /\ f.mode = "read" /\ f.register /\ f.regtype # "??"
             /\ p = <<Step("read", RegisterTag[f.regtype], RegisterDataType(f.regtype), NoValue)>>
    <2>1. f.regtype \in RegisterTypes
      BY <1>1, <1>9
    <2>2. RegisterTag[f.regtype] \in Names /\ RegisterDataType(f.regtype) \in DataTypes
      BY <1>1, <1>2, <2>1
    <2> HIDE DEF f
    <2> QED BY <1>5, <1>9, <2>2 DEF f
  <1>10. CASE f.mode = "read" /\ p = <<Step("read", f.tag, f.type, NoValue)>>
    BY <1>1, <1>5, <1>10
  <1>11. CASE /\ f.mode = "write" /\ f.register /\ f.regtype \notin {"PR", "??"}
              /\ \E v \in convertValue(f.value, ValueType(f)) :
                   p = <<Step("write", RegisterTag[f.regtype], RegisterDataType(f.regtype), v)>>
    <2>1. PICK v \in convertValue(f.value, ValueType(f)) :
            p = <<Step("write", RegisterTag[f.regtype], RegisterDataType(f.regtype), v)>>
      BY <1>11
    <2>2. f.regtype \in RegisterTypes
      BY <1>1, <1>11
    <2>3. RegisterTag[f.regtype] \in Names /\ RegisterDataType(f.regtype) \in DataTypes
      BY <1>1, <1>2, <2>2
    <2>4. RegisterTag[f.regtype] = Target(f)
      BY <1>11 DEF Target
    <2> QED BY <1>3, <1>6, <1>11, <2>1, <2>3, <2>4
  <1>12. CASE /\ f.mode = "write" /\ ~f.register
              /\ \E v \in convertValue(f.value, f.type) : p = <<Step("write", f.tag, f.type, v)>>
    <2>1. PICK v \in convertValue(f.value, f.type) : p = <<Step("write", f.tag, f.type, v)>>
      BY <1>12
    <2>2. f.tag = Target(f)
      BY <1>12 DEF Target
    <2> QED BY <1>1, <1>6, <1>12, <2>1, <2>2
  <1> QED BY <1>7, <1>8, <1>9, <1>10, <1>11, <1>12

LEMMA StandardFit ==
  ASSUME flags \in CommandLines, ~flags.fanuc, NEW p \in StandardPlans(flags)
  PROVE  p \in Seq(Steps) /\ Len(p) =< 1 /\ \A i \in 1..Len(p) : Says(p[i])
  <1>1. \E d \in {"identity", "ReadTag", "WriteTag"} : p = <<Step(d, <<>>, "other", NoValue)>>
    <2>1. PICK d \in CASE flags.mode = "info" -> {"identity"}
                       [] flags.mode = "read" /\ flags.tag # <<>> /\ flags.type # "other" -> {"ReadTag"}
                       [] flags.mode = "write" /\ flags.tag # <<>> /\ flags.type # "other"
                          /\ flags.value # "" /\ convertValue(flags.value, flags.type) # {} -> {"WriteTag"}
                       [] OTHER -> {} : p = <<Step(d, <<>>, "other", NoValue)>>
      BY DEF StandardPlans
    <2>2. d \in {"identity", "ReadTag", "WriteTag"}
      BY <2>1, Zenon
    <2> QED BY <2>1, <2>2
  <1>2. PICK d \in {"identity", "ReadTag", "WriteTag"} : p = <<Step(d, <<>>, "other", NoValue)>>
    BY <1>1
  <1> DEFINE s == Step(d, <<>>, "other", NoValue)
  <1>3. s \in Steps
    BY DEF Steps
  <1>4. s.do = d
    BY StepFields
  <1>5. Says(s)
    BY <1>4 DEF Says
  <1> HIDE DEF s
  <1>6. <<s>> \in Seq(Steps) /\ Len(<<s>>) =< 1 /\ \A i \in 1..Len(<<s>>) : Says(<<s>>[i])
    BY <1>3, <1>5, OneStep
  <1> QED BY <1>2, <1>6 DEF s

LEMMA ExampleFit ==
  ASSUME "example" \in Kinds
  PROVE  ExamplePlan \in Seq(Steps)
  <1> DEFINE E(i) == ExampleTags[i]
             v    == Value("float32", <<75>>)
             s1   == Step("read", E(1), "DINT", NoValue)
             s2   == Step("read", E(2), "BOOL", NoValue)
             s3   == Step("write", E(3), "REAL", v)
             s4   == Step("read", E(3), "REAL", NoValue)
  <1>1. E(1) \in Names /\ E(2) \in Names /\ E(3) \in Names
    <2>1. ExampleTags \in Seq(Names) /\ 1 \in 1..Len(ExampleTags) /\ 2 \in 1..Len(ExampleTags) /\ 3 \in 1..Len(ExampleTags)
      BY ProgramsAssumption
    <2> QED BY <2>1, ElementOfSeq
  <1>2. v \in PlannedValues
    BY ProgramsAssumption DEF PlannedValues
  <1>3. "DINT" \in DataTypes /\ "BOOL" \in DataTypes /\ "REAL" \in DataTypes
    BY DEF DataTypes
  <1> HIDE DEF E, v
  <1>4. s1 \in Steps /\ s2 \in Steps /\ s4 \in Steps
    BY <1>1, <1>3 DEF Steps
  <1>5. s3 \in Steps
    BY <1>1, <1>2, <1>3 DEF Steps
  <1>6. ExamplePlan = <<s1, s2, s3, s4>>
    BY DEF ExamplePlan, E, v
  <1> HIDE DEF s1, s2, s3, s4
  <1> QED BY <1>4, <1>5, <1>6

LEMMA PlansFit ==
  ASSUME kind \in Kinds, flags \in CommandLines, kind # "any", NEW p \in Plans
  PROVE  /\ p \in Seq(Steps)
         /\ kind = "tool" => /\ Len(p) =< 1 /\ \A i \in 1..Len(p) : Says(p[i])
                             /\ flags.mode = "write" /\ flags.fanuc => p # <<>>
  <1>1. CASE kind = "example"
    <2>1. p = ExamplePlan
      BY <1>1 DEF Plans
    <2> QED BY <1>1, <2>1, ExampleFit
  <1>2. CASE kind = "tool" /\ flags.fanuc
    <2>1. p \in FanucPlans(flags)
      BY <1>2 DEF Plans
    <2> QED BY <1>2, <2>1, FanucFit
  <1>3. CASE kind = "tool" /\ ~flags.fanuc
    <2>1. p \in StandardPlans(flags)
      BY <1>3 DEF Plans
    <2> QED BY <1>3, <2>1, StandardFit
  <1> QED BY <1>1, <1>2, <1>3, ProgramsAssumption

-----------------------------------------------------------------------------
(* Steps                                                                   *)

\* What a step does to clients and PLC: nothing, or it connects, accesses or goes on.
Quiet == UNCHANGED <<tags, last, op>> /\ (Connections => Connections')

Does(name, type, value, u) ==
  \/ ReadTag(u, name, type)
  \/ (value.go # "string" => IsNumber(value)) /\ WriteTag(u, name, type, value)
  \/ WriteTagRejects(u, type, value)

VarsStep ==
  \/ Quiet
  \/ \E u \in Users, name \in Names, type \in DataTypes : \E value : Does(name, type, value, u)
  \/ \E u \in Users, type \in DataTypes : \E value : WriteTagRejects(u, type, value)
  \/ \E do : Exchange(do)
  \/ Resume

LEMMA Connecting ==
  ASSUME NEW u \in Users, NewClient(u) \/ NewPLCClient(u) \/ Close(u)
  PROVE  Quiet
  <1>1. UNCHANGED <<tags, last, op>>
    BY DEF NewClient, NewPLCClient, Close
  <1>2. ASSUME Connections, NEW c \in {"dialled", "registered", "closed"}, client' = [client EXCEPT ![u] = c]
        PROVE  Connections'
    BY <1>2 DEF Connections
  <1>3. \E c \in {"dialled", "registered", "closed"} : client' = [client EXCEPT ![u] = c]
    BY DEF NewClient, NewPLCClient, Close
  <1> QED BY <1>1, <1>2, <1>3 DEF Quiet

LEMMA AnySteps ==
  ASSUME Next
  PROVE  VarsStep
  <1>1. ASSUME NEW u \in Users, NewClient(u) \/ NewPLCClient(u) \/ Close(u)
        PROVE  VarsStep
    BY <1>1, Connecting DEF VarsStep
  <1>2. ASSUME NEW u \in Users, NEW type \in DataTypes, NEW name \in Names, ReadTag(u, name, type)
        PROVE  VarsStep
    <2>1. Does(name, type, NoValue, u)
      BY <1>2 DEF Does
    <2> QED BY <1>2, <2>1 DEF VarsStep
  <1>3. ASSUME NEW u \in Users, NEW type \in DataTypes, NEW name \in Names, NEW value \in Values, WriteTag(u, name, type, value)
        PROVE  VarsStep
    <2>1. value.go # "string" => IsNumber(value)
      BY TagAccessAssumption
    <2>2. Does(name, type, value, u)
      BY <1>3, <2>1 DEF Does
    <2> QED BY <1>3, <2>2 DEF VarsStep
  <1>4. ASSUME NEW u \in Users, NEW type \in DataTypes, NEW value \in Values, WriteTagRejects(u, type, value)
        PROVE  VarsStep
    BY <1>4 DEF VarsStep
  <1>5. ASSUME Resume PROVE VarsStep
    BY <1>5 DEF VarsStep
  <1> QED BY <1>1, <1>2, <1>3, <1>4, <1>5 DEF Next

LEMMA MeIs == Me \in Users
  BY ProgramsAssumption DEF Me

\* The steps of a plan are accesses as users make them.
LEMMA PlannedAccess ==
  ASSUME NEW s \in Steps, DoAccess(s)
  PROVE  /\ VarsStep
         /\ \/ s.do = "read" /\ s.name \in Names /\ s.type \in DataTypes /\ ReadTag(Me, s.name, s.type)
            \/ /\ s.do = "write" /\ s.name \in Names /\ s.type \in DataTypes
               /\ s.value.go # "string" => IsNumber(s.value)
               /\ WriteTag(Me, s.name, s.type, s.value)
            \/ s.do = "write" /\ s.type \in DataTypes /\ WriteTagRejects(Me, s.type, s.value)
            \/ s.do \notin {"read", "write"} /\ Exchange(s.do)
  <1>1. CASE s \in {Step("read", n, t, NoValue) : n \in Names, t \in DataTypes}
    <2>1. s.do = "read" /\ s.name \in Names /\ s.type \in DataTypes
      BY <1>1, StepFields
    <2>2. ReadTag(Me, s.name, s.type)
      BY <2>1 DEF DoAccess
    <2>3. Does(s.name, s.type, NoValue, Me)
      BY <2>2 DEF Does
    <2>4. VarsStep
      BY <2>1, <2>3, MeIs DEF VarsStep
    <2> QED BY <2>1, <2>2, <2>4
  <1>2. CASE s \in {Step("write", n, t, v) : n \in Names, t \in DataTypes, v \in PlannedValues}
    <2>1. s.do = "write" /\ s.name \in Names /\ s.type \in DataTypes /\ s.value \in PlannedValues
      BY <1>2, StepFields
    <2>2. WriteTag(Me, s.name, s.type, s.value) \/ WriteTagRejects(Me, s.type, s.value)
      BY <2>1 DEF DoAccess
    <2>3. s.value.go # "string" => IsNumber(s.value)
      BY <2>1, PlannedNumber
    <2>4. Does(s.name, s.type, s.value, Me)
      BY <2>2, <2>3 DEF Does
    <2>5. VarsStep
      BY <2>1, <2>4, MeIs DEF VarsStep
    <2> QED BY <2>1, <2>2, <2>3, <2>5
  <1>3. CASE s \in {Step(d, <<>>, "other", NoValue) : d \in {"identity", "ReadTag", "WriteTag"}}
    <2>1. s.do \in {"identity", "ReadTag", "WriteTag"}
      BY <1>3, StepFields
    <2>2. s.do \notin {"read", "write"}
      BY <2>1
    <2>3. Exchange(s.do)
      BY <2>2 DEF DoAccess
    <2>4. VarsStep
      BY <2>3 DEF VarsStep
    <2> QED BY <2>2, <2>3, <2>4
  <1> QED BY <1>1, <1>2, <1>3 DEF Steps

LEMMA ProgramSteps ==
  ASSUME Planned, [ProgramNext]_<<vars, programVars>>
  PROVE  VarsStep
  <1>1. ASSUME UNCHANGED vars PROVE VarsStep
    BY <1>1 DEF vars, VarsStep, Quiet, Connections
  <1>2. ASSUME Connect PROVE VarsStep
    <2>1. NewClient(Me) => VarsStep
      BY MeIs, Connecting DEF VarsStep
    <2> QED BY <1>1, <1>2, <2>1 DEF Connect
  <1>3. ASSUME Register PROVE VarsStep
    <2>1. NewPLCClient(Me) => VarsStep
      BY MeIs, Connecting DEF VarsStep
    <2> QED BY <1>1, <1>3, <2>1 DEF Register
  <1>4. ASSUME MakeAccess PROVE VarsStep
    <2>1. todo # <<>> /\ todo \in Seq(Steps)
      BY <1>4 DEF MakeAccess, Planned
    <2>2. Head(todo) \in Steps
      BY <2>1, HeadTailProperties
    <2> QED BY <1>4, <2>2, PlannedAccess DEF MakeAccess
  <1>5. ASSUME GoOn PROVE VarsStep
    BY <1>5 DEF GoOn, VarsStep
  <1>6. ASSUME Finish PROVE VarsStep
    <2>1. Close(Me) => VarsStep
      BY MeIs, Connecting DEF VarsStep
    <2> QED BY <1>6, <2>1 DEF Finish
  <1>7. ASSUME AnyProgram PROVE VarsStep
    BY <1>7, AnySteps DEF AnyProgram
  <1> QED BY <1>1, <1>2, <1>3, <1>4, <1>5, <1>6, <1>7 DEF ProgramNext

LEMMA PlannedInit ==
  ASSUME ProgramInit
  PROVE  Planned
  <1>1. kind \in Kinds /\ flags \in CommandLines /\ todo = <<>> /\ pc = "start" /\ op = NoOp
    BY DEF ProgramInit, Init
  <1>2. <<>> \in Seq(Steps) /\ Len(<<>>) = 0
    OBVIOUS
  <1> QED BY <1>1, <1>2 DEF Planned

LEMMA PlannedStep ==
  ASSUME Planned, [ProgramNext]_<<vars, programVars>>
  PROVE  Planned'
  <1>1. kind \in Kinds /\ flags \in CommandLines /\ todo \in Seq(Steps) /\ kind' = kind /\ flags' = flags
    BY DEF Planned, ProgramNext, AnyProgram, Connect, Register, MakeAccess, GoOn, Finish, programVars
  <1>2. IF kind' = "any" THEN pc' = "start" ELSE op' = NoOp \/ (pc' = "running" /\ todo' # <<>>)
    <2>1. CASE AnyProgram \/ UNCHANGED <<vars, programVars>>
      BY <1>1, <2>1 DEF Planned, AnyProgram, vars, programVars
    <2>2. CASE Connect
      <3>1. op' = op
        BY <2>2 DEF Connect, NewClient, vars
      <3> QED BY <1>1, <2>2, <3>1 DEF Planned, Connect
    <2>3. CASE Register
      <3>1. op' = op
        BY <2>3 DEF Register, NewPLCClient, vars
      <3> QED BY <1>1, <2>3, <3>1 DEF Planned, Register
    <2>4. CASE MakeAccess
      BY <1>1, <2>4 DEF Planned, MakeAccess, programVars
    <2>5. CASE GoOn
      BY <1>1, <2>5 DEF Planned, GoOn, Resume
    <2>6. CASE Finish
      <3>1. op' = op
        BY <2>6 DEF Finish, Close
      <3> QED BY <1>1, <2>6, <3>1 DEF Planned, Finish
    <2> QED BY <2>1, <2>2, <2>3, <2>4, <2>5, <2>6 DEF ProgramNext
  <1>3. /\ todo' \in Seq(Steps)
        /\ kind = "tool" => Len(todo') =< 1 /\ \A i \in 1..Len(todo') : Says(todo'[i])
    <2>1. CASE todo' = todo
      BY <1>1, <2>1 DEF Planned
    <2>2. CASE todo' = <<>>
      BY <2>2
    <2>3. CASE kind # "any" /\ todo' \in Plans
      BY <1>1, <2>3, PlansFit
    <2>4. CASE todo # <<>> /\ todo' = Tail(todo)
      <3>1. todo' \in Seq(Steps) /\ Len(todo') = Len(todo) - 1 /\ Len(todo) \in Nat
        BY <1>1, <2>4, HeadTailProperties, LenProperties
      <3>2. ASSUME kind = "tool" PROVE Len(todo') =< 1 /\ \A i \in 1..Len(todo') : Says(todo'[i])
        <4>1. Len(todo) =< 1
          BY <3>2 DEF Planned
        <4>2. 1..Len(todo') = {} /\ Len(todo') =< 1
          BY <3>1, <4>1
        <4> QED BY <4>2
      <3> QED BY <3>1, <3>2
    <2>5. CASE AnyProgram \/ Connect \/ MakeAccess \/ Finish \/ UNCHANGED <<vars, programVars>>
      BY <2>1, <2>5 DEF AnyProgram, Connect, MakeAccess, Finish, programVars
    <2>6. CASE Register
      <3>1. kind # "any"
        BY <2>6 DEF Planned, Register
      <3> QED BY <2>2, <2>3, <2>6, <3>1 DEF Register, Fatalf
    <2>7. CASE GoOn
      <3>1. todo # <<>>
        BY <2>7 DEF Planned, GoOn, Resume
      <3> QED BY <2>2, <2>4, <2>7, <3>1 DEF GoOn, Fatalf
    <2> QED BY <2>5, <2>6, <2>7 DEF ProgramNext
  <1> QED BY <1>1, <1>2, <1>3 DEF Planned, Says

LEMMA VarsBase ==
  ASSUME TypeOK, Understood, UtilAgrees, VarsStep
  PROVE  TypeOK' /\ Understood' /\ UtilAgrees'
  <1>1. CASE Quiet
    <2>1. Connections' /\ TagsTyped' /\ OpTyped'
      BY <1>1, TypeParts DEF Quiet, TagsTyped, OpTyped
    <2>2. Understood' /\ UtilAgrees'
      BY <1>1 DEF Quiet, Understood, UtilAgrees
    <2> QED BY <2>1, <2>2, TypeParts, PTL
  <1>2. ASSUME NEW u \in Users, NEW name \in Names, NEW type \in DataTypes, NEW value, Does(name, type, value, u)
        PROVE  TypeOK' /\ Understood' /\ UtilAgrees'
    BY <1>2, ReadTyped, WriteTyped, RejectKeeps DEF Does
  <1>3. ASSUME NEW u \in Users, NEW type \in DataTypes, NEW value, WriteTagRejects(u, type, value)
        PROVE  TypeOK' /\ Understood' /\ UtilAgrees'
    BY <1>3, RejectKeeps
  <1>4. ASSUME NEW do, Exchange(do) PROVE TypeOK' /\ Understood' /\ UtilAgrees'
    BY <1>4, ExchangeKeeps
  <1>5. CASE Resume
    <2>1. (op = NoOp)'
      BY <1>5 DEF Resume
    <2>2. OpTyped' /\ Understood' /\ UtilAgrees'
      BY <2>1, NoOpKeeps, PTL
    <2>3. Connections' /\ TagsTyped'
      BY <1>5, TypeParts DEF Resume, Connections, TagsTyped
    <2> QED BY <2>2, <2>3, TypeParts, PTL
  <1> QED BY <1>1, <1>2, <1>3, <1>4, <1>5 DEF VarsStep

LEMMA VarsJudged ==
  ASSUME TypeOK, Stored, Judged, PlainNames, VarsStep
  PROVE  Stored' /\ Judged'
  <1>1. CASE Quiet
    <2>1. ReadBack' /\ AckIsStored' /\ StringWhole'
      BY <1>1 DEF Quiet, Judged, ReadBack, AckIsStored, StringWhole
    <2>2. Stored'
      BY <1>1 DEF Quiet, Stored
    <2> QED BY <2>1, <2>2 DEF Judged
  <1>2. ASSUME NEW u \in Users, NEW name \in Names, NEW type \in DataTypes, NEW value, Does(name, type, value, u)
        PROVE  Stored' /\ Judged'
    BY <1>2, ReadJudged, WriteJudged, RejectKeeps DEF Does
  <1>3. ASSUME NEW u \in Users, NEW type \in DataTypes, NEW value, WriteTagRejects(u, type, value)
        PROVE  Stored' /\ Judged'
    BY <1>3, RejectKeeps
  <1>4. ASSUME NEW do, Exchange(do) PROVE Stored' /\ Judged'
    BY <1>4, ExchangeKeeps
  <1>5. CASE Resume
    <2>1. (op = NoOp)'
      BY <1>5 DEF Resume
    <2>2. Judged'
      BY <2>1, NoOpKeeps, PTL
    <2>3. Stored'
      BY <1>5 DEF Resume, Stored
    <2> QED BY <2>2, <2>3
  <1> QED BY <1>1, <1>2, <1>3, <1>4, <1>5 DEF VarsStep

LEMMA AtFirst ==
  ASSUME Init
  PROVE  TypeOK /\ Understood /\ UtilAgrees /\ Stored /\ Judged
  <1>1. op = NoOp /\ client = [u \in Users |-> "none"]
    BY DEF Init
  <1>2. /\ tags = [n \in DOMAIN Tags |-> [type |-> Tags[n].type, data |-> Tags[n].data]]
        /\ last = [n \in DOMAIN Tags |-> Tags[n].value]
    BY DEF Init
  <1>3. \A n \in DOMAIN Tags : Tags[n].data \in Seq(Bytes) /\ StandsFor(Tags[n], Tags[n].value)
    BY TagAccessAssumption DEF Bytes
  <1>4. TagsTyped
    BY <1>2, <1>3 DEF TagsTyped
  <1>5. Connections
    BY <1>1 DEF Connections
  <1>6. OpTyped /\ Understood /\ UtilAgrees /\ Judged
    BY <1>1, NoOpKeeps
  <1>7. Stored
    <2> SUFFICES ASSUME NEW n \in DOMAIN Tags PROVE StandsFor(tags[n], last[n])
      BY <1>2 DEF Stored
    <2>1. tags[n].type = Tags[n].type /\ tags[n].data = Tags[n].data /\ last[n] = Tags[n].value
      BY <1>2
    <2> QED BY <1>3, <2>1, SameStands
  <1> QED BY <1>4, <1>5, <1>6, <1>7, TypeParts

-----------------------------------------------------------------------------
(* Tags as a store of values                                               *)

\* With nothing asked for, no access is seen.
LEMMA NoneSeen ==
  op = NoOp => AnswerSeen = AsStore!NoAccess
  <1> SUFFICES ASSUME op = NoOp PROVE AnswerSeen = AsStore!NoAccess
    OBVIOUS
  <1>1. op.asked = NoAccess
    BY Fields DEF NoOp
  <1>2. op.asked.do = "none"
    BY <1>1, NoAccessFields
  <1> QED BY <1>2 DEF AnswerSeen, AsStore!NoAccess, AsStore!Answer

\* An access is made when none is returning.
LEMMA WasIdle ==
  ASSUME NEW u, NEW name, NEW type, NEW value, NEW do,
         \/ ReadTag(u, name, type) \/ WriteTag(u, name, type, value)
         \/ WriteTagRejects(u, type, value) \/ Exchange(do)
  PROVE  AnswerSeen = AsStore!NoAccess
  <1>1. op = NoOp
    BY DEF ReadTag, WriteTag, WriteTagRejects, Exchange, Ready
  <1> QED BY <1>1, NoneSeen

LEMMA StoreStep ==
  ASSUME TypeOK, Stored, Judged, PlainNames, VarsStep
  PROVE  AsStore!Next \/ UNCHANGED AsStore!vars
  <1> USE DEF AsStore!vars
  <1>1. CASE Quiet
    BY <1>1 DEF Quiet, AnswerSeen
  <1>2. ASSUME NEW u \in Users, NEW name \in Names, NEW type \in DataTypes, ReadTag(u, name, type)
        PROVE  AsStore!Next
    <2>1. Judged' /\ UNCHANGED <<tags, last>> /\ op'.asked.do = "read"
      BY <1>2, ReadJudged
    <2>2. ReadBack'
      BY <2>1 DEF Judged
    <2>3. DOMAIN tags = DOMAIN last
      BY TypeParts DEF TagsTyped
    <2>4. AnswerSeen = AsStore!NoAccess
      BY <1>2, WasIdle
    <2>5. /\ AnswerSeen'.do = op'.asked.do /\ AnswerSeen'.name = op'.asked.name /\ AnswerSeen'.value = op'.res.value
          /\ AnswerSeen'.res = "ok" =>
               /\ op'.res.err = "none" /\ op'.asked.type # "REAL"
               /\ op'.asked.type = "STRING" => op'.told = Len(tags'[op'.asked.name].data)
      BY <2>1 DEF AnswerSeen
    <2>6. AnswerSeen'.res = "ok" => AnswerSeen'.name \in DOMAIN last /\ AnswerSeen'.value = last[AnswerSeen'.name]
      BY <2>1, <2>2, <2>3, <2>5 DEF ReadBack
    <2>7. AsStore!ReadTag
      BY <2>1, <2>4, <2>5, <2>6 DEF AsStore!ReadTag
    <2> QED BY <2>7 DEF AsStore!Next
  <1>3. ASSUME op'.asked.do = "write", AnswerSeen = AsStore!NoAccess,
               \/ op'.asked.name \in DOMAIN last /\ last' = [last EXCEPT ![op'.asked.name] = op'.value]
               \/ op'.res.err # "none" /\ UNCHANGED last
        PROVE  AsStore!Next
    <2>1. /\ AnswerSeen'.do = "write" /\ AnswerSeen'.name = op'.asked.name /\ AnswerSeen'.value = op'.value
          /\ AnswerSeen'.res = IF op'.res.err = "none" THEN "ok" ELSE "error"
      BY <1>3 DEF AnswerSeen
    <2>2. AsStore!WriteTag
      BY <1>3, <2>1 DEF AsStore!WriteTag
    <2> QED BY <2>2 DEF AsStore!Next
  <1>4. ASSUME NEW u \in Users, NEW name \in Names, NEW type \in DataTypes, NEW value,
               value.go # "string" => IsNumber(value), WriteTag(u, name, type, value)
        PROVE  AsStore!Next
    <2>1. /\ op'.asked.do = "write" /\ op'.asked.name = name /\ op'.value = value
          /\ \/ name \in DOMAIN tags /\ last' = [last EXCEPT ![name] = value]
             \/ UNCHANGED <<tags, last>> /\ op'.res.err # "none"
      BY <1>4, WriteJudged
    <2>2. DOMAIN tags = DOMAIN last
      BY TypeParts DEF TagsTyped
    <2>3. AnswerSeen = AsStore!NoAccess
      BY <1>4, WasIdle
    <2> QED BY <1>3, <2>1, <2>2, <2>3
  <1>5. ASSUME NEW u \in Users, NEW type \in DataTypes, NEW value, WriteTagRejects(u, type, value)
        PROVE  AsStore!Next
    <2>1. op'.asked.do = "write" /\ op'.res.err = "not sent" /\ UNCHANGED <<tags, last>>
      BY <1>5, RejectKeeps
    <2>2. AnswerSeen = AsStore!NoAccess
      BY <1>5, WasIdle
    <2> QED BY <1>3, <2>1, <2>2
  <1>6. ASSUME NEW do, Exchange(do) PROVE UNCHANGED AsStore!vars
    <2>1. UNCHANGED last /\ op'.asked.do = "none"
      BY <1>6, ExchangeKeeps
    <2>2. AnswerSeen = AsStore!NoAccess
      BY <1>6, WasIdle
    <2>3. AnswerSeen' = AsStore!NoAccess
      BY <2>1 DEF AnswerSeen, AsStore!NoAccess, AsStore!Answer
    <2> QED BY <2>1, <2>2, <2>3
  <1>7. CASE Resume
    <2>1. (op = NoOp)' /\ UNCHANGED last
      BY <1>7 DEF Resume
    <2>2. AnswerSeen' = AsStore!NoAccess
      <3>1. (AnswerSeen = AsStore!NoAccess)'
        BY <2>1, NoneSeen, PTL
      <3> QED BY <3>1 DEF AsStore!NoAccess, AsStore!Answer
    <2>3. CASE AnswerSeen = AsStore!NoAccess
      BY <2>1, <2>2, <2>3
    <2>4. CASE AnswerSeen # AsStore!NoAccess
      BY <2>1, <2>2, <2>4 DEF AsStore!Next, AsStore!Return
    <2> QED BY <2>3, <2>4
  <1> QED BY <1>1, <1>2, <1>4, <1>5, <1>6, <1>7 DEF VarsStep, Does

LEMMA StoreInit ==
  ASSUME Init
  PROVE  AsStore!Init
  <1>1. op = NoOp /\ last = [n \in DOMAIN Tags |-> Tags[n].value]
    BY DEF Init
  <1> QED BY <1>1, NoneSeen DEF AsStore!Init

-----------------------------------------------------------------------------
(* What the tool has written                                               *)

WrittenNow(n) ==
  LET meant == Meant(flags, tags[n].type)
  IN  meant \in GoRange(GoName(tags[n].type)) /\ tags[n].data = WriteData(tags[n].type, meant)

Done == Target(flags) \in DOMAIN tags /\ WrittenNow(Target(flags))
ToWrite == flags.mode = "write" /\ flags.fanuc

OnlyTarget == \A n \in DOMAIN tags : tags[n].data # Tags[n].data => ToWrite /\ n = Target(flags) /\ WrittenNow(n)
DoneAtEnd ==
  /\ pc = "done" => todo = <<>>
  /\ ToWrite /\ pc \in {"running", "done"} /\ todo = <<>> => Done
  /\ ToWrite /\ pc = "running" /\ op # NoOp /\ op.res.err = "none" => Done

ToolInv == kind = "tool" => OnlyTarget /\ DoneAtEnd

LEMMA ToolInit ==
  ASSUME ProgramInit
  PROVE  ToolInv
  <1>1. pc = "start" /\ tags = [n \in DOMAIN Tags |-> [type |-> Tags[n].type, data |-> Tags[n].data]]
    BY DEF ProgramInit, Init
  <1>2. \A n \in DOMAIN tags : tags[n].data = Tags[n].data
    BY <1>1
  <1> QED BY <1>1, <1>2 DEF ToolInv, OnlyTarget, DoneAtEnd

LEMMA ToolSame ==
  ASSUME UNCHANGED <<tags, flags>>
  PROVE  /\ OnlyTarget => OnlyTarget'
         /\ Done => Done'
         /\ ToWrite' => ToWrite
  <1>1. ASSUME NEW n, WrittenNow(n) PROVE WrittenNow(n)'
    BY <1>1 DEF WrittenNow
  <1>2. Target(flags)' = Target(flags)
    BY DEF Target
  <1>3. (ToWrite => ToWrite') /\ (ToWrite' => ToWrite)
    BY DEF ToWrite
  <1>4. ASSUME Done PROVE Done'
    <2>1. PICK t : t = Target(flags) /\ t \in DOMAIN tags /\ WrittenNow(t)
      BY <1>4 DEF Done
    <2>2. Target(flags)' = t /\ t \in DOMAIN tags' /\ WrittenNow(t)'
      BY <1>1, <1>2, <2>1
    <2> QED BY <2>2 DEF Done, WrittenNow
  <1>5. ASSUME OnlyTarget PROVE OnlyTarget'
    <2> SUFFICES ASSUME NEW n \in DOMAIN tags', tags'[n].data # Tags[n].data
                 PROVE  ToWrite' /\ n = Target(flags)' /\ WrittenNow(n)'
      BY DEF OnlyTarget
    <2>1. ToWrite /\ n = Target(flags) /\ WrittenNow(n)
      BY <1>5 DEF OnlyTarget
    <2> QED BY <1>1, <1>2, <1>3, <2>1
  <1> QED BY <1>3, <1>4, <1>5

\* A step of the tool's plan writes its target, or nothing.
LEMMA ToolAccess ==
  ASSUME PlainNames, TypeOK, Stored, Planned, kind = "tool", MakeAccess
  PROVE  \/ UNCHANGED <<tags, flags>> /\ (ToWrite => op'.res.err # "none")
         \/ /\ ToWrite /\ Target(flags) \in DOMAIN tags /\ UNCHANGED flags
            /\ \E type \in DataTypeOfGo :
                 /\ tags[Target(flags)].type = type
                 /\ Meant(flags, type) \in GoRange(GoName(type))
                 /\ tags' = [tags EXCEPT ![Target(flags)] = [type |-> type, data |-> WriteData(type, Meant(flags, type))]]
  <1> DEFINE s == Head(todo)
  <1>1. s \in Steps /\ Says(s) /\ DoAccess(s) /\ flags' = flags
    <2>1. todo # <<>> /\ todo \in Seq(Steps) /\ DoAccess(s) /\ flags' = flags
      BY DEF MakeAccess, Planned, programVars
    <2>2. s \in Steps /\ 1 \in 1..Len(todo) /\ s = todo[1]
      BY <2>1, HeadTailProperties, LenProperties
    <2> HIDE DEF s
    <2>3. Says(s)
      BY <2>2 DEF Planned
    <2> QED BY <2>1, <2>2, <2>3
  <1> HIDE DEF s
  <1>2. s.do = "write" <=> ToWrite
    BY <1>1 DEF Says, ToWrite
  <1>3. CASE s.do = "read" /\ s.name \in Names /\ s.type \in DataTypes /\ ReadTag(Me, s.name, s.type)
    <2>1. UNCHANGED <<tags, last>>
      BY <1>3, ReadJudged
    <2> QED BY <1>1, <1>2, <1>3, <2>1
  <1>4. CASE s.do \notin {"read", "write"} /\ Exchange(s.do)
    <2>1. UNCHANGED <<tags, last>>
      BY <1>4, ExchangeKeeps
    <2> QED BY <1>1, <1>2, <1>4, <2>1
  <1>5. CASE s.do = "write" /\ s.type \in DataTypes /\ WriteTagRejects(Me, s.type, s.value)
    <2>1. UNCHANGED <<tags, last>> /\ op'.res.err = "not sent"
      BY <1>5, RejectKeeps
    <2> QED BY <1>1, <2>1
  <1>6. CASE /\ s.do = "write" /\ s.name \in Names /\ s.type \in DataTypes
             /\ s.value.go # "string" => IsNumber(s.value)
             /\ WriteTag(Me, s.name, s.type, s.value)
    <2>1. PICK type \in DataTypes : s.value \in convertValue(flags.value, type)
      BY <1>1, <1>6 DEF Says
    <2>2. s.name = Target(flags)
      BY <1>1, <1>6 DEF Says
    <2> DEFINE w == s.type
               v == s.value
               n == s.name
    <2>3. /\ w \in DataTypeOfGo /\ v.go = GoType[w]
          /\ \/ /\ n \in DOMAIN tags /\ tags[n].type = w
                /\ tags' = [tags EXCEPT ![n] = [type |-> w, data |-> WriteData(w, v.v[1])]]
             \/ UNCHANGED tags /\ op'.res.err # "none"
      <3>1. n \in Names /\ w \in DataTypes /\ (v.go # "string" => IsNumber(v)) /\ WriteTag(Me, n, w, v)
        BY <1>6
      <3> HIDE DEF n, w, v
      <3>2. /\ w \in DataTypeOfGo /\ v.go = GoType[w]
            /\ \/ /\ n \in DOMAIN tags /\ tags[n].type = w
                  /\ tags' = [tags EXCEPT ![n] = [type |-> w, data |-> WriteData(w, v.v[1])]]
                  /\ last' = [last EXCEPT ![n] = v]
               \/ UNCHANGED <<tags, last>> /\ op'.res.err # "none"
        BY ZenonT(60), <3>1, WriteJudged
      <3> QED BY <3>2
    <2> HIDE DEF w, v, n
    <2>4. v.v[1] = Meant(flags, w) /\ v.v[1] \in GoRange(GoName(w))
      <3>1. v \in convertValue(flags.value, type)
        BY <2>1 DEF v
      <3> QED BY <2>3, <3>1, MeantIs
    <2>5. n = Target(flags)
      BY <2>2 DEF n
    <2> QED BY <1>1, <1>2, <1>6, <2>3, <2>4, <2>5
  <1> QED BY <1>1, <1>3, <1>4, <1>5, <1>6, PlannedAccess

LEMMA ToolStep ==
  ASSUME PlainNames, TypeOK, Stored, Planned, ToolInv, [ProgramNext]_<<vars, programVars>>
  PROVE  ToolInv'
  <1>1. kind' = kind /\ flags' = flags
    BY DEF ProgramNext, AnyProgram, Connect, Register, MakeAccess, GoOn, Finish, programVars
  <1> SUFFICES ASSUME kind = "tool" PROVE OnlyTarget' /\ DoneAtEnd'
    BY <1>1 DEF ToolInv
  <1>2. OnlyTarget /\ DoneAtEnd
    BY DEF ToolInv
  <1>3. ASSUME UNCHANGED tags PROVE OnlyTarget' /\ (Done => Done') /\ (ToWrite' => ToWrite)
    BY <1>1, <1>2, <1>3, ToolSame
  <1>4. CASE UNCHANGED <<vars, programVars>>
    <2>1. UNCHANGED <<tags, pc, todo, op>>
      BY <1>4 DEF vars, programVars
    <2>2. OnlyTarget' /\ (Done => Done') /\ (ToWrite' => ToWrite)
      BY <1>3, <2>1
    <2> QED BY <1>2, <2>1, <2>2 DEF DoneAtEnd
  <1>5. CASE AnyProgram
    BY <1>5 DEF AnyProgram
  <1>6. CASE Connect
    <2>1. UNCHANGED tags /\ pc' \in {"dialled", "fatal"}
      BY <1>6 DEF Connect, NewClient, vars
    <2>2. OnlyTarget'
      BY <1>3, <2>1
    <2> QED BY <2>1, <2>2 DEF DoneAtEnd
  <1>7. CASE Register
    <2>1. UNCHANGED tags /\ op' = op /\ op = NoOp
      BY <1>7 DEF Register, NewPLCClient, vars, Planned
    <2>2. pc' = "fatal" \/ (pc' = "running" /\ todo' \in Plans)
      BY <1>7 DEF Register, Fatalf
    <2>3. todo' \in Plans => (ToWrite => todo' # <<>>)
      <3>1. kind \in Kinds /\ flags \in CommandLines /\ kind # "any"
        BY DEF Planned
      <3> QED BY <3>1, PlansFit DEF ToWrite
    <2>4. OnlyTarget' /\ (ToWrite' => ToWrite)
      BY <1>3, <2>1
    <2> QED BY <2>1, <2>2, <2>3, <2>4 DEF DoneAtEnd
  <1>8. CASE MakeAccess
    <2>1. todo' = todo /\ todo # <<>> /\ pc' = "running"
      BY <1>8 DEF MakeAccess, programVars
    <2>2. CASE UNCHANGED <<tags, flags>> /\ (ToWrite => op'.res.err # "none")
      <3>1. OnlyTarget' /\ (ToWrite' => ToWrite)
        BY <1>3, <2>2
      <3> QED BY <2>1, <2>2, <3>1 DEF DoneAtEnd
    <2>3. ASSUME ToWrite, Target(flags) \in DOMAIN tags, NEW type \in DataTypeOfGo, tags[Target(flags)].type = type,
                 Meant(flags, type) \in GoRange(GoName(type)),
                 tags' = [tags EXCEPT ![Target(flags)] = [type |-> type, data |-> WriteData(type, Meant(flags, type))]]
          PROVE  OnlyTarget' /\ DoneAtEnd'
      <3>0. PICK t, m, d : t = Target(flags) /\ m = Meant(flags, type) /\ d = WriteData(type, m)
        OBVIOUS
      <3>1. Target(flags)' = t /\ ToWrite' /\ Meant(flags, type)' = m
        BY <1>1, <2>3, <3>0 DEF Target, ToWrite, Meant
      <3>2. t \in DOMAIN tags /\ tags' = [tags EXCEPT ![t] = [type |-> type, data |-> d]]
        BY <2>3, <3>0
      <3>3. DOMAIN tags' = DOMAIN tags /\ tags'[t].type = type /\ tags'[t].data = d
        BY <3>2
      <3>4. WrittenNow(t)'
        <4>1. m \in GoRange(GoName(type)) /\ d = WriteData(type, m)
          BY <2>3, <3>0
        <4>2. Meant(flags', type) = m
          BY <1>1, <3>0
        <4> QED BY <3>3, <4>1, <4>2 DEF WrittenNow
      <3>5. ASSUME NEW n \in DOMAIN tags, n # t PROVE tags[n].data = Tags[n].data /\ tags'[n] = tags[n]
        BY <1>2, <3>0, <3>2, <3>5 DEF OnlyTarget
      <3>6. OnlyTarget'
        <4> SUFFICES ASSUME NEW n \in DOMAIN tags', tags'[n].data # Tags[n].data
                     PROVE  ToWrite' /\ n = Target(flags)' /\ WrittenNow(n)'
          BY DEF OnlyTarget
        <4>1. n = t
          BY <3>3, <3>5
        <4> QED BY <3>1, <3>4, <4>1
      <3>7. Done'
        BY <3>1, <3>2, <3>3, <3>4 DEF Done, WrittenNow
      <3> QED BY <2>1, <3>6, <3>7 DEF DoneAtEnd
    <2> QED BY <1>8, <2>2, <2>3, ToolAccess
  <1>9. CASE GoOn
    <2>1. UNCHANGED tags /\ op # NoOp /\ op' = NoOp /\ pc = "running"
      BY <1>9 DEF GoOn, Resume
    <2>2. pc' = "fatal" \/ (pc' = "running" /\ op.res.err = "none")
      BY <1>9, <2>1 DEF GoOn, Fatalf
    <2>3. OnlyTarget' /\ (Done => Done') /\ (ToWrite' => ToWrite)
      BY <1>3, <2>1
    <2> QED BY <1>2, <2>1, <2>2, <2>3 DEF DoneAtEnd
  <1>10. CASE Finish
    <2>1. UNCHANGED tags /\ todo' = todo /\ todo = <<>> /\ pc = "running" /\ pc' = "done"
      BY <1>10 DEF Finish, Close
    <2>2. OnlyTarget' /\ (Done => Done') /\ (ToWrite' => ToWrite)
      BY <1>3, <2>1
    <2> QED BY <1>2, <2>1, <2>2 DEF DoneAtEnd
  <1> QED BY <1>4, <1>5, <1>6, <1>7, <1>8, <1>9, <1>10 DEF ProgramNext

-----------------------------------------------------------------------------
(* The theorems                                                            *)

Base == TypeOK /\ Understood /\ UtilAgrees /\ Planned

LEMMA BaseAlways == ProgramSpec => []Base
  <1>1. ProgramInit => Base
    BY AtFirst, PlannedInit DEF Base, ProgramInit
  <1>2. Base /\ [ProgramNext]_<<vars, programVars>> => Base'
    BY ProgramSteps, PlannedStep, VarsBase DEF Base
  <1> QED BY <1>1, <1>2, PTL DEF ProgramSpec

\* The variables of clients, PLC and access have their types, whatever the tags are called:
\* no conversion leaves the range of a byte, and a tag keeps its type (cip.go:154-230).
THEOREM TypeCorrect == ProgramSpec => []TypeOK
  <1>1. Base => TypeOK
    BY DEF Base
  <1> QED BY <1>1, BaseAlways, PTL

\* A request is understood as it is meant, for every name that fits its length byte, every
\* type and every value; one with a name that does not, if it is plain, is taken for nothing
\* and its access fails (cip.go:154-230, client.go:277-304).
THEOREM AlwaysUnderstood == ProgramSpec => []Understood
  <1>1. Base => Understood
    BY DEF Base
  <1> QED BY <1>1, BaseAlways, PTL

\* With names that do not look like requests themselves, the tags stand for the values last
\* written, and every access is judged right.
Full == Base /\ Stored /\ Judged /\ ToolInv

LEMMA FullAlways ==
  ASSUME \A n \in Names : Plain(n)
  PROVE  ProgramSpec => []Full
  <1>1. ProgramInit => Full
    BY AtFirst, PlannedInit, ToolInit DEF Full, Base, ProgramInit
  <1>2. Full /\ [ProgramNext]_<<vars, programVars>> => Full'
    <2> SUFFICES ASSUME Full, [ProgramNext]_<<vars, programVars>> PROVE Full'
      OBVIOUS
    <2>1. PlainNames
      BY DEF PlainNames
    <2>2. Base'
      BY ProgramSteps, PlannedStep, VarsBase DEF Full, Base
    <2>3. Stored' /\ Judged'
      BY <2>1, ProgramSteps, VarsJudged DEF Full, Base
    <2>4. ToolInv'
      BY <2>1, ToolStep DEF Full, Base
    <2> QED BY <2>2, <2>3, <2>4 DEF Full
  <1> QED BY <1>1, <1>2, PTL DEF ProgramSpec

\* The tags of the PLC are a store of values for those who access them, whatever becomes of
\* requests and replies, with the bytes that are sent forgotten (plc.go:37-116,
\* cip.go:154-230, 277-323).
THEOREM StoreKept ==
  ASSUME \A n \in Names : Plain(n)
  PROVE  ProgramSpec => KeepsStore
  <1>1. ProgramInit => AsStore!Init
    BY StoreInit DEF ProgramInit
  <1>2. Full /\ [ProgramNext]_<<vars, programVars>> => [AsStore!Next]_(AsStore!vars)
    <2> SUFFICES ASSUME Full, [ProgramNext]_<<vars, programVars>> PROVE [AsStore!Next]_(AsStore!vars)
      OBVIOUS
    <2>1. PlainNames
      BY DEF PlainNames
    <2> QED BY <2>1, ProgramSteps, StoreStep DEF Full, Base
  <1> QED BY <1>1, <1>2, FullAlways, PTL DEF ProgramSpec, KeepsStore, AsStore!Spec

\* A tag that is read has the value it was last written with, of every type but REAL, and
\* however the reply was cut (plc.go:37-116, cip.go:277-323).
THEOREM AlwaysReadBack ==
  ASSUME \A n \in Names : Plain(n)
  PROVE  ProgramSpec => []ReadBack
  <1>1. Full => ReadBack
    BY DEF Full, Judged
  <1> QED BY <1>1, FullAlways, PTL

\* WriteTag returns nil only when the PLC holds the value (plc.go:103-115).
THEOREM AlwaysStored ==
  ASSUME \A n \in Names : Plain(n)
  PROVE  ProgramSpec => []AckIsStored
  <1>1. Full => AckIsStored
    BY DEF Full, Judged
  <1> QED BY <1>1, FullAlways, PTL

\* A string is returned as long as announced or not at all, and only a length within 4 of
\* the largest uint16 panics (cip.go:315-323).
THEOREM AlwaysWhole ==
  ASSUME \A n \in Names : Plain(n)
  PROVE  ProgramSpec => []StringWhole
  <1>1. Full => StringWhole
    BY DEF Full, Judged
  <1> QED BY <1>1, FullAlways, PTL

\* The encoders of util.go give the bytes WriteTag sends, and its decoders make of these the
\* value that was written, REAL included (util.go:67-127).  cip.go has decoders of its own.
THEOREM AlwaysUtilAgrees == ProgramSpec => []UtilAgrees
  <1>1. Base => UtilAgrees
    BY DEF Base
  <1> QED BY <1>1, BaseAlways, PTL

\* With -fanuc the tool changes no tag but its target, and that only to what its command line
\* spells, a REAL rounded to a float32; it ends well only after the PLC has it (main.go:156-206).
THEOREM ToolHonest ==
  ASSUME \A n \in Names : Plain(n)
  PROVE  ProgramSpec => []WritesWhatItSays
  <1>1. Full => WritesWhatItSays
    <2> SUFFICES ASSUME Full, kind = "tool", flags.fanuc PROVE WritesWhatItSays
      BY DEF WritesWhatItSays
    <2>1. OnlyTarget /\ DoneAtEnd
      BY DEF Full, ToolInv
    <2>2. pc = "done" /\ flags.mode = "write" /\ flags.fanuc => Target(flags) \in DOMAIN tags /\ WrittenNow(Target(flags))
      BY <2>1 DEF DoneAtEnd, ToWrite, Done
    <2> QED BY <2>1, <2>2 DEF WritesWhatItSays, OnlyTarget, ToWrite, WrittenNow
  <1> QED BY <1>1, FullAlways, PTL
=============================================================================
