----------------------------- MODULE MCPrograms -----------------------------
(* Instances of Programs, and with it TagAccess, for TLC: bytes of four bits. *)
EXTENDS Programs, TLC

\* The low four bits of the codes, where they differ.
MCCode ==
  [ReadTag |-> 4, WriteTag |-> 5, Symbolic |-> 9,
   BOOL |-> 1, SINT |-> 2, INT |-> 3, DINT |-> 4, REAL |-> 10, DWORD |-> 13, STRING |-> 0, other |-> 15]

\* A float of 16 bits, half precision, on a few numbers: 11 bits of a number, and up to 65504.
MCFloat32bits ==
  (-1) :> 48128 @@ 0 :> 0 @@ 1 :> 15360 @@ 75 :> 21680 @@ 100 :> 22080 @@ 127 :> 22512 @@
  200 :> 23104 @@ 2048 :> 26624 @@ 40000 :> 30946

\* Names of one letter: of even and odd length, the longest that fits, the first that do not,
\* and those whose path size, or whose message length, comes round to small numbers again.
Long(n) == [i \in 1..n |-> 11]

MCTags ==
  Long(1) :> [type |-> "INT", data |-> <<0, 8>>, value |-> Value("int16", <<-128>>)] @@
  Long(2) :> [type |-> "SINT", data |-> <<8>>, value |-> Value("int8", <<-8>>)] @@
  Long(3) :> [type |-> "DINT", data |-> <<14, 15, 15, 15>>, value |-> Value("int32", <<-2>>)] @@
  Long(4) :> [type |-> "REAL", data |-> <<0, 0, 12, 3>>, value |-> Value("float32", <<1>>)] @@
  Long(5) :> [type |-> "DWORD", data |-> <<1, 2, 3, 15>>, value |-> Value("uint32", <<62241>>)] @@
  Long(6) :> [type |-> "STRING", data |-> <<11, 12, 11>>, value |-> Value("string", <<11, 12, 11>>)] @@
  Long(15) :> [type |-> "BOOL", data |-> <<1>>, value |-> Value("bool", <<1>>)]

MCNames == {Long(n) : n \in {0, 16, 17, 33, 250}} \cup DOMAIN MCTags

\* The hypothesis of some theorems of Programs_proofs
ASSUME PlainNames == \A n \in Names : Plain(n)

MCValues ==
  {Value("bool", <<b>>) : b \in {0, 1}}
  \cup {Value("int8", <<n>>) : n \in {-8, 7}}
  \cup {Value("int16", <<n>>) : n \in {-128, 127}}
  \cup {Value("int32", <<n>>) : n \in {-32768, -2, 32767}}
  \cup {Value("float32", <<n>>) : n \in {1, 75}}

MCAnnounced == {0, 2, 4, 251, 252, 255}

\* Numbers below zero, at the limits of a type and past those of all;  one that is rounded,
\* and one that is an integer but not written as one.
MCSpells ==
  "-1" :> -1 @@ "0" :> 0 @@ "1" :> 1 @@ "127" :> 127 @@ "200" :> 200 @@ "2049" :> 2049 @@
  "40000" :> 40000 @@ "70000" :> 70000

MCSpellsReal ==
  "-1" :> -1 @@ "0" :> 0 @@ "1" :> 1 @@ "1e2" :> 100 @@ "127" :> 127 @@ "200" :> 200 @@
  "2049" :> 2048 @@ "40000" :> 40000

MCRegisterTag == [r \in RegisterTypes |->
  CASE r \in {"R", "AI", "AO"} -> Long(4) [] r \in {"DI", "DO", "GI", "GO"} -> Long(15) [] OTHER -> Long(6)]

MCExampleTags == <<Long(3), Long(15), Long(4)>>

Flags(fanuc, mode, tag, type, value, register, regtype) ==
  [fanuc |-> fanuc, mode |-> mode, tag |-> tag, type |-> type, value |-> value,
   register |-> register, regtype |-> regtype]

MCCommandLines ==
  {Flags(f, mode, <<>>, "DINT", "", FALSE, "R") : f \in BOOLEAN, mode \in {"info", "read", "write", "??"}}
  \cup {Flags(f, "read", Long(n), type, "", FALSE, "R") :
          f \in BOOLEAN, n \in {3, 6, 15, 17}, type \in {"BOOL", "DINT", "STRING", "other"}}
  \cup {Flags(TRUE, "write", Long(n), type, value, FALSE, "R") :
          n \in {1, 2, 3, 4, 5, 6, 15, 17}, type \in DataTypes, value \in Texts}
  \cup {Flags(FALSE, "write", Long(3), type, value, FALSE, "R") : type \in DataTypes, value \in Texts}
  \cup {Flags(TRUE, "read", Long(3), "DINT", "", TRUE, rt) : rt \in RegisterTypes \cup {"??"}}
  \cup {Flags(TRUE, "write", Long(3), type, value, TRUE, rt) :
          type \in {"BOOL", "DINT", "REAL"}, value \in Texts, rt \in RegisterTypes \cup {"PR", "??"}}
=============================================================================
