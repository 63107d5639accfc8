------------------------------ MODULE TagStore ------------------------------
(***************************************************************************)
(* What PLCClient.ReadTag and WriteTag (pkg/cpppo/plc.go) promise to those *)
(* who use the tags of a PLC: a store of a value per tag, which accesses   *)
(* read and write whole.  TagAccess implements it with requests and        *)
(* replies made of bytes, which the PLC parses by the lengths in them.     *)
(***************************************************************************)

CONSTANTS
  Stored,  \* the value of each tag at first
  Nothing  \* no value

VARIABLES
  value,  \* the value of each tag
  access  \* the access that returns: what it does, its tag, its value and how it ends

vars == <<value, access>>

\* ok: no error;  unsure: no error, but the value is not vouched for;  error.
Answer(do, name, v, res) == [do |-> do, name |-> name, value |-> v, res |-> res]
NoAccess == Answer("none", <<>>, Nothing, "ok")

Init == value = Stored /\ access = NoAccess

\* A read that succeeds returns the value of the tag it names; none changes a tag.
ReadTag ==
  /\ access = NoAccess /\ access'.do = "read"
  /\ access'.res = "ok" => access'.name \in DOMAIN value /\ access'.value = value[access'.name]
  /\ UNCHANGED value

\* A write changes the tag it names, to the value it was given, or nothing; then there is
\* an error, but not every error means that nothing was changed.
WriteTag ==
  /\ access = NoAccess /\ access'.do = "write" /\ access'.res # "unsure"
  /\ \/ access'.name \in DOMAIN value /\ value' = [value EXCEPT ![access'.name] = access'.value]
     \/ access'.res = "error" /\ UNCHANGED value

Return ==
  /\ access # NoAccess /\ access' = NoAccess
  /\ UNCHANGED value

Next == ReadTag \/ WriteTag \/ Return

Spec == Init /\ [][Next]_vars
=============================================================================
