------------------------------ MODULE TagAccess ------------------------------
(***************************************************************************)
(* PLCClients (pkg/cpppo/plc.go) that read and write the tags of one PLC.  *)
(*                                                                         *)
(* A tag access is one step, for SendRRData holds the mutex of the client  *)
(* from the request to the reply (EIPSession).  The bytes are those of     *)
(* CIPCodec.  The PLC keeps a tag as its data type and its bytes; it       *)
(* parses a request by the lengths in it, and refuses one that they do     *)
(* not fit.                                                                *)
(***************************************************************************)
EXTENDS CIPCodec

CONSTANTS
  Users,      \* owners of a PLCClient each, in one process
  Names,      \* tag names that are accessed
  Tags,       \* the tags the PLC starts with: type, bytes and the value they stand for
  Values,     \* the values users pass to WriteTag
  Announced,  \* string lengths that a faulty PLC announces
  Faults      \* what the PLC and the network may do, a subset of AllFaults

\* refuse: an error status, for a registration or an access;  lost: no reply comes;
\* cut: a reply ends early;  lie: a string announces another length than it has.
AllFaults == {"refuse", "lost", "cut", "lie"}

ASSUME TagAccessAssumption ==
  /\ Faults \subseteq AllFaults /\ DOMAIN Tags \subseteq Names
  /\ \A n \in Names : n \in Seq(0..(Byte - 1))
  /\ \A n \in DOMAIN Tags : Tags[n].data \in Seq(0..(Byte - 1)) /\ StandsFor(Tags[n], Tags[n].value)
  /\ \A value \in Values : value.go # "string" => IsNumber(value)
  /\ Announced \subseteq 0..(Word - 1)

VARIABLES
  client,  \* each user's connection: none, dialled, registered or closed
  tags,    \* the tags of the PLC: type and bytes
  last,    \* history: the value each tag was last written with, as the user gave it
  op       \* the access that returns, as user and PLC saw it

vars == <<client, tags, last, op>>

Access(do, name, type, data) == [do |-> do, name |-> name, type |-> type, data |-> data]
NoAccess == Access("none", <<>>, "other", <<>>)

\* asked: the access the user meant;  seen: what the PLC took it for;  told: the length a
\* string in the reply announces;  value: what is written;  res: what the call returns.
Op(asked, seen, told, value, res) ==
  [asked |-> asked, seen |-> seen, told |-> told, value |-> value, res |-> res]

NoOp == Op(NoAccess, NoAccess, 0, NoValue, Ok(NoValue))

Init ==
  /\ client = [u \in Users |-> "none"]
  /\ tags = [n \in DOMAIN Tags |-> [type |-> Tags[n].type, data |-> Tags[n].data]]
  /\ last = [n \in DOMAIN Tags |-> Tags[n].value]
  /\ op = NoOp

-----------------------------------------------------------------------------
(* The PLC                                                                   *)

Width(type) == CASE type \in {"BOOL", "SINT"} -> 1 [] type = "INT" -> 2 [] OTHER -> 4

\* A path is one symbolic segment: a name of the length it announces, padded to a word.
IsPath(path) ==
  /\ Len(path) >= 2 /\ path[1] = Code["Symbolic"]
  /\ Len(path) = 2 + path[2] + (path[2] % 2)

PathName(path) == SubSeq(path, 3, 2 + path[2])

\* The accesses a service with these parameters can be: one, or none.
Requests(service, name, params) ==
  {a \in {Access("read", name, "other", <<>>)} :
     service = Code["ReadTag"] /\ Len(params) = 2 /\ Uint16(params) = 1}
  \cup
  {a \in {Access("write", name, t, SubSeq(params, 3, Len(params))) : t \in DataTypes \ {"other"}} :
     /\ service = Code["WriteTag"] /\ Len(params) > 2
     /\ params[1] = Code[a.type] /\ Len(params) - 2 = Width(a.type) * params[2]}

\* What the PLC takes a request for: the accesses it can be parsed as, else none.
Seen(request) ==
  LET msg     == SendRRData(request)
      pathEnd == 2 + 2 * request[2]
      path    == SubSeq(request, 3, pathEnd)
      found   == IF msg.Length = 6 + Len(request) /\ pathEnd =< Len(request) /\ IsPath(path)
                 THEN Requests(request[1], PathName(path), SubSeq(request, pathEnd + 1, Len(request)))
                 ELSE {}
  IN  IF found = {} THEN NoAccess ELSE CHOOSE a \in found : TRUE

Servable(a) ==
  /\ a.name \in DOMAIN tags
  /\ a.do = "read" \/ (a.do = "write" /\ tags[a.name].type = a.type)

Refusal(service) == <<Code[service] + ReplyBit, 1>>
Reply(service, data) == <<Code[service] + ReplyBit, 0>> \o data

\* The reply to a read, in which a string announces n bytes.
TagReply(tag, n) ==
  Reply("ReadTag", <<Code[tag.type], 0>> \o (IF tag.type = "STRING" THEN PutUint16(n) ELSE <<>>) \o tag.data)

\* What the PLC may say to a read it serves: the whole of it, the beginning, or a string
\* with a length that is not its own.
Replies(tag) ==
  LET whole == TagReply(tag, Len(tag.data))
  IN  {whole}
      \cup {SubSeq(whole, 1, k) : k \in IF "cut" \in Faults THEN 0..(Len(whole) - 1) ELSE {}}
      \cup {TagReply(tag, n) : n \in IF "lie" \in Faults THEN Announced ELSE {}}

-----------------------------------------------------------------------------
(* PLCClient                                                                 *)

\* NewClient has dialled; a failed dial leaves nothing.
NewClient(u) ==
  /\ client[u] = "none"
  /\ client' = [client EXCEPT ![u] = "dialled"]
  /\ UNCHANGED <<tags, last, op>>

\* NewPLCClient registers a session; when that fails it closes the connection.
NewPLCClient(u) ==
  /\ client[u] = "dialled"
  /\ \/ client' = [client EXCEPT ![u] = "registered"]
     \/ "refuse" \in Faults /\ client' = [client EXCEPT ![u] = "closed"]
  /\ UNCHANGED <<tags, last, op>>

Close(u) ==
  /\ client[u] = "registered"
  /\ client' = [client EXCEPT ![u] = "closed"]
  /\ UNCHANGED <<tags, last, op>>

\* The string length a reply announces
Told(reply) == IF Len(reply) < 6 THEN 0 ELSE Uint16(SubSeq(reply, 5, 6))

\* A panic ends the process, and with it all its connections.
Returns(asked, seen, told, value, res) ==
  /\ op' = Op(asked, seen, told, value, res)
  /\ client' = IF res.err = "panic" THEN [u \in Users |-> "closed"] ELSE client

Ready(u) == client[u] = "registered" /\ op = NoOp

NoReply == Fail("no reply")

ReadTag(u, name, type) ==
  LET asked == Access("read", name, type, <<>>)
      seen  == Seen(BuildCIPReadRequest(name, 1))
      Gets(reply) == Returns(asked, seen, Told(reply), NoValue, ParseCIPReadResponse(reply, type))
  IN  /\ Ready(u)
      /\ \/ Servable(seen) /\ \E reply \in Replies(tags[seen.name]) : Gets(reply)
         \/ ("refuse" \in Faults \/ ~Servable(seen)) /\ Gets(Refusal("ReadTag"))
         \/ "lost" \in Faults /\ Returns(asked, seen, 0, NoValue, NoReply)
      /\ UNCHANGED <<tags, last>>

Store(a, value) ==
  /\ tags' = [tags EXCEPT ![a.name] = [type |-> a.type, data |-> a.data]]
  /\ last' = [last EXCEPT ![a.name] = value]

\* The type switch of WriteTag
Convertible(type, value) == type \in DOMAIN GoType /\ value.go = GoType[type]

\* The reply may be lost after the PLC has stored the value.
WriteTag(u, name, type, value) ==
  LET asked == Access("write", name, type, WriteData(type, value.v[1]))
      seen  == Seen(BuildCIPWriteRequest(name, type, asked.data))
      Gets(reply) == Returns(asked, seen, 0, value, ParseCIPResponse(reply))
  IN  /\ Ready(u)
      /\ Convertible(type, value)
      /\ \/ /\ Servable(seen) /\ Store(seen, value)
            /\ \/ Gets(Reply("WriteTag", <<>>))
               \/ "lost" \in Faults /\ Returns(asked, seen, 0, value, NoReply)
         \/ /\ "refuse" \in Faults \/ ~Servable(seen)
            /\ Gets(Refusal("WriteTag"))
            /\ UNCHANGED <<tags, last>>

\* WriteTag returns before it sends anything: the value is not of the Go type for the
\* data type, or the data type has none.
WriteTagRejects(u, type, value) ==
  /\ Ready(u)
  /\ ~Convertible(type, value)
  /\ Returns(Access("write", <<>>, type, <<>>), NoAccess, 0, value, Fail("not sent"))
  /\ UNCHANGED <<tags, last>>

-----------------------------------------------------------------------------

\* The access has returned, and its user goes on.
Resume ==
  /\ op # NoOp
  /\ op' = NoOp
  /\ UNCHANGED <<client, tags, last>>

Next ==
  \/ \E u \in Users :
       \/ NewClient(u) \/ NewPLCClient(u) \/ Close(u)
       \/ \E type \in DataTypes :
            \/ \E name \in Names : ReadTag(u, name, type)
            \/ \E name \in Names, value \in Values : WriteTag(u, name, type, value)
            \/ \E value \in Values : WriteTagRejects(u, type, value)
  \/ Resume

Spec == Init /\ [][Next]_vars

-----------------------------------------------------------------------------
(* Properties                                                                *)

Bytes == 0..(Byte - 1)

\* The variables have these types: no conversion leaves the range of a byte, what is sent of a
\* value is as wide as its data type, and a tag keeps its type.
TypeOK ==
  /\ client \in [Users -> {"none", "dialled", "registered", "closed"}]
  /\ DOMAIN tags = DOMAIN Tags /\ DOMAIN last = DOMAIN Tags
  /\ \A n \in DOMAIN tags : tags[n].type = Tags[n].type /\ tags[n].data \in Seq(Bytes)
  /\ op.asked.data \in Seq(Bytes) /\ op.told \in 0..(Word - 1)
  /\ op.asked.do = "write" /\ op.res.err # "not sent" => Len(op.asked.data) = Width(op.asked.type)

\* Names that do not look like a request themselves: the length byte and the path size of one
\* of 2 * Byte letters and more can agree again, and then the rest of the name stands where the
\* data type is looked for.
Plain(name) ==
  Len(name) < 2 * Byte \/ \A i \in DOMAIN name : \A type \in DataTypes : name[i] # Code[type]

\* A request says what is meant: the PLC, which goes by the path size, the name length, the
\* element count and the length in the header, finds the same tag, type and data
\* (cip.go:154-230, client.go:277-304).  A name too long for its length byte, which these
\* fields misstate, is not taken for another name, if it is plain: the request fails.
Understood ==
  op.res.err # "not sent" =>
    IF Len(op.asked.name) \in 1..(Byte - 1)
    THEN op.seen = [op.asked EXCEPT !.type = IF op.asked.do = "read" THEN "other" ELSE @]
    ELSE Plain(op.asked.name) =>
           op.seen = NoAccess /\ (op.asked.do # "none" => op.res.err # "none")

\* A string is returned as long as announced or not at all, however the reply was cut
\* short.  Only a length within 4 of the largest uint16 gets past the comparison, and then
\* the slice expression panics (cip.go:315-323).
StringWhole ==
  op.asked.do = "read" /\ op.asked.type = "STRING" =>
    LET data == tags[op.asked.name].data
    IN  /\ op.res.err = "none" => op.told =< Len(data) /\ op.res.value.v = SubSeq(data, 1, op.told)
        /\ op.res.err = "panic" => op.told >= Word - 4

Encode(type, v) ==
  CASE type = "BOOL" -> EncodeBool(v) [] type = "INT" -> EncodeInt16(v)
    [] type = "DINT" -> EncodeInt32(v) [] type = "REAL" -> EncodeFloat32(v)
Decode(type, data) ==
  CASE type = "BOOL" -> DecodeBool(data) [] type = "INT" -> DecodeInt16(data)
    [] type = "DINT" -> DecodeInt32(data) [] type = "REAL" -> DecodeFloat32(data)

\* The access that returns as its user sees it.  Not vouched for are a REAL, see RealReadBack,
\* and a string in a reply that announces another length; without a tag it is no access.
AnswerSeen ==
  LET a    == op.asked
      okay == op.res.err = "none"
      firm == a.do = "write" \/ (a.type # "REAL" /\ (a.type = "STRING" => op.told = Len(tags[a.name].data)))
  IN  IF a.do = "none" THEN [do |-> "none", name |-> <<>>, value |-> NoValue, res |-> "ok"]
      ELSE [do |-> a.do, name |-> a.name, value |-> IF a.do = "read" THEN op.res.value ELSE op.value,
            res |-> IF ~okay THEN "error" ELSE IF firm THEN "ok" ELSE "unsure"]

AsStore == INSTANCE TagStore WITH
  Stored <- [n \in DOMAIN Tags |-> Tags[n].value], Nothing <- NoValue, value <- last, access <- AnswerSeen

\* What is made of bytes is a store of values: however requests and replies are refused, lost
\* or cut, a read that succeeds returns the value the tag was last written with, down to the
\* smallest and the largest integer;  an access leaves every tag but the one it names as it was;  a write that succeeds has stored its value, and one that fails that
\* or nothing (plc.go:37-116, cip.go:154-230, 277-323).
KeepsStore == AsStore!Spec

\* The helpers of util.go give the bytes that WriteTag sends, and decode them, REAL
\* included; of fewer bytes they make an error (util.go:67-127).
UtilAgrees ==
  op.asked.do = "write" /\ op.res.err # "not sent" /\ op.asked.type # "SINT" =>
    /\ Encode(op.asked.type, op.value.v[1]) = op.asked.data
    /\ Decode(op.asked.type, op.asked.data) = Ok(op.value)
    /\ Decode(op.asked.type, Tail(op.asked.data)).err # "none"

\* "Read back the value we just wrote" (examples/plc/main.go:165): a REAL that is read has
\* the value it was last written with.
RealReadBack ==
  op.asked.do = "read" /\ op.asked.type = "REAL" /\ op.res.err = "none" =>
    op.res.value = last[op.asked.name]
=============================================================================
